------------------------------- MODULE Orders -------------------------------
(***************************************************************************)
(* Carts, the product shelf, checkout and the life of an order: apps/cart, *)
(* apps/orders and the parts of apps/products that write stock.            *)
(*                                                                         *)
(* Every action is one database transaction. The services lock, in this    *)
(* order, the user, the order, the cart, the products and the lines they   *)
(* read, so a transaction sees and leaves a state in which no other one    *)
(* runs halfway; the two places where the code reads without a lock that   *)
(* covers the write are split in two actions (the admin change form, and   *)
(* checkout's stale-order retry). A service that raises rolls back, which  *)
(* is the absence of a step.                                               *)
(***************************************************************************)
EXTENDS Integers, FiniteSets, OrderTransitions

CONSTANTS
  Users,         \* customers
  Products,      \* product rows
  OrderIds,      \* order rows
  Keys,          \* Idempotency-Key values a client may send
  Addresses,     \* address uuids a client may send
  MaxCartLines,  \* MAX_CART_ITEMS_FOR_CHECKOUT
  MaxQty,        \* bound: quantity of one cart line
  MaxStock,      \* bound: stock a staff edit may set
  MaxEdits,      \* bound: staff writes to the catalogue
  NoOrder        \* the order row does not exist

ASSUME BoundsAssumption ==
  /\ MaxCartLines \in Nat \ {0}
  /\ MaxQty \in Nat \ {0}
  /\ MaxStock \in Nat
  /\ MaxEdits \in Nat

ASSUME OrderIdsAssumption == OrderIds # {}

OrderRow ==
  [user : Users, key : Keys, address : Addresses, lines : [Products -> Nat],
   status : Statuses, lapsed : BOOLEAN, late : BOOLEAN, reason : Reasons,
   rsv : ReservationStates, told : SUBSET Events]

ASSUME NoOrderAssumption == NoOrder \notin OrderRow

VARIABLES
  listing,  \* [Products -> "absent" | "active" | "inactive"]: the row and is_active
  stock,    \* [Products -> Nat]: Product.stock
  cart,     \* [Users -> [Products -> Nat]]: CartItem.quantity, 0 for no item
  order,    \* [OrderIds -> OrderRow or NoOrder]
  form,     \* [Products -> Form]: one staff member's product change form
  shelved,  \* history: goods staff have put on the shelf, net of goods taken off
  edits     \* how many staff writes were made, for MaxEdits

vars == <<listing, stock, cart, order, form, shelved, edits>>

\* A change form: shown is the stock the page displayed, typed what staff
\* typed, initial what the form object built for the POST holds.
FormStates == {"closed", "shown", "posted"}

Form == [at : FormStates, shown : Nat, typed : Nat, initial : Nat]

ClosedForm == [at |-> "closed", shown |-> 0, typed |-> 0, initial |-> 0]

EmptyCart == [p \in Products |-> 0]

Placed(o) == order[o] # NoOrder

CartLines(u) == {p \in Products : cart[u][p] > 0}

Init ==
  /\ listing = [p \in Products |-> "absent"]
  /\ stock = [p \in Products |-> 0]
  /\ cart = [u \in Users |-> EmptyCart]
  /\ order = [o \in OrderIds |-> NoOrder]
  /\ form = [p \in Products |-> ClosedForm]
  /\ shelved = [p \in Products |-> 0]
  /\ edits = 0

-----------------------------------------------------------------------------
(* The cart. The product is read without a lock: its stock only gates what *)
(* may be written into the cart, it is not reserved.                       *)

SetCartLine(u, p, q) ==
  /\ cart' = [cart EXCEPT ![u] = [@ EXCEPT ![p] = q]]
  /\ UNCHANGED <<listing, stock, order, form, shelved, edits>>

AddCartItem(u, p, q) ==
  /\ listing[p] = "active"
  /\ cart[u][p] + q <= stock[p]
  /\ SetCartLine(u, p, cart[u][p] + q)

UpdateCartItem(u, p, q) ==
  /\ p \in CartLines(u)
  /\ q <= stock[p]
  /\ SetCartLine(u, p, q)

RemoveCartItem(u, p) ==
  /\ p \in CartLines(u)
  /\ SetCartLine(u, p, 0)

ClearCart(u) ==
  /\ cart' = [cart EXCEPT ![u] = EmptyCart]
  /\ UNCHANGED <<listing, stock, order, form, shelved, edits>>

-----------------------------------------------------------------------------
(* Writing one order row. Every service that stops an active reservation   *)
(* set from being active without consuming it gives the lines back.        *)

\* Mutant of WriteOrder: the row is written, the goods stay off the shelf.
WriteOrderOnly(o, row) ==
  /\ order' = [order EXCEPT ![o] = row]
  /\ UNCHANGED <<listing, stock, cart, form, shelved, edits>>

WriteOrder(o, row) ==
  /\ order' = [order EXCEPT ![o] = row]
  /\ stock' = [p \in Products |->
                 stock[p] + (IF Restocks(order[o], row) THEN row.lines[p] ELSE 0)]
  /\ UNCHANGED <<listing, cart, form, shelved, edits>>

OrdersOf(u) == {o \in OrderIds : Placed(o) /\ order[o].user = u}

WithKey(u, k) == {o \in OrdersOf(u) : order[o].key = k}

WaitingOf(u) == {o \in OrdersOf(u) : Waiting(order[o])}

\* create_waiting_order, replaying an Idempotency-Key: the order is returned
\* as it is, unless it has been waiting past its deadline.
CheckoutReplay(u, k, a) ==
  \E o \in WithKey(u, k) :
    /\ order[o].address = a
    /\ CanExpire(order[o])
    /\ WriteOrder(o, Expired(order[o]))

\* create_waiting_order, first pass of its loop: another order of the user
\* is past its deadline; cancelling it commits before checkout is retried.
CheckoutReconcilesStale(u, k) ==
  /\ WithKey(u, k) = {}
  /\ \E o \in WaitingOf(u) :
       /\ CanExpire(order[o])
       /\ WriteOrder(o, Expired(order[o]))

\* OrderManager.create_waiting, one OrderItem and one active StockReservation
\* for each cart item.
NewOrder(u, k, a) ==
  [user |-> u, key |-> k, address |-> a, lines |-> cart[u], status |-> "waiting",
   lapsed |-> FALSE, late |-> FALSE, reason |-> "", rsv |-> "active", told |-> {}]

\* Mutants of CheckoutCreate: stock is not checked again under the lock; another
\* waiting order is not looked for.
CheckoutOversells(u, k, a) ==
  /\ WithKey(u, k) = {}
  /\ WaitingOf(u) = {}
  /\ CartLines(u) # {}
  /\ \E o \in OrderIds : ~Placed(o) /\ order' = [order EXCEPT ![o] = NewOrder(u, k, a)]
  /\ stock' = [p \in Products |-> stock[p] - cart[u][p]]
  /\ cart' = [cart EXCEPT ![u] = EmptyCart]
  /\ UNCHANGED <<listing, form, shelved, edits>>

CheckoutBesideWaiting(u, k, a) ==
  /\ WithKey(u, k) = {}
  /\ CartLines(u) # {}
  /\ \A p \in CartLines(u) : listing[p] = "active" /\ cart[u][p] <= stock[p]
  /\ \E o \in OrderIds : ~Placed(o) /\ order' = [order EXCEPT ![o] = NewOrder(u, k, a)]
  /\ stock' = [p \in Products |-> stock[p] - cart[u][p]]
  /\ cart' = [cart EXCEPT ![u] = EmptyCart]
  /\ UNCHANGED <<listing, form, shelved, edits>>

\* create_waiting_order, the pass that creates the order. Inactive users,
\* incomplete profiles and foreign addresses are refusals: they may come at
\* any time and change nothing.
CheckoutCreate(u, k, a) ==
  /\ WithKey(u, k) = {}
  /\ WaitingOf(u) = {}
  /\ CartLines(u) # {}
  /\ Cardinality(CartLines(u)) <= MaxCartLines
  /\ \A p \in CartLines(u) : listing[p] = "active" /\ cart[u][p] <= stock[p]
  /\ \E o \in OrderIds :
       /\ ~Placed(o)
       /\ order' = [order EXCEPT ![o] = NewOrder(u, k, a)]
  /\ stock' = [p \in Products |-> stock[p] - cart[u][p]]
  /\ cart' = [cart EXCEPT ![u] = EmptyCart]
  /\ UNCHANGED <<listing, form, shelved, edits>>

-----------------------------------------------------------------------------
(* apps/orders/services/transitions.py. The tasks that call these may run  *)
(* late, twice or never; each re-reads the locked row.                     *)

\* now reaches reservation_expires_at.
DeadlinePasses(o) ==
  /\ Placed(o)
  /\ Waiting(order[o])
  /\ ~order[o].lapsed
  /\ WriteOrder(o, [order[o] EXCEPT !.lapsed = TRUE])

\* Mutant of ExpireUnpaidOrder: it expires only what was never late, the wrong
\* side of the deadline.
ExpireEarlyOnly(o) ==
  /\ Placed(o)
  /\ Waiting(order[o])
  /\ ~order[o].lapsed
  /\ WriteOrder(o, Expired(order[o]))

ExpireUnpaidOrder(o) ==
  /\ Placed(o)
  /\ CanExpire(order[o])
  /\ WriteOrder(o, Expired(order[o]))

CancelFailedPayment(o) ==
  /\ Placed(o)
  /\ CanCancelFailed(order[o])
  /\ WriteOrder(o, FailedPaymentRow(order[o]))

ConfirmVerifiedPayment(o) ==
  /\ Placed(o)
  /\ ~ConfirmRaises(order[o])
  /\ WriteOrder(o, ConfirmedRow(order[o]))

MarkOrderShipped(o) ==
  /\ Placed(o)
  /\ CanShip(order[o])
  /\ WriteOrder(o, ShippedRow(order[o]))

MarkOrderDelivered(o) ==
  /\ Placed(o)
  /\ CanDeliver(order[o])
  /\ WriteOrder(o, DeliveredRow(order[o]))

-----------------------------------------------------------------------------
(* Staff writes to the product row.                                        *)

Stocktake(p, n) ==
  /\ stock' = [stock EXCEPT ![p] = n]
  /\ shelved' = [shelved EXCEPT ![p] = @ + n - stock[p]]

Edit ==
  /\ edits < MaxEdits
  /\ edits' = edits + 1

CreateProduct(p, n) ==
  /\ Edit
  /\ listing[p] = "absent"
  /\ listing' = [listing EXCEPT ![p] = "active"]
  /\ Stocktake(p, n)
  /\ UNCHANGED <<cart, order, form>>

\* update_product_service: the API writes the stock it was sent.
UpdateProductStock(p, n) ==
  /\ Edit
  /\ listing[p] # "absent"
  /\ Stocktake(p, n)
  /\ UNCHANGED <<listing, cart, order, form>>

\* update_product_service and the admin form, setting is_active.
SetProductActive(p, l) ==
  /\ Edit
  /\ listing[p] \notin {"absent", l}
  /\ listing' = [listing EXCEPT ![p] = l]
  /\ UNCHANGED <<stock, cart, order, form, shelved>>

\* Mutant of DeleteProduct: open orders are not looked for.
DeleteOrderedProduct(p) ==
  /\ Edit
  /\ listing[p] # "absent"
  /\ listing' = [listing EXCEPT ![p] = "absent"]
  /\ Stocktake(p, 0)
  /\ cart' = [u \in Users |-> [cart[u] EXCEPT ![p] = 0]]
  /\ form' = [form EXCEPT ![p] = ClosedForm]
  /\ UNCHANGED order

\* delete_products_service: refused while an order line names the product;
\* its cart items go with it.
DeleteProduct(p) ==
  /\ Edit
  /\ listing[p] # "absent"
  /\ \A o \in OrderIds : Placed(o) => order[o].lines[p] = 0
  /\ listing' = [listing EXCEPT ![p] = "absent"]
  /\ Stocktake(p, 0)
  /\ cart' = [u \in Users |-> [cart[u] EXCEPT ![p] = 0]]
  /\ form' = [form EXCEPT ![p] = ClosedForm]
  /\ UNCHANGED order

\* The change page is rendered with the stock of that moment.
OpenForm(p) ==
  /\ edits < MaxEdits
  /\ listing[p] # "absent"
  /\ form[p].at = "closed"
  /\ form' = [form EXCEPT ![p] = [ClosedForm EXCEPT !.at = "shown", !.shown = stock[p]]]
  /\ UNCHANGED <<listing, stock, cart, order, shelved, edits>>

\* The POST loads the row again, without a lock, and builds the form from it:
\* form.initial is the stock of now, not the stock the page showed.
PostForm(p, n) ==
  /\ form[p].at = "shown"
  /\ form' = [form EXCEPT ![p] = [at |-> "posted", shown |-> form[p].shown,
                                  typed |-> n, initial |-> stock[p]]]
  /\ UNCHANGED <<listing, stock, cart, order, shelved, edits>>

\* ProductAdmin.save_model and update_product_from_admin_service: the change
\* of the form is merged onto the locked row; below zero it is refused.
SaveForm(p) ==
  /\ form[p].at = "posted"
  /\ Edit
  /\ LET merged == stock[p] + (form[p].typed - form[p].initial)
     IN  IF merged < 0 THEN UNCHANGED <<stock, shelved>> ELSE Stocktake(p, merged)
  /\ form' = [form EXCEPT ![p] = ClosedForm]
  /\ UNCHANGED <<listing, cart, order>>

-----------------------------------------------------------------------------
CustomerStep(u) ==
  \/ \E p \in Products, q \in 1..MaxQty : AddCartItem(u, p, q) \/ UpdateCartItem(u, p, q)
  \/ \E p \in Products : RemoveCartItem(u, p)
  \/ ClearCart(u)
  \/ \E k \in Keys :
       \/ CheckoutReconcilesStale(u, k)
       \/ \E a \in Addresses : CheckoutReplay(u, k, a) \/ CheckoutCreate(u, k, a)

OrderStep(o) ==
  \/ DeadlinePasses(o)
  \/ ExpireUnpaidOrder(o)
  \/ CancelFailedPayment(o)
  \/ ConfirmVerifiedPayment(o)
  \/ MarkOrderShipped(o)
  \/ MarkOrderDelivered(o)

StaffStep(p) ==
  \/ \E n \in 0..MaxStock :
       CreateProduct(p, n) \/ UpdateProductStock(p, n) \/ PostForm(p, n)
  \/ \E l \in {"active", "inactive"} : SetProductActive(p, l)
  \/ DeleteProduct(p)
  \/ OpenForm(p)
  \/ SaveForm(p)

Next ==
  \/ \E u \in Users : CustomerStep(u)
  \/ \E o \in OrderIds : OrderStep(o)
  \/ \E p \in Products : StaffStep(p)

Spec == Init /\ [][Next]_vars

\* Time passes, and Celery beat keeps scheduling sweep_expired_orders, whose
\* expiry tasks are retried on database and broker errors. Nothing else is
\* bound to happen.
FairSpec ==
  /\ Spec
  /\ \A o \in OrderIds : WF_vars(DeadlinePasses(o)) /\ WF_vars(ExpireUnpaidOrder(o))

-----------------------------------------------------------------------------
(* Properties *)

\* Every variable stays in its domain; in particular stock, a
\* PositiveIntegerField, never goes below zero.
TypeOK ==
  /\ listing \in [Products -> {"absent", "active", "inactive"}]
  /\ stock \in [Products -> Nat]
  /\ cart \in [Users -> [Products -> Nat]]
  /\ order \in [OrderIds -> OrderRow \cup {NoOrder}]
  /\ form \in [Products -> Form]
  /\ shelved \in [Products -> Int]
  /\ edits \in Nat

\* The goods an order keeps off the shelf.
Held(o, p) ==
  IF Placed(o) /\ order[o].rsv \in {"active", "consumed"} THEN order[o].lines[p] ELSE 0

\* The status decides the rest of an order's row: the mixed and impossible
\* reservation sets _validate_reservation_set raises on are never met, a
\* cancelled order has a reason and holds nothing, and the customer is told that
\* the order is confirmed or shipped exactly when it is, never of a late payment.
Consistent(row) ==
  /\ (row.status = "waiting") <=> (row.rsv = "active")
  /\ (row.status = "cancelled") <=> (row.rsv = "released")
  /\ (row.status = "cancelled") <=> (row.reason # "")
  /\ row.late => row.status = "cancelled"
  /\ "order_confirmed" \in row.told <=> row.status \in {"processing", "shipped", "delivered"}
  /\ "order_shipped" \in row.told <=> row.status \in {"shipped", "delivered"}

StatusDecidesRow ==
  \A o \in OrderIds : Placed(o) => Consistent(order[o])

\* orders_one_waiting_per_user is kept by the code, not by an IntegrityError:
\* a customer never reserves stock through two orders at once.
OneWaitingPerUser == \A u \in Users : \A a, b \in WaitingOf(u) : a = b

\* A client that repeats an Idempotency-Key, however late, gets one order.
OneOrderPerKey == \A u \in Users, k \in Keys : \A a, b \in WithKey(u, k) : a = b

CheckoutIsUnique == OneWaitingPerUser /\ OneOrderPerKey

\* A product row outlives every order line and cart line that names it:
\* releasing a reservation always finds the row to give the goods back to.
NamedProductsExist ==
  \A p \in Products : listing[p] = "absent" =>
    /\ \A o \in OrderIds : Placed(o) => order[o].lines[p] = 0
    /\ \A u \in Users : cart[u][p] = 0

\* Goods are sold only before the deadline: whatever a worker read earlier,
\* an order past reservation_expires_at can only wait on or be cancelled.
NeverSoldAfterDeadline ==
  [][\A o \in OrderIds :
       Placed(o) /\ Waiting(order[o]) /\ order[o].lapsed =>
         order'[o].status \in {"waiting", "cancelled"}]_vars

\* The goods orders keep off the shelf, as a set with one element for each unit.
HeldUnits(p) == UNION {{o} \X (1..Held(o, p)) : o \in OrderIds}

\* What staff put on the shelf is on it, reserved, or sold: whatever checkouts,
\* expiries, failures, confirmations and reconciliations did, and in any order,
\* no unit was given back twice, sold twice or forgotten.
StockConserved ==
  \A p \in Products : stock[p] + Cardinality(HeldUnits(p)) = shelved[p]

\* Orders implement the promise OrderLifecycle makes.
Phase(o) == IF Placed(o) THEN order[o].status ELSE "absent"

Goods(o) ==
  IF Placed(o) /\ order[o].rsv = "active" THEN "reserved"
  ELSE IF Placed(o) /\ order[o].rsv = "consumed" THEN "sold"
  ELSE "shelf"

Noticed(o) == IF Placed(o) THEN order[o].late ELSE FALSE

Lifecycle ==
  INSTANCE OrderLifecycle WITH
    phase <- [o \in OrderIds |-> Phase(o)],
    goods <- [o \in OrderIds |-> Goods(o)],
    noticed <- [o \in OrderIds |-> Noticed(o)]

KeepsOrderPromise == Lifecycle!Spec

\* No order waits, and no stock stays reserved, for ever: with time passing
\* and the sweep running, it is paid or cancelled.
EveryOrderSettles ==
  \A o \in OrderIds :
    (Placed(o) /\ order[o].rsv = "active") ~> (Placed(o) /\ order[o].rsv # "active")

\* update_product_from_admin_service promises to merge an admin form "without
\* stale overwrites": a saved form changes stock by what staff changed on the
\* page they saw, whatever was reserved meanwhile.
StaffEditMergesChange ==
  [][\A p \in Products :
       form[p].at = "posted" /\ form'[p].at = "closed" /\ stock'[p] # stock[p]
         /\ listing'[p] # "absent"
         => stock'[p] = stock[p] + form[p].typed - form[p].shown]_vars
=============================================================================
