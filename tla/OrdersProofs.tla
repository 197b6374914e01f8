---------------------------- MODULE OrdersProofs ----------------------------
(***************************************************************************)
(* What holds of Orders for any numbers of customers, products, orders and *)
(* keys: types, the agreement of reservations with order statuses, one     *)
(* waiting order per customer, one order per idempotency key, no sale      *)
(* after the deadline and the conservation of stock over all orders.       *)
(*                                                                         *)
(* The argument has three parts: what a service does to one row            *)
(* (RowStepFacts), the three kinds of steps Orders has (NextSplits), and   *)
(* each invariant over those kinds.                                        *)
(***************************************************************************)
EXTENDS Orders, FiniteSetTheorems, TLAPS

\* The services of transitions.py as a relation between a row before and
\* after, with the passing of the deadline.
RowStep(before, after) ==
  \/ Waiting(before) /\ after = [before EXCEPT !.lapsed = TRUE]
  \/ CanExpire(before) /\ after = Expired(before)
  \/ CanCancelFailed(before) /\ after = FailedPaymentRow(before)
  \/ ~ConfirmRaises(before) /\ after = ConfirmedRow(before)
  \/ CanShip(before) /\ after = ShippedRow(before)
  \/ CanDeliver(before) /\ after = DeliveredRow(before)

\* A service leaves a consistent row of the same order, never sells an order
\* past its deadline, never makes an order wait again, and gives its lines
\* back exactly when they stop being held.
LEMMA RowStepFacts ==
  ASSUME NEW before \in OrderRow, NEW after,
         RowStep(before, after), Consistent(before)
  PROVE  /\ after \in OrderRow
         /\ Consistent(after)
         /\ after.user = before.user /\ after.key = before.key
         /\ after.lines = before.lines
         /\ Waiting(after) => Waiting(before)
         /\ Waiting(before) /\ before.lapsed => after.status \in {"waiting", "cancelled"}
         /\ Restocks(before, after) <=>
              (before.rsv \in {"active", "consumed"} /\ after.rsv \notin {"active", "consumed"})
         /\ after.rsv \in {"active", "consumed"} => before.rsv \in {"active", "consumed"}
  <1> USE DEF OrderRow, Statuses, Reasons, ReservationStates, Consistent, Waiting, Restocks
  <1>1. CASE Waiting(before) /\ after = [before EXCEPT !.lapsed = TRUE]
    BY <1>1
  <1>2. CASE CanExpire(before) /\ after = Expired(before)
    BY <1>2 DEF CanExpire, Expired, Cancelled
  <1>3. CASE CanCancelFailed(before) /\ after = FailedPaymentRow(before)
    BY <1>3 DEF CanCancelFailed, FailedPaymentRow, Cancelled
  <1>4. CASE ~ConfirmRaises(before) /\ after = ConfirmedRow(before)
    <2>1. CASE ConfirmApplies(before)
      <3> DEFINE told == before.told \cup {"order_confirmed"}
      <3>1. after = [before EXCEPT !.status = "processing", !.rsv = "consumed", !.told = told]
        BY <1>4, <2>1 DEF ConfirmedRow, ConfirmApplies
      <3>2. /\ told \in SUBSET Events
            /\ "order_confirmed" \in told
            /\ "order_shipped" \in told <=> "order_shipped" \in before.told
        BY DEF Events
      <3> HIDE DEF told
      <3>3. QED
        BY <2>1, <3>1, <3>2 DEF ConfirmApplies
    <2>2. CASE ~ConfirmApplies(before) /\ ConfirmIsLate(before)
      <3>1. after = [FailedPaymentRow(before) EXCEPT !.late = TRUE]
        BY <1>4, <2>2 DEF ConfirmedRow
      <3>2. CASE before.status = "cancelled"
        BY <3>1, <3>2 DEF FailedPaymentRow
      <3>3. CASE Waiting(before)
        BY <2>2, <3>1, <3>3 DEF FailedPaymentRow, Cancelled, ConfirmIsLate, Releasable
      <3>4. QED
        BY <2>2, <3>2, <3>3 DEF ConfirmIsLate
    <2>3. CASE ~ConfirmApplies(before) /\ ~ConfirmIsLate(before)
      BY <1>4, <2>3 DEF ConfirmedRow, ConfirmRaises, ConfirmAlreadyDone
    <2>4. QED
      BY <2>1, <2>2, <2>3
  <1>5. CASE CanShip(before) /\ after = ShippedRow(before)
    <2> DEFINE told == before.told \cup {"order_shipped"}
    <2>1. after = [before EXCEPT !.status = "shipped", !.told = told]
      BY <1>5 DEF ShippedRow
    <2>2. /\ told \in SUBSET Events
          /\ "order_shipped" \in told
          /\ "order_confirmed" \in told <=> "order_confirmed" \in before.told
      BY DEF Events
    <2> HIDE DEF told
    <2>3. QED
      BY <1>5, <2>1, <2>2 DEF CanShip
  <1>6. CASE CanDeliver(before) /\ after = DeliveredRow(before)
    BY <1>6 DEF CanDeliver, DeliveredRow
  <1>7. QED
    BY <1>1, <1>2, <1>3, <1>4, <1>5, <1>6 DEF RowStep

\* One service call on one placed order.
ServiceStep ==
  \E o \in OrderIds : \E row :
    /\ Placed(o)
    /\ RowStep(order[o], row)
    /\ WriteOrder(o, row)

\* A step of a cart or of staff: no order changes, and stock changes by what
\* staff declare.
ShelfStep ==
  /\ order' = order
  /\ stock' \in [Products -> Nat]
  /\ shelved' \in [Products -> Int]
  /\ \A p \in Products : stock'[p] - shelved'[p] = stock[p] - shelved[p]

CreateStep == \E u \in Users, k \in Keys, a \in Addresses : CheckoutCreate(u, k, a)

\* Writing a stocktake is a shelf step.
LEMMA StocktakeIsShelfStep ==
  ASSUME TypeOK, NEW p \in Products, NEW n \in Nat, Stocktake(p, n), order' = order
  PROVE  ShelfStep
  BY DEF TypeOK, Stocktake, ShelfStep

\* Whatever staff do is a shelf step.
LEMMA StaffIsShelfStep ==
  ASSUME TypeOK, NEW p \in Products, StaffStep(p)
  PROVE  ShelfStep
  <1>1. CASE \E n \in 0..MaxStock : CreateProduct(p, n) \/ UpdateProductStock(p, n)
    BY <1>1, BoundsAssumption, StocktakeIsShelfStep DEF CreateProduct, UpdateProductStock
  <1>2. CASE DeleteProduct(p)
    BY <1>2, StocktakeIsShelfStep DEF DeleteProduct
  <1>3. CASE SaveForm(p)
    <2> DEFINE merged == stock[p] + (form[p].typed - form[p].initial)
    <2>1. merged \in Int
      BY DEF TypeOK, Form
    <2>2. CASE merged < 0
      BY <1>3, <2>2 DEF SaveForm, TypeOK, ShelfStep
    <2>3. CASE ~(merged < 0)
      <3>1. merged \in Nat /\ Stocktake(p, merged) /\ order' = order
        BY <1>3, <2>1, <2>3 DEF SaveForm
      <3>2. QED
        BY <3>1, StocktakeIsShelfStep
    <2>4. QED
      BY <2>2, <2>3
  <1>4. CASE \/ \E n \in 0..MaxStock : PostForm(p, n)
             \/ \E l \in {"active", "inactive"} : SetProductActive(p, l)
             \/ OpenForm(p)
    BY <1>4 DEF PostForm, SetProductActive, OpenForm, TypeOK, ShelfStep
  <1>5. QED
    BY <1>1, <1>2, <1>3, <1>4 DEF StaffStep

\* Every step of Orders is a service call, the creation of an order or a
\* shelf step.
LEMMA NextSplits ==
  ASSUME TypeOK, [Next]_vars
  PROVE  ServiceStep \/ CreateStep \/ ShelfStep
  <1>0. CASE UNCHANGED vars
    BY <1>0 DEF vars, TypeOK, ShelfStep
  <1>1. ASSUME NEW u \in Users, CustomerStep(u)
        PROVE  ServiceStep \/ CreateStep \/ ShelfStep
    <2>1. ASSUME NEW k \in Keys, CheckoutReconcilesStale(u, k)
          PROVE  ServiceStep
      BY <2>1 DEF CheckoutReconcilesStale, WaitingOf, OrdersOf, ServiceStep, RowStep
    <2>2. ASSUME NEW k \in Keys, NEW a \in Addresses, CheckoutReplay(u, k, a)
          PROVE  ServiceStep
      BY <2>2 DEF CheckoutReplay, WithKey, OrdersOf, ServiceStep, RowStep
    <2>3. ASSUME NEW k \in Keys, NEW a \in Addresses, CheckoutCreate(u, k, a)
          PROVE  CreateStep
      BY <2>3 DEF CreateStep
    <2>4. CASE \/ \E p \in Products, q \in 1..MaxQty :
                    AddCartItem(u, p, q) \/ UpdateCartItem(u, p, q)
               \/ \E p \in Products : RemoveCartItem(u, p)
               \/ ClearCart(u)
      BY <2>4 DEF AddCartItem, UpdateCartItem, RemoveCartItem, ClearCart, SetCartLine,
                  TypeOK, ShelfStep
    <2>5. QED
      BY <1>1, <2>1, <2>2, <2>3, <2>4 DEF CustomerStep
  <1>2. ASSUME NEW o \in OrderIds, OrderStep(o)
        PROVE  ServiceStep
    BY <1>2 DEF OrderStep, DeadlinePasses, ExpireUnpaidOrder, CancelFailedPayment,
                ConfirmVerifiedPayment, MarkOrderShipped, MarkOrderDelivered,
                ServiceStep, RowStep
  <1>3. ASSUME NEW p \in Products, StaffStep(p)
        PROVE  ShelfStep
    BY <1>3, StaffIsShelfStep
  <1>4. QED
    BY <1>0, <1>1, <1>2, <1>3 DEF Next

-----------------------------------------------------------------------------
(* The inductive invariant: reservations agree with statuses, and every    *)
(* customer and key has at most one order of its kind. Consistency is part *)
(* of it because the services' branches are only right on consistent rows. *)

IInv ==
  /\ TypeOK
  /\ StatusDecidesRow
  /\ OneWaitingPerUser
  /\ OneOrderPerKey

LEMMA InitIInv == Init => IInv
  BY DEF Init, IInv, TypeOK, StatusDecidesRow, OneWaitingPerUser, OneOrderPerKey,
         WaitingOf, WithKey, OrdersOf, Placed, EmptyCart, ClosedForm, Form, FormStates

\* A new order's row, and that its lines are on the shelf.
LEMMA NewOrderFacts ==
  ASSUME TypeOK, NEW u \in Users, NEW k \in Keys, NEW a \in Addresses
  PROVE  NewOrder(u, k, a) \in OrderRow /\ Consistent(NewOrder(u, k, a))
  BY DEF TypeOK, NewOrder, OrderRow, Statuses, Reasons, ReservationStates, Consistent

LEMMA TypeStep == TypeOK /\ StatusDecidesRow /\ [Next]_vars => TypeOK'
  <1> SUFFICES ASSUME TypeOK, StatusDecidesRow, [Next]_vars
               PROVE  TypeOK'
    OBVIOUS
  <1>0. CASE UNCHANGED vars
    BY <1>0 DEF vars, TypeOK
  <1>1. CASE ServiceStep
    <2> PICK o \in OrderIds : \E row : Placed(o) /\ RowStep(order[o], row) /\ WriteOrder(o, row)
      BY <1>1 DEF ServiceStep
    <2> PICK row : Placed(o) /\ RowStep(order[o], row) /\ WriteOrder(o, row)
      OBVIOUS
    <2>1. order[o] \in OrderRow /\ Consistent(order[o])
      BY DEF TypeOK, Placed, StatusDecidesRow
    <2>2. row \in OrderRow
      BY <2>1, RowStepFacts
    <2>3. row.lines \in [Products -> Nat]
      BY <2>2 DEF OrderRow
    <2>4. stock' \in [Products -> Nat]
      BY <2>3 DEF WriteOrder, TypeOK
    <2>5. order' \in [OrderIds -> OrderRow \cup {NoOrder}]
      BY <2>2 DEF WriteOrder, TypeOK
    <2>6. QED
      BY <2>4, <2>5 DEF WriteOrder, TypeOK
  <1>2. ASSUME NEW u \in Users, NEW k \in Keys, NEW a \in Addresses, CheckoutCreate(u, k, a)
        PROVE  TypeOK'
    <2>1. stock' \in [Products -> Nat]
      <3>1. \A p \in Products : stock[p] \in Nat /\ cart[u][p] \in Nat
        BY DEF TypeOK
      <3>2. \A p \in Products : cart[u][p] <= stock[p]
        BY <1>2, <3>1 DEF CheckoutCreate, CartLines
      <3>3. QED
        BY <1>2, <3>1, <3>2 DEF CheckoutCreate
    <2>2. order' \in [OrderIds -> OrderRow \cup {NoOrder}]
      BY <1>2, NewOrderFacts DEF CheckoutCreate, TypeOK
    <2>3. cart' \in [Users -> [Products -> Nat]]
      BY <1>2 DEF CheckoutCreate, TypeOK, EmptyCart
    <2>4. QED
      BY <1>2, <2>1, <2>2, <2>3 DEF CheckoutCreate, TypeOK
  <1>3. ASSUME NEW u \in Users,
               \/ \E p \in Products, q \in 1..MaxQty :
                    AddCartItem(u, p, q) \/ UpdateCartItem(u, p, q)
               \/ \E p \in Products : RemoveCartItem(u, p)
               \/ ClearCart(u)
        PROVE  TypeOK'
    <2>1. ASSUME NEW p \in Products, NEW q \in 1..MaxQty,
                 AddCartItem(u, p, q) \/ UpdateCartItem(u, p, q)
          PROVE  TypeOK'
      <3>1. cart[u][p] + q \in Nat /\ q \in Nat
        BY BoundsAssumption DEF TypeOK
      <3>2. \E n \in Nat : SetCartLine(u, p, n)
        BY <2>1, <3>1 DEF AddCartItem, UpdateCartItem
      <3>3. QED
        BY <3>2 DEF SetCartLine, TypeOK
    <2>2. ASSUME NEW p \in Products, RemoveCartItem(u, p) PROVE TypeOK'
      BY <2>2 DEF RemoveCartItem, SetCartLine, TypeOK
    <2>3. CASE ClearCart(u)
      BY <2>3 DEF ClearCart, EmptyCart, TypeOK
    <2>4. QED
      BY <1>3, <2>1, <2>2, <2>3
  <1>4. ASSUME NEW p \in Products, StaffStep(p)
        PROVE  TypeOK'
    <2>1. stock' \in [Products -> Nat] /\ shelved' \in [Products -> Int] /\ order' = order
      BY <1>4, StaffIsShelfStep DEF ShelfStep
    <2>2. edits' \in Nat
      <3>1. edits' = edits \/ edits' = edits + 1
        BY <1>4 DEF StaffStep, Edit, CreateProduct, UpdateProductStock, PostForm,
                    SetProductActive, DeleteProduct, OpenForm, SaveForm
      <3>2. QED
        BY <3>1 DEF TypeOK
    <2>3. listing' \in [Products -> {"absent", "active", "inactive"}]
      BY <1>4 DEF StaffStep, TypeOK, CreateProduct, UpdateProductStock, PostForm,
                  SetProductActive, DeleteProduct, OpenForm, SaveForm
    <2>4. cart' \in [Users -> [Products -> Nat]]
      <3>1. cart' = cart \/ cart' = [u \in Users |-> [cart[u] EXCEPT ![p] = 0]]
        BY <1>4 DEF StaffStep, CreateProduct, UpdateProductStock, PostForm,
                    SetProductActive, DeleteProduct, OpenForm, SaveForm
      <3>2. QED
        BY <3>1 DEF TypeOK
    <2>5. form' \in [Products -> Form]
      <3>1. form[p] \in Form /\ stock[p] \in Nat /\ ClosedForm \in Form
        BY DEF TypeOK, ClosedForm, Form, FormStates
      <3>2. CASE \E n \in 0..MaxStock : PostForm(p, n)
        <4> PICK n \in 0..MaxStock : PostForm(p, n)
          BY <3>2
        <4>1. [at |-> "posted", shown |-> form[p].shown, typed |-> n, initial |-> stock[p]] \in Form
          BY <3>1, BoundsAssumption DEF Form, FormStates
        <4>2. QED
          BY <4>1 DEF PostForm, TypeOK
      <3>3. CASE OpenForm(p)
        BY <3>1, <3>3 DEF OpenForm, TypeOK, Form, FormStates
      <3>4. CASE form' = form \/ form' = [form EXCEPT ![p] = ClosedForm]
        BY <3>1, <3>4 DEF TypeOK
      <3>5. QED
        BY <1>4, <3>2, <3>3, <3>4 DEF StaffStep, CreateProduct, UpdateProductStock,
                                      SetProductActive, DeleteProduct, SaveForm
    <2>6. QED
      BY <2>1, <2>2, <2>3, <2>4, <2>5 DEF TypeOK
  <1>5. QED
    <2>1. CASE \E u \in Users : CustomerStep(u)
      <3> PICK u \in Users : CustomerStep(u)
        BY <2>1
      <3>1. \A k \in Keys : CheckoutReconcilesStale(u, k) => ServiceStep
        BY DEF CheckoutReconcilesStale, WaitingOf, OrdersOf, ServiceStep, RowStep
      <3>2. \A k \in Keys, a \in Addresses : CheckoutReplay(u, k, a) => ServiceStep
        BY DEF CheckoutReplay, WithKey, OrdersOf, ServiceStep, RowStep
      <3>3. QED
        BY <1>1, <1>2, <1>3, <3>1, <3>2 DEF CustomerStep
    <2>2. CASE \E o \in OrderIds : OrderStep(o)
      BY <1>1, <2>2 DEF OrderStep, DeadlinePasses, ExpireUnpaidOrder, CancelFailedPayment,
                        ConfirmVerifiedPayment, MarkOrderShipped, MarkOrderDelivered,
                        ServiceStep, RowStep
    <2>3. QED
      BY <1>0, <1>4, <2>1, <2>2 DEF Next

\* A service call on order o, spelled out for the invariants.
LEMMA ServiceFacts ==
  ASSUME IInv, ServiceStep
  PROVE  \E o \in OrderIds : \E row \in OrderRow :
           /\ Placed(o) /\ order[o] \in OrderRow
           /\ RowStep(order[o], row) /\ Consistent(order[o]) /\ WriteOrder(o, row)
           /\ order' = [order EXCEPT ![o] = row] /\ order'[o] = row
           /\ \A other \in OrderIds \ {o} : order'[other] = order[other]
           /\ \A other \in OrderIds : Placed(other)' <=> Placed(other)
  <1> PICK o \in OrderIds : \E row : Placed(o) /\ RowStep(order[o], row) /\ WriteOrder(o, row)
    BY DEF ServiceStep
  <1> PICK row : Placed(o) /\ RowStep(order[o], row) /\ WriteOrder(o, row)
    OBVIOUS
  <1>1. order[o] \in OrderRow /\ Consistent(order[o])
    BY DEF IInv, TypeOK, Placed, StatusDecidesRow
  <1>2. row \in OrderRow
    BY <1>1, RowStepFacts
  <1>3. order' = [order EXCEPT ![o] = row] /\ order'[o] = row
    BY DEF WriteOrder, IInv, TypeOK
  <1>4. QED
    BY <1>1, <1>2, <1>3, NoOrderAssumption DEF Placed, IInv, TypeOK

\* The creation of an order, spelled out likewise.
LEMMA CreateFacts ==
  ASSUME IInv, NEW u \in Users, NEW k \in Keys, NEW a \in Addresses, CheckoutCreate(u, k, a)
  PROVE  \E o \in OrderIds :
           /\ ~Placed(o) /\ Placed(o)'
           /\ order'[o] = NewOrder(u, k, a) /\ NewOrder(u, k, a) \in OrderRow
           /\ Consistent(order'[o])
           /\ \A other \in OrderIds \ {o} :
                order'[other] = order[other] /\ (Placed(other)' <=> Placed(other))
  <1> PICK o \in OrderIds : ~Placed(o) /\ order' = [order EXCEPT ![o] = NewOrder(u, k, a)]
    BY DEF CheckoutCreate
  <1>1. NewOrder(u, k, a) \in OrderRow /\ Consistent(NewOrder(u, k, a))
    BY NewOrderFacts DEF IInv
  <1>2. order'[o] = NewOrder(u, k, a)
    BY DEF IInv, TypeOK
  <1>3. QED
    BY <1>1, <1>2, NoOrderAssumption DEF Placed, IInv, TypeOK

LEMMA ConsistentStep == IInv /\ [Next]_vars => StatusDecidesRow'
  <1> SUFFICES ASSUME IInv, [Next]_vars
               PROVE  StatusDecidesRow'
    OBVIOUS
  <1>1. CASE ServiceStep
    <2> PICK o \in OrderIds, row \in OrderRow :
          /\ order[o] \in OrderRow /\ RowStep(order[o], row) /\ Consistent(order[o])
          /\ order'[o] = row
          /\ \A other \in OrderIds \ {o} : order'[other] = order[other]
          /\ \A other \in OrderIds : Placed(other)' <=> Placed(other)
      BY <1>1, ServiceFacts
    <2>1. Consistent(row)
      BY RowStepFacts
    <2>2. QED
      BY <2>1 DEF IInv, StatusDecidesRow
  <1>2. CASE CreateStep
    BY <1>2, CreateFacts DEF CreateStep, IInv, StatusDecidesRow
  <1>3. CASE ShelfStep
    BY <1>3 DEF ShelfStep, IInv, StatusDecidesRow, Placed
  <1>4. QED
    BY <1>1, <1>2, <1>3, NextSplits DEF IInv

\* A service never makes an order wait that did not, and never changes whose
\* it is; a new order is created only when its customer has no waiting order
\* and none with its key.
LEMMA UniqueStep == IInv /\ [Next]_vars => OneWaitingPerUser' /\ OneOrderPerKey'
  <1> SUFFICES ASSUME IInv, [Next]_vars
               PROVE  OneWaitingPerUser' /\ OneOrderPerKey'
    OBVIOUS
  <1>1. CASE ServiceStep
    <2> PICK o \in OrderIds, row \in OrderRow :
          /\ Placed(o) /\ order[o] \in OrderRow
          /\ RowStep(order[o], row) /\ Consistent(order[o])
          /\ order'[o] = row
          /\ \A other \in OrderIds \ {o} : order'[other] = order[other]
          /\ \A other \in OrderIds : Placed(other)' <=> Placed(other)
      BY <1>1, ServiceFacts
    <2>1. row.user = order[o].user /\ row.key = order[o].key /\ (Waiting(row) => Waiting(order[o]))
      BY RowStepFacts
    <2>2. \A u \in Users : WaitingOf(u)' \subseteq WaitingOf(u)
      BY <2>1 DEF WaitingOf, OrdersOf
    <2>3. \A u \in Users, k \in Keys : WithKey(u, k)' \subseteq WithKey(u, k)
      BY <2>1 DEF WithKey, OrdersOf
    <2>4. QED
      BY <2>2, <2>3 DEF IInv, OneWaitingPerUser, OneOrderPerKey
  <1>2. CASE CreateStep
    <2> PICK u \in Users, k \in Keys, a \in Addresses : CheckoutCreate(u, k, a)
      BY <1>2 DEF CreateStep
    <2> PICK o \in OrderIds :
          /\ ~Placed(o) /\ order'[o] = NewOrder(u, k, a)
          /\ \A other \in OrderIds \ {o} :
               order'[other] = order[other] /\ (Placed(other)' <=> Placed(other))
      BY CreateFacts
    <2>1. WithKey(u, k) = {} /\ WaitingOf(u) = {}
      BY DEF CheckoutCreate
    <2>2. NewOrder(u, k, a).user = u /\ NewOrder(u, k, a).key = k
      BY DEF NewOrder
    <2>3. \A v \in Users : WaitingOf(v)' \subseteq WaitingOf(v) \cup (IF v = u THEN {o} ELSE {})
      BY <2>2 DEF WaitingOf, OrdersOf
    <2>4. \A v \in Users, l \in Keys :
            WithKey(v, l)' \subseteq WithKey(v, l) \cup (IF v = u /\ l = k THEN {o} ELSE {})
      BY <2>2 DEF WithKey, OrdersOf
    <2>5. QED
      BY <2>1, <2>3, <2>4 DEF IInv, OneWaitingPerUser, OneOrderPerKey
  <1>3. CASE ShelfStep
    BY <1>3 DEF ShelfStep, IInv, OneWaitingPerUser, OneOrderPerKey, WaitingOf, WithKey,
                OrdersOf, Placed
  <1>4. QED
    BY <1>1, <1>2, <1>3, NextSplits DEF IInv

LEMMA IInvStep == IInv /\ [Next]_vars => IInv'
  BY TypeStep, ConsistentStep, UniqueStep DEF IInv

LEMMA Invariance == Spec => []IInv
  BY InitIInv, IInvStep, PTL DEF Spec

\* Every reachable state is well typed: stock never goes below zero.
THEOREM TypeCorrect == Spec => []TypeOK
  BY Invariance, PTL DEF IInv

\* The reservations of every order agree with its status.
THEOREM ReservationsCorrect == Spec => []StatusDecidesRow
  BY Invariance, PTL DEF IInv

\* No customer ever has two waiting orders, or two orders of one key.
THEOREM CheckoutUnique == Spec => []CheckoutIsUnique
  BY Invariance, PTL DEF IInv, CheckoutIsUnique

\* No order is sold after its deadline.
THEOREM DeadlineRespected == Spec => NeverSoldAfterDeadline
  <1> DEFINE Kept == \A o \in OrderIds :
                Placed(o) /\ Waiting(order[o]) /\ order[o].lapsed =>
                  order'[o].status \in {"waiting", "cancelled"}
  <1>1. IInv /\ [Next]_vars => [Kept]_vars
    <2> SUFFICES ASSUME IInv, [Next]_vars, NEW o \in OrderIds,
                        Placed(o), Waiting(order[o]), order[o].lapsed
                 PROVE  order'[o].status \in {"waiting", "cancelled"}
      OBVIOUS
    <2>1. CASE ServiceStep
      <3> PICK w \in OrderIds, row \in OrderRow :
            /\ order[w] \in OrderRow /\ RowStep(order[w], row) /\ Consistent(order[w])
            /\ order'[w] = row
            /\ \A other \in OrderIds \ {w} : order'[other] = order[other]
        BY <2>1, ServiceFacts
      <3>1. CASE w = o
        BY <3>1, RowStepFacts
      <3>2. CASE w # o
        BY <3>2 DEF Waiting
      <3>3. QED
        BY <3>1, <3>2
    <2>2. CASE CreateStep
      BY <2>2, CreateFacts DEF CreateStep, Waiting
    <2>3. CASE ShelfStep
      BY <2>3 DEF ShelfStep, Waiting
    <2>4. QED
      BY <2>1, <2>2, <2>3, NextSplits DEF IInv
  <1>2. QED
    BY <1>1, Invariance, PTL DEF Spec, NeverSoldAfterDeadline

-----------------------------------------------------------------------------
(* Stock                                                                   *)

\* At most the row o is written, and stock moves with what it holds and with what
\* staff declare.
Balance(o) ==
  /\ \A other \in OrderIds \ {o} : order'[other] = order[other]
  /\ \A p \in Products :
       stock'[p] + Held(o, p)' - shelved'[p] = stock[p] + Held(o, p) - shelved[p]

LEMMA StepBalanced ==
  ASSUME IInv, [Next]_vars
  PROVE  \E o \in OrderIds : Balance(o)
  <1>0. \A p \in Products : stock[p] \in Nat /\ shelved[p] \in Int
    BY DEF IInv, TypeOK
  <1>1. CASE ServiceStep
    <2> PICK o \in OrderIds, row \in OrderRow :
          /\ Placed(o) /\ Placed(o)' /\ order[o] \in OrderRow
          /\ RowStep(order[o], row) /\ Consistent(order[o]) /\ WriteOrder(o, row)
          /\ order'[o] = row
          /\ \A other \in OrderIds \ {o} : order'[other] = order[other]
      BY <1>1, ServiceFacts
    <2>1. /\ row.lines = order[o].lines
          /\ \A p \in Products : order[o].lines[p] \in Nat
          /\ Restocks(order[o], row) <=>
               (order[o].rsv \in {"active", "consumed"} /\ row.rsv \notin {"active", "consumed"})
          /\ row.rsv \in {"active", "consumed"} => order[o].rsv \in {"active", "consumed"}
      BY RowStepFacts DEF OrderRow
    <2>2. shelved' = shelved
      BY DEF WriteOrder
    <2>3. \A p \in Products :
            stock'[p] = stock[p] + (IF Restocks(order[o], row) THEN row.lines[p] ELSE 0)
      BY DEF WriteOrder
    <2>4. \A p \in Products :
            /\ Held(o, p) = IF order[o].rsv \in {"active", "consumed"} THEN order[o].lines[p] ELSE 0
            /\ Held(o, p)' = IF row.rsv \in {"active", "consumed"} THEN row.lines[p] ELSE 0
      BY DEF Held
    <2>5. \A p \in Products :
            stock'[p] + Held(o, p)' - shelved'[p] = stock[p] + Held(o, p) - shelved[p]
      BY <1>0, <2>1, <2>2, <2>3, <2>4
    <2>6. QED
      BY <2>5 DEF Balance
  <1>2. CASE CreateStep
    <2> PICK u \in Users, k \in Keys, a \in Addresses : CheckoutCreate(u, k, a)
      BY <1>2 DEF CreateStep
    <2> PICK o \in OrderIds :
          /\ ~Placed(o) /\ Placed(o)' /\ order'[o] = NewOrder(u, k, a)
          /\ \A other \in OrderIds \ {o} : order'[other] = order[other]
      BY CreateFacts
    <2>1. \A p \in Products : cart[u][p] \in Nat /\ stock'[p] = stock[p] - cart[u][p]
      BY DEF CheckoutCreate, IInv, TypeOK
    <2>2. \A p \in Products : Held(o, p) = 0 /\ Held(o, p)' = cart[u][p]
      <3>1. NewOrder(u, k, a).rsv = "active" /\ NewOrder(u, k, a).lines = cart[u]
        BY DEF NewOrder
      <3>2. QED
        BY <3>1 DEF Held
    <2>3. shelved' = shelved
      BY DEF CheckoutCreate
    <2>4. QED
      BY <1>0, <2>1, <2>2, <2>3 DEF Balance
  <1>3. CASE ShelfStep
    <2>1. order' = order
      BY <1>3 DEF ShelfStep
    <2>2. \A p \in Products :
            /\ stock'[p] \in Nat /\ shelved'[p] \in Int
            /\ stock'[p] - shelved'[p] = stock[p] - shelved[p]
      BY <1>3 DEF ShelfStep
    <2>3. \A o \in OrderIds, p \in Products : Held(o, p)' = Held(o, p) /\ Held(o, p) \in Nat
      BY <2>1 DEF Held, Placed, IInv, TypeOK, OrderRow
    <2>4. PICK o \in OrderIds : TRUE
      BY OrderIdsAssumption
    <2>5. Balance(o)
      BY <1>0, <2>1, <2>2, <2>3 DEF Balance
    <2>6. QED
      BY <2>5
  <1>4. QED
    BY <1>1, <1>2, <1>3, NextSplits DEF IInv

LEMMA HeldNat ==
  ASSUME TypeOK, NEW o \in OrderIds, NEW p \in Products
  PROVE  Held(o, p) \in Nat
  <1>1. Placed(o) => order[o] \in OrderRow
    BY DEF TypeOK, Placed
  <1> QED
    BY <1>1 DEF Held, OrderRow

\* The units of one order are as many as it holds, and the others' are elsewhere.
LEMMA UnitsOfOne ==
  ASSUME NEW Rest, NEW o, NEW n \in Nat, IsFiniteSet(Rest), \A e \in Rest : e[1] # o
  PROVE  /\ IsFiniteSet(Rest \cup ({o} \X (1..n)))
         /\ Cardinality(Rest \cup ({o} \X (1..n))) = Cardinality(Rest) + n
  <1> DEFINE Own == {o} \X (1..n)
  <1>1. IsFiniteSet(1..n) /\ Cardinality(1..n) = n
    BY FS_Interval
  <1>2. IsFiniteSet({o}) /\ Cardinality({o}) = 1
    BY FS_Singleton
  <1>3. IsFiniteSet(Own) /\ Cardinality(Own) = n
    BY <1>1, <1>2, FS_Product
  <1>4. Rest \cap Own = {}
    OBVIOUS
  <1>5. Cardinality(Rest) \in Nat
    BY FS_CardinalityType
  <1> HIDE DEF Own
  <1>6. /\ IsFiniteSet(Rest \cup Own)
        /\ Cardinality(Rest \cup Own) = Cardinality(Rest) + Cardinality(Own) - Cardinality(Rest \cap Own)
    BY <1>3, FS_Union
  <1>7. Cardinality(Rest \cap Own) = 0
    BY <1>4, FS_EmptySet
  <1>8. Cardinality(Rest \cup Own) = Cardinality(Rest) + n
    BY <1>3, <1>5, <1>6, <1>7
  <1> QED
    BY <1>6, <1>8 DEF Own

LEMMA UnitsMoveWithRow ==
  ASSUME TypeOK, TypeOK', NEW p \in Products, NEW o \in OrderIds,
         \A other \in OrderIds \ {o} : order'[other] = order[other],
         IsFiniteSet(HeldUnits(p))
  PROVE  /\ IsFiniteSet(HeldUnits(p)') /\ Cardinality(HeldUnits(p)) \in Nat
         /\ Cardinality(HeldUnits(p)') \in Nat
         /\ Cardinality(HeldUnits(p)') - Held(o, p)' = Cardinality(HeldUnits(p)) - Held(o, p)
  <1> DEFINE Rest == UNION {{x} \X (1..Held(x, p)) : x \in OrderIds \ {o}}
  <1>1. HeldUnits(p) = Rest \cup ({o} \X (1..Held(o, p)))
    BY DEF HeldUnits
  <1>2. \A x \in OrderIds \ {o} : Held(x, p)' = Held(x, p)
    BY DEF Held, Placed
  <1>3. HeldUnits(p)' = Rest \cup ({o} \X (1..Held(o, p)'))
    BY <1>2 DEF HeldUnits
  <1>4. Held(o, p) \in Nat
    BY HeldNat
  <1>5. Held(o, p)' \in Nat
    <2>1. order'[o] = NoOrder \/ order'[o] \in OrderRow
      BY DEF TypeOK
    <2> QED
      BY <2>1 DEF Held, Placed, OrderRow
  <1>6. IsFiniteSet(Rest)
    BY <1>1, FS_Subset
  <1>7. \A e \in Rest : e[1] # o
    OBVIOUS
  <1>8. Cardinality(Rest) \in Nat
    BY <1>6, FS_CardinalityType
  <1> HIDE DEF Rest
  <1>9. \A n \in Nat : /\ IsFiniteSet(Rest \cup ({o} \X (1..n)))
                        /\ Cardinality(Rest \cup ({o} \X (1..n))) = Cardinality(Rest) + n
    BY <1>6, <1>7, UnitsOfOne
  <1>10. /\ IsFiniteSet(HeldUnits(p)) /\ Cardinality(HeldUnits(p)) = Cardinality(Rest) + Held(o, p)
    BY <1>1, <1>4, <1>9
  <1>11. /\ IsFiniteSet(HeldUnits(p)') /\ Cardinality(HeldUnits(p)') = Cardinality(Rest) + Held(o, p)'
    BY <1>3, <1>5, <1>9
  <1> QED
    BY <1>4, <1>5, <1>8, <1>10, <1>11

\* Only ever finitely many units are out, whatever orders there may be.
UnitsFinite == \A p \in Products : IsFiniteSet(HeldUnits(p))

LEMMA ConservedStep ==
  ASSUME IInv, IInv', UnitsFinite, StockConserved, [Next]_vars
  PROVE  UnitsFinite' /\ StockConserved'
  <1>1. PICK o \in OrderIds : Balance(o)
    BY StepBalanced
  <1>2. ASSUME NEW p \in Products
        PROVE  /\ IsFiniteSet(HeldUnits(p)')
               /\ stock'[p] + Cardinality(HeldUnits(p)') = shelved'[p]
    <2>1. /\ IsFiniteSet(HeldUnits(p)')
          /\ Cardinality(HeldUnits(p)) \in Nat /\ Cardinality(HeldUnits(p)') \in Nat
          /\ Cardinality(HeldUnits(p)') - Held(o, p)' = Cardinality(HeldUnits(p)) - Held(o, p)
      BY <1>1, UnitsMoveWithRow DEF Balance, IInv, UnitsFinite
    <2>2. stock'[p] + Held(o, p)' - shelved'[p] = stock[p] + Held(o, p) - shelved[p]
      BY <1>1 DEF Balance
    <2>3. /\ stock[p] \in Nat /\ stock'[p] \in Nat /\ shelved[p] \in Int /\ shelved'[p] \in Int
          /\ Held(o, p) \in Nat
      BY HeldNat DEF IInv, TypeOK
    <2>4. Held(o, p)' \in Nat
      <3>1. order'[o] = NoOrder \/ order'[o] \in OrderRow
        BY DEF IInv, TypeOK
      <3> QED
        BY <3>1 DEF Held, Placed, OrderRow
    <2>5. stock[p] + Cardinality(HeldUnits(p)) = shelved[p]
      BY DEF StockConserved
    <2> QED
      BY <2>1, <2>2, <2>3, <2>4, <2>5
  <1> QED
    BY <1>2 DEF UnitsFinite, StockConserved, HeldUnits

\* All the goods that staff ever put on the shelf are on it, reserved or sold, for
\* any number of orders.
THEOREM StockIsConserved == Spec => []StockConserved
  <1>1. Init => UnitsFinite /\ StockConserved
    <2> SUFFICES ASSUME Init, NEW p \in Products
                 PROVE  IsFiniteSet(HeldUnits(p)) /\ stock[p] + Cardinality(HeldUnits(p)) = shelved[p]
      BY DEF UnitsFinite, StockConserved
    <2>1. \A o \in OrderIds : Held(o, p) = 0
      BY DEF Init, Held, Placed
    <2>2. HeldUnits(p) = {}
      BY <2>1 DEF HeldUnits
    <2>3. stock[p] = 0 /\ shelved[p] = 0
      BY DEF Init
    <2> QED
      BY <2>2, <2>3, FS_EmptySet
  <1>2. IInv /\ IInv' /\ UnitsFinite /\ StockConserved /\ [Next]_vars =>
          UnitsFinite' /\ StockConserved'
    BY ConservedStep
  <1> QED
    BY <1>1, <1>2, Invariance, PTL DEF Spec

-----------------------------------------------------------------------------
(* Product rows outlive the lines that name them. *)

LEMMA NamedStep == IInv /\ NamedProductsExist /\ [Next]_vars => NamedProductsExist'
  <1> SUFFICES ASSUME IInv, NamedProductsExist, [Next]_vars, NEW p \in Products,
                      listing'[p] = "absent"
               PROVE  /\ \A o \in OrderIds : Placed(o)' => order'[o].lines[p] = 0
                      /\ \A u \in Users : cart'[u][p] = 0
    BY DEF NamedProductsExist
  <1> USE DEF IInv, TypeOK
  <1>0. CASE UNCHANGED vars
    BY <1>0 DEF vars, NamedProductsExist, Placed
  <1>1. CASE ServiceStep
    <2> PICK o \in OrderIds, row \in OrderRow :
          /\ Placed(o) /\ order[o] \in OrderRow
          /\ RowStep(order[o], row) /\ Consistent(order[o]) /\ WriteOrder(o, row)
          /\ order'[o] = row
          /\ \A other \in OrderIds \ {o} : order'[other] = order[other]
          /\ \A other \in OrderIds : Placed(other)' <=> Placed(other)
      BY <1>1, ServiceFacts
    <2>1. row.lines = order[o].lines
      BY RowStepFacts
    <2>2. listing' = listing /\ cart' = cart
      BY DEF WriteOrder
    <2>3. QED
      BY <2>1, <2>2 DEF NamedProductsExist
  <1>2. CASE CreateStep
    <2> PICK u \in Users, k \in Keys, a \in Addresses : CheckoutCreate(u, k, a)
      BY <1>2 DEF CreateStep
    <2> PICK o \in OrderIds :
          /\ ~Placed(o) /\ order'[o] = NewOrder(u, k, a)
          /\ \A other \in OrderIds \ {o} :
               order'[other] = order[other] /\ (Placed(other)' <=> Placed(other))
      BY CreateFacts
    <2>1. listing' = listing /\ cart' = [cart EXCEPT ![u] = EmptyCart]
      BY DEF CheckoutCreate
    <2>2. NewOrder(u, k, a).lines = cart[u]
      BY DEF NewOrder
    <2>3. QED
      BY <2>1, <2>2 DEF NamedProductsExist, EmptyCart
  <1>3. ASSUME NEW u \in Users,
               \/ \E r \in Products, q \in 1..MaxQty :
                    AddCartItem(u, r, q) \/ UpdateCartItem(u, r, q)
               \/ \E r \in Products : RemoveCartItem(u, r)
               \/ ClearCart(u)
        PROVE  /\ \A o \in OrderIds : Placed(o)' => order'[o].lines[p] = 0
               /\ \A v \in Users : cart'[v][p] = 0
    <2>1. listing' = listing /\ order' = order
      BY <1>3 DEF AddCartItem, UpdateCartItem, RemoveCartItem, ClearCart, SetCartLine
    <2>2. \A r \in Products, q \in 1..MaxQty : AddCartItem(u, r, q) => r # p
      BY <2>1 DEF AddCartItem
    <2>3. \A r \in Products, q \in 1..MaxQty : UpdateCartItem(u, r, q) => r # p
      BY <2>1, 0 \notin {n \in Nat : n > 0} DEF UpdateCartItem, CartLines, NamedProductsExist
    <2>4. \A v \in Users : cart'[v][p] = cart[v][p] \/ cart'[v][p] = 0
      BY <1>3, <2>2, <2>3 DEF AddCartItem, UpdateCartItem, RemoveCartItem, ClearCart,
                              SetCartLine, EmptyCart
    <2>5. QED
      BY <2>1, <2>4 DEF NamedProductsExist, Placed
  <1>4. ASSUME NEW r \in Products, StaffStep(r)
        PROVE  /\ \A o \in OrderIds : Placed(o)' => order'[o].lines[p] = 0
               /\ \A u \in Users : cart'[u][p] = 0
    <2>1. order' = order
      BY <1>4, StaffIsShelfStep DEF ShelfStep
    <2>2. CASE DeleteProduct(r)
      BY <2>1, <2>2 DEF DeleteProduct, NamedProductsExist, Placed
    <2>3. CASE ~DeleteProduct(r)
      <3>1. cart' = cart
        BY <1>4, <2>3 DEF StaffStep, CreateProduct, UpdateProductStock, PostForm,
                          SetProductActive, OpenForm, SaveForm
      <3>2. listing[p] = "absent"
        BY <1>4, <2>3 DEF StaffStep, CreateProduct, UpdateProductStock, PostForm,
                          SetProductActive, OpenForm, SaveForm
      <3>3. QED
        BY <2>1, <3>1, <3>2 DEF NamedProductsExist, Placed
    <2>4. QED
      BY <2>2, <2>3
  <1>5. QED
    <2>1. CASE \E u \in Users : CustomerStep(u)
      <3> PICK u \in Users : CustomerStep(u)
        BY <2>1
      <3>1. \A k \in Keys : CheckoutReconcilesStale(u, k) => ServiceStep
        BY DEF CheckoutReconcilesStale, WaitingOf, OrdersOf, ServiceStep, RowStep
      <3>2. \A k \in Keys, a \in Addresses :
              /\ CheckoutReplay(u, k, a) => ServiceStep
              /\ CheckoutCreate(u, k, a) => CreateStep
        BY DEF CheckoutReplay, WithKey, OrdersOf, ServiceStep, RowStep, CreateStep
      <3>3. QED
        BY <1>1, <1>2, <1>3, <3>1, <3>2 DEF CustomerStep
    <2>2. CASE \E o \in OrderIds : OrderStep(o)
      BY <1>1, <2>2 DEF OrderStep, DeadlinePasses, ExpireUnpaidOrder, CancelFailedPayment,
                        ConfirmVerifiedPayment, MarkOrderShipped, MarkOrderDelivered,
                        ServiceStep, RowStep
    <2>3. QED
      BY <1>0, <1>4, <2>1, <2>2 DEF Next

\* Releasing a reservation always finds its product.
THEOREM NamedProductsCorrect == Spec => []NamedProductsExist
  <1>1. Init => NamedProductsExist
    BY DEF Init, NamedProductsExist, Placed, EmptyCart
  <1>2. QED
    BY <1>1, NamedStep, Invariance, PTL DEF Spec

-----------------------------------------------------------------------------
(* Orders implements OrderLifecycle. *)

\* What each service does to a consistent row, in the terms of the promise.
LEMMA RowStepRefines ==
  ASSUME NEW before \in OrderRow, NEW after \in OrderRow,
         RowStep(before, after), Consistent(before)
  PROVE  \/ /\ before.status = "waiting" /\ before.rsv = "active" /\ ~before.late
            /\ \/ after.status = "waiting" /\ after.rsv = "active" /\ ~after.late
               \/ after.status = "processing" /\ after.rsv = "consumed" /\ ~after.late
               \/ after.status = "cancelled" /\ after.rsv = "released"
         \/ /\ before.status = "cancelled" /\ before.rsv = "released"
            /\ after.status = "cancelled" /\ after.rsv = "released"
            /\ before.late => after.late
         \/ /\ before.rsv = "consumed" /\ after.rsv = "consumed" /\ ~before.late /\ ~after.late
            /\ \/ before.status = "processing" /\ after.status = "processing"
               \/ before.status = "processing" /\ after.status = "shipped"
               \/ before.status = "shipped" /\ after.status = "shipped"
               \/ before.status = "shipped" /\ after.status = "delivered"
               \/ before.status = "delivered" /\ after.status = "delivered"
  <1> USE DEF OrderRow, Statuses, Reasons, ReservationStates, Consistent, Waiting
  <1>1. CASE Waiting(before) /\ after = [before EXCEPT !.lapsed = TRUE]
    BY <1>1
  <1>2. CASE CanExpire(before) /\ after = Expired(before)
    BY <1>2 DEF CanExpire, Expired, Cancelled
  <1>3. CASE CanCancelFailed(before) /\ after = FailedPaymentRow(before)
    BY <1>3 DEF CanCancelFailed, FailedPaymentRow, Cancelled
  <1>4. CASE ~ConfirmRaises(before) /\ after = ConfirmedRow(before)
    <2>1. CASE ConfirmApplies(before)
      BY <1>4, <2>1 DEF ConfirmedRow, ConfirmApplies
    <2>2. CASE ~ConfirmApplies(before) /\ ConfirmIsLate(before)
      <3>1. after = [FailedPaymentRow(before) EXCEPT !.late = TRUE]
        BY <1>4, <2>2 DEF ConfirmedRow
      <3>2. QED
        BY <2>2, <3>1 DEF FailedPaymentRow, Cancelled, ConfirmIsLate, Releasable
    <2>3. CASE ~ConfirmApplies(before) /\ ~ConfirmIsLate(before)
      BY <1>4, <2>3 DEF ConfirmedRow, ConfirmRaises, ConfirmAlreadyDone
    <2>4. QED
      BY <2>1, <2>2, <2>3
  <1>5. CASE CanShip(before) /\ after = ShippedRow(before)
    <2> DEFINE told == before.told \cup {"order_shipped"}
    <2>1. after = [before EXCEPT !.status = "shipped", !.told = told]
      BY <1>5 DEF ShippedRow
    <2>2. /\ told \in SUBSET Events
          /\ "order_shipped" \in told
          /\ "order_confirmed" \in told <=> "order_confirmed" \in before.told
      BY DEF Events
    <2> HIDE DEF told
    <2>3. QED
      BY <1>5, <2>1, <2>2 DEF CanShip
  <1>6. CASE CanDeliver(before) /\ after = DeliveredRow(before)
    BY <1>6 DEF CanDeliver, DeliveredRow
  <1>7. QED
    BY <1>1, <1>2, <1>3, <1>4, <1>5, <1>6 DEF RowStep

\* Carts, checkout, expiry, failed, late and repeated payments, and staff
\* together keep the promise OrderLifecycle makes to each order.
THEOREM OrdersImplementLifecycle == Spec => KeepsOrderPromise
  <1> DEFINE ph == [o \in OrderIds |-> Phase(o)]
             go == [o \in OrderIds |-> Goods(o)]
             no == [o \in OrderIds |-> Noticed(o)]
  <1>1. Init => Lifecycle!Init
    BY DEF Init, Lifecycle!Init, Phase, Goods, Noticed, Placed
  <1>2. IInv /\ [Next]_vars => [Lifecycle!Next]_(Lifecycle!vars)
    <2> SUFFICES ASSUME IInv, [Next]_vars
                 PROVE  Lifecycle!Next \/ UNCHANGED Lifecycle!vars
      BY DEF Lifecycle!vars
    <2>0. /\ ph \in [OrderIds -> {ph[o] : o \in OrderIds}]
          /\ ph' = [o \in OrderIds |-> Phase(o)']
          /\ go' = [o \in OrderIds |-> Goods(o)']
          /\ no' = [o \in OrderIds |-> Noticed(o)']
      OBVIOUS
    <2>1. CASE ServiceStep
      <3> PICK o \in OrderIds, row \in OrderRow :
            /\ Placed(o) /\ order[o] \in OrderRow
            /\ RowStep(order[o], row) /\ Consistent(order[o])
            /\ order'[o] = row
            /\ \A other \in OrderIds \ {o} : order'[other] = order[other]
            /\ \A other \in OrderIds : Placed(other)' <=> Placed(other)
        BY <2>1, ServiceFacts
      <3>1. \A other \in OrderIds \ {o} :
              Phase(other)' = Phase(other) /\ Goods(other)' = Goods(other)
                /\ Noticed(other)' = Noticed(other)
        BY DEF Phase, Goods, Noticed
      <3>2. /\ ph' = [ph EXCEPT ![o] = Phase(o)']
            /\ go' = [go EXCEPT ![o] = Goods(o)']
            /\ no' = [no EXCEPT ![o] = Noticed(o)']
        BY <3>1
      <3>3. /\ Phase(o)' = Phase(o) => ph' = ph
            /\ Goods(o)' = Goods(o) => go' = go
            /\ Noticed(o)' = Noticed(o) => no' = no
        BY <3>1
      <3>4. /\ Phase(o) = order[o].status /\ Phase(o)' = row.status
            /\ Noticed(o) = order[o].late /\ Noticed(o)' = row.late
            /\ order[o].late \in BOOLEAN /\ row.late \in BOOLEAN
        BY DEF Phase, Noticed, OrderRow
      <3>5. /\ order[o].rsv = "active" => Goods(o) = "reserved"
            /\ order[o].rsv = "consumed" => Goods(o) = "sold"
            /\ order[o].rsv = "released" => Goods(o) = "shelf"
            /\ row.rsv = "active" => Goods(o)' = "reserved"
            /\ row.rsv = "consumed" => Goods(o)' = "sold"
            /\ row.rsv = "released" => Goods(o)' = "shelf"
        BY DEF Goods
      <3>6. CASE /\ order[o].status = "waiting" /\ order[o].rsv = "active" /\ ~order[o].late
                 /\ row.status = "waiting" /\ row.rsv = "active" /\ ~row.late
        <4>1. Phase(o)' = Phase(o) /\ Goods(o)' = Goods(o) /\ Noticed(o)' = Noticed(o)
          BY <3>4, <3>5, <3>6
        <4>2. QED
          BY <3>3, <4>1 DEF Lifecycle!vars
      <3>7. CASE /\ order[o].status = "waiting" /\ order[o].rsv = "active" /\ ~order[o].late
                 /\ row.status = "processing" /\ row.rsv = "consumed" /\ ~row.late
        <4>1. /\ Phase(o) = "waiting" /\ Phase(o)' = "processing" /\ Goods(o)' = "sold"
              /\ Noticed(o)' = Noticed(o)
          BY <3>4, <3>5, <3>7
        <4>2. Lifecycle!Pay(o)
          BY <3>2, <3>3, <4>1 DEF Lifecycle!Pay
        <4>3. QED
          BY <4>2 DEF Lifecycle!Next
      <3>8. CASE /\ order[o].status = "waiting" /\ order[o].rsv = "active" /\ ~order[o].late
                 /\ row.status = "cancelled" /\ row.rsv = "released"
        <4>1. /\ Phase(o) = "waiting" /\ Phase(o)' = "cancelled" /\ Goods(o)' = "shelf"
              /\ Noticed(o)' \in BOOLEAN
          BY <3>4, <3>5, <3>8
        <4>2. Lifecycle!Cancel(o)
          BY <3>2, <4>1 DEF Lifecycle!Cancel
        <4>3. QED
          BY <4>2 DEF Lifecycle!Next
      <3>9. CASE /\ order[o].status = "cancelled" /\ order[o].rsv = "released"
                 /\ row.status = "cancelled" /\ row.rsv = "released"
                 /\ order[o].late => row.late
        <4>1. /\ Phase(o) = "cancelled" /\ Phase(o)' = Phase(o) /\ Goods(o)' = Goods(o)
              /\ Noticed(o)' = Noticed(o) \/ Noticed(o)' = TRUE
          BY <3>4, <3>5, <3>9
        <4>2. CASE Noticed(o)' = Noticed(o)
          BY <3>3, <4>1, <4>2 DEF Lifecycle!vars
        <4>3. CASE Noticed(o)' = TRUE
          <5>1. Lifecycle!Notice(o)
            BY <3>2, <3>3, <4>1, <4>3 DEF Lifecycle!Notice
          <5>2. QED
            BY <5>1 DEF Lifecycle!Next
        <4>4. QED
          BY <4>1, <4>2, <4>3
      <3>10. CASE /\ order[o].rsv = "consumed" /\ row.rsv = "consumed"
                  /\ ~order[o].late /\ ~row.late
                  /\ \/ row.status = order[o].status
                     \/ order[o].status = "processing" /\ row.status = "shipped"
                     \/ order[o].status = "shipped" /\ row.status = "delivered"
        <4>1. /\ Goods(o)' = Goods(o) /\ Noticed(o)' = Noticed(o)
              /\ \/ Phase(o)' = Phase(o)
                 \/ Phase(o) = "processing" /\ Phase(o)' = "shipped"
                 \/ Phase(o) = "shipped" /\ Phase(o)' = "delivered"
          BY <3>4, <3>5, <3>10
        <4>2. CASE Phase(o)' = Phase(o)
          BY <3>3, <4>1, <4>2 DEF Lifecycle!vars
        <4>3. CASE Phase(o) = "processing" /\ Phase(o)' = "shipped"
          <5>1. Lifecycle!Ship(o)
            BY <3>2, <3>3, <4>1, <4>3 DEF Lifecycle!Ship
          <5>2. QED
            BY <5>1 DEF Lifecycle!Next
        <4>4. CASE Phase(o) = "shipped" /\ Phase(o)' = "delivered"
          <5>1. Lifecycle!Deliver(o)
            BY <3>2, <3>3, <4>1, <4>4 DEF Lifecycle!Deliver
          <5>2. QED
            BY <5>1 DEF Lifecycle!Next
        <4>5. QED
          BY <4>1, <4>2, <4>3, <4>4
      <3>11. QED
        BY <3>6, <3>7, <3>8, <3>9, <3>10, RowStepRefines
    <2>2. CASE CreateStep
      <3> PICK o \in OrderIds, u \in Users, k \in Keys, a \in Addresses :
            /\ ~Placed(o) /\ Placed(o)' /\ order'[o] = NewOrder(u, k, a)
            /\ \A other \in OrderIds \ {o} :
                 order'[other] = order[other] /\ (Placed(other)' <=> Placed(other))
        BY <2>2, CreateFacts DEF CreateStep
      <3>1. \A other \in OrderIds \ {o} :
              Phase(other)' = Phase(other) /\ Goods(other)' = Goods(other)
                /\ Noticed(other)' = Noticed(other)
        BY DEF Phase, Goods, Noticed
      <3>2. /\ ph' = [ph EXCEPT ![o] = Phase(o)']
            /\ go' = [go EXCEPT ![o] = Goods(o)']
            /\ no' = [no EXCEPT ![o] = Noticed(o)']
        BY <3>1
      <3>3. /\ NewOrder(u, k, a).status = "waiting" /\ NewOrder(u, k, a).rsv = "active"
            /\ NewOrder(u, k, a).late = FALSE
        BY DEF NewOrder
      <3>4. /\ Phase(o) = "absent" /\ Phase(o)' = "waiting" /\ Goods(o)' = "reserved"
            /\ Noticed(o) = FALSE /\ Noticed(o)' = FALSE
        BY <3>3 DEF Phase, Goods, Noticed
      <3>5. Lifecycle!Place(o)
        BY <3>2, <3>4 DEF Lifecycle!Place
      <3>6. QED
        BY <3>5 DEF Lifecycle!Next
    <2>3. CASE ShelfStep
      BY <2>3 DEF ShelfStep, Phase, Goods, Noticed, Placed, Lifecycle!vars
    <2>4. QED
      BY <2>1, <2>2, <2>3, NextSplits DEF IInv
  <1>3. QED
    BY <1>1, <1>2, Invariance, PTL DEF Spec, KeepsOrderPromise, Lifecycle!Spec
=============================================================================
