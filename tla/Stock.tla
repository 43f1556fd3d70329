------------------------------- MODULE Stock --------------------------------
(***************************************************************************)
(* The stock of one SKU in apps/core: the ledger of each warehouse, the     *)
(* confirmed reservations of the boxes (shipments) that leave from it, and  *)
(* the transfer orders between warehouses.                                  *)
(*                                                                          *)
(* Every command is one database transaction.  It locks the rows it is      *)
(* about, then the advisory locks of its (SKU, warehouse) pairs in their    *)
(* order, reads what is free, and writes; its writes appear together, when  *)
(* it commits.  What is free is the stock ON_HAND less the confirmed        *)
(* reservations; a reservation and a removal both have to fit into it.      *)
(* Three things do not: a count or a damage report states what is on the    *)
(* shelf, and a reservation can be released by hand, by its id alone.       *)
(***************************************************************************)
EXTENDS Integers, FiniteSets, FiniteSetsExt, Bags

CONSTANTS
  Warehouses,    \* in the order of their lock keys
  Boxes,         \* shipments, of one line each
  Home, Qty,     \* the warehouse and the quantity of a box
  Orders,        \* transfer orders, of one line each
  From, To, Planned,
  Opening,       \* what each warehouse has to begin with
  Transactions,
  Outside,       \* where stock comes from and goes to
  \* Bounds of the model, not of the code:
  MaxIncidents, MaxQty

ASSUME StockAssumption ==
  /\ Warehouses \subseteq Nat /\ IsFiniteSet(Boxes) /\ IsFiniteSet(Orders)
  /\ Home \in [Boxes -> Warehouses] /\ Qty \in [Boxes -> Nat \ {0}]
  /\ From \in [Orders -> Warehouses] /\ To \in [Orders -> Warehouses]
  /\ \A o \in Orders : From[o] # To[o]
  /\ Planned \in [Orders -> Nat \ {0}] /\ Opening \in [Warehouses -> Nat]
  /\ MaxIncidents \in Nat /\ MaxQty \in Nat

OnHand(w) == <<"ON_HAND", w>>
InTransfer(w) == <<"IN_TRANSFER", w>>
Cells == {"ON_HAND", "IN_TRANSFER"} \X Warehouses

ASSUME OutsideAssumption == Outside \notin Cells

VARIABLES
  ledger,     \* stock_ledgers: quantity by state and warehouse
  posted,     \* the stock events that may be reversed by hand, and are not
  box,        \* status of a shipment
  confirmed,  \* sum of the confirmed reservations of its line
  order,      \* transfer_orders.status
  received, lost,  \* of its line
  tx,         \* the transactions at work
  \* history
  stripped,   \* what was released by hand of a box since it was planned
  pulled,     \* what reversals by hand took out of transit, by warehouse
  incidents

goods == <<ledger, posted, pulled>>
boxes == <<box, confirmed, stripped>>
orders == <<order, received, lost>>
vars == <<goods, boxes, orders, tx, incidents>>

Idle == [pc |-> "idle", rows |-> {}, held |-> {}]

Init ==
  /\ ledger = [c \in Cells |-> IF c[1] = "ON_HAND" THEN Opening[c[2]] ELSE 0]
  /\ posted = EmptyBag
  /\ box = [b \in Boxes |-> "draft"]
  /\ confirmed = [b \in Boxes |-> 0]   /\ stripped = [b \in Boxes |-> 0]
  /\ order = [o \in Orders |-> "draft"]
  /\ received = [o \in Orders |-> 0]   /\ lost = [o \in Orders |-> 0]
  /\ tx = [t \in Transactions |-> Idle]
  /\ pulled = [w \in Warehouses |-> 0] /\ incidents = 0

-----------------------------------------------------------------------------
\* What is free.

HomeBoxes(w) == {b \in Boxes : Home[b] = w}
Reserved(w) == SumFunctionOnSet(confirmed, HomeBoxes(w))

\* One statement reads both sums.
Available(w) == ledger[OnHand(w)] - Reserved(w)

Outstanding(o) == IF order[o] = "draft" THEN 0 ELSE Planned[o] - received[o] - lost[o]

Incident == incidents < MaxIncidents /\ incidents' = incidents + 1

-----------------------------------------------------------------------------
\* Transactions and their locks.

RowsFree_NotLocked(R) == TRUE

RowsFree(R) == \A t \in Transactions : tx[t].rows \cap R = {}

\* It takes the rows it is about, and what it reads in them will stay.
Start(t, kind, of, rows, stock, at, qty, saw) ==
  /\ tx[t] = Idle /\ RowsFree(rows)
  /\ tx' = [tx EXCEPT ![t] = [pc |-> "locking", kind |-> kind, of |-> of,
       rows |-> rows, stock |-> stock, held |-> {}, at |-> at, qty |-> qty, saw |-> saw]]
  /\ UNCHANGED <<goods, boxes, orders, incidents>>

\* The pairs are sorted, so there is one lock that it may wait for.
NextLocks(t) ==
  IF tx[t].pc = "locking" /\ tx[t].stock # tx[t].held
    THEN {Min(tx[t].stock \ tx[t].held)} ELSE {}

LockFree_Claimed(w) == TRUE

LockFree(w) == \A t \in Transactions : w \notin tx[t].held

AcquireStockLock(t) ==
  \E w \in NextLocks(t) :
    /\ LockFree(w)
    /\ tx' = [tx EXCEPT ![t].held = @ \cup {w}]
    /\ UNCHANGED <<goods, boxes, orders, incidents>>

\* These have to fit into what is free.
Guarded == {"reserve", "adjustDown", "ship", "reverse"}

ReadAvailability(t) ==
  /\ tx[t].pc = "locking" /\ tx[t].held = tx[t].stock /\ tx[t].kind \in Guarded
  /\ tx' = [tx EXCEPT ![t].pc = "read", ![t].saw = Available(tx[t].at)]
  /\ UNCHANGED <<goods, boxes, orders, incidents>>

Ready(t, kind) ==
  /\ tx[t].pc = (IF kind \in Guarded THEN "read" ELSE "locking")
  /\ tx[t].kind = kind /\ tx[t].held = tx[t].stock

\* The transaction commits.
Done(t) == tx' = [tx EXCEPT ![t] = Idle]

\* It is rolled back: something else forbids it, or it fails.
Refuse(t) ==
  /\ tx[t] # Idle /\ Done(t)
  /\ UNCHANGED <<goods, boxes, orders, incidents>>

-----------------------------------------------------------------------------
\* The ledger.

Event(from, to, q) == [from |-> from, to |-> to, qty |-> q]

\* What a set of events takes out of a cell, and brings into it.
Quantity(es) == [e \in es |-> e.qty]
Out(es, c) == SumFunctionOnSet(Quantity(es), {e \in es : e.from = c})
In(es, c) == SumFunctionOnSet(Quantity(es), {e \in es : e.to = c})

\* A cell never goes below zero: the decrement is conditional.
Project(es) ==
  /\ \A c \in Cells : ledger[c] >= Out(es, c)
  /\ ledger' = [c \in Cells |-> ledger[c] - Out(es, c) + In(es, c)]

Post(es) == Project(es) /\ posted' = posted (+) SetToBag(es)

\* The warehouse that loses stock ON_HAND when the event is reversed.
LosesOnHand(e) == e.to # Outside /\ e.to[1] = "ON_HAND"

Places(e) == {c[2] : c \in {e.from, e.to} \ {Outside}}

-----------------------------------------------------------------------------
\* Stock comes and goes.  receive and adjustUp post the same event; a count and
\* a damage report are the adjustDown that skips the guard.

StartAdjust(t) ==
  \E w \in Warehouses, q \in 1 .. MaxQty, kind \in {"adjustUp", "adjustDown", "count"} :
    /\ incidents < MaxIncidents
    /\ Start(t, kind, w, {}, {w}, w, q, 0)

AdjustUp(t) ==
  /\ Ready(t, "adjustUp") /\ Incident
  /\ Post({Event(Outside, OnHand(tx[t].of), tx[t].qty)})
  /\ Done(t) /\ UNCHANGED <<boxes, orders, pulled>>

AdjustDown(t) ==
  /\ Ready(t, "adjustDown") \/ Ready(t, "count")
  /\ tx[t].kind = "adjustDown" => tx[t].saw - tx[t].qty >= 0
  /\ Incident
  /\ Post({Event(OnHand(tx[t].of), Outside, tx[t].qty)})
  /\ Done(t) /\ UNCHANGED <<boxes, orders, pulled>>

\* An event is reversed by hand once; its row is locked meanwhile.  The events of a
\* dispatch are not: only a recall reverses them.
StartReverse(t) ==
  \E e \in BagToSet(posted) :
    /\ incidents < MaxIncidents
    /\ Start(t, "reverse", e, {e}, Places(e),
             IF LosesOnHand(e) THEN e.to[2] ELSE Min(Places(e)), e.qty, 0)

Reverse(t) ==
  LET e == tx[t].of  IN
  /\ Ready(t, "reverse") /\ Incident
  /\ LosesOnHand(e) => tx[t].saw - e.qty >= 0
  /\ Project({Event(e.to, e.from, e.qty)})
  /\ posted' = (posted (-) SetToBag({e})) (+) SetToBag({Event(e.to, e.from, e.qty)})
  /\ pulled' = [w \in Warehouses |-> pulled[w]
                  + (IF e.to = InTransfer(w) THEN e.qty ELSE 0)
                  - (IF e.from = InTransfer(w) THEN e.qty ELSE 0)]
  /\ Done(t) /\ UNCHANGED <<boxes, orders>>

-----------------------------------------------------------------------------
\* Transfer orders.

StartShip(t, o) ==
  /\ order[o] = "draft"
  /\ Start(t, "ship", o, {o}, {From[o]}, From[o], Planned[o], 0)

ShipOrder(t) ==
  LET o == tx[t].of  IN
  /\ Ready(t, "ship") /\ tx[t].saw - tx[t].qty >= 0
  /\ Post({Event(OnHand(From[o]), InTransfer(From[o]), tx[t].qty)})
  /\ order' = [order EXCEPT ![o] = "shipped"]
  /\ Done(t) /\ UNCHANGED <<boxes, received, lost, pulled, incidents>>

\* Some of what is outstanding arrives, some is lost.  The line is read under the
\* row lock of its order.
StartReceive(t, o) ==
  \E r, l \in 0 .. Outstanding(o) :
    /\ order[o] \in {"shipped", "partially_received"}
    /\ r + l \in 1 .. Outstanding(o)
    /\ Start(t, "receive", o, {o}, {From[o], To[o]}, From[o], <<r, l>>,
             <<received[o], lost[o]>>)

\* What arrived goes on hand at the destination, what did not is written off; both
\* leave what is in transit at the origin.  refreshOrderStatus follows.
ReceiveOrder(t) ==
  LET o == tx[t].of
      r == tx[t].qty[1]            l == tx[t].qty[2]
      got == tx[t].saw[1] + r      gone == tx[t].saw[2] + l  IN
  /\ Ready(t, "receive")
  /\ Post({e \in {Event(InTransfer(From[o]), OnHand(To[o]), r),
                  Event(InTransfer(From[o]), Outside, l)} : e.qty > 0})
  /\ received' = [received EXCEPT ![o] = got]
  /\ lost' = [lost EXCEPT ![o] = gone]
  /\ order' = [order EXCEPT ![o] =
       IF got + gone = Planned[o] THEN "closed" ELSE "partially_received"]
  /\ Done(t) /\ UNCHANGED <<boxes, pulled, incidents>>

-----------------------------------------------------------------------------
\* Boxes and their reservations.

Draft_OrPlanned(b) == box[b] \in {"draft", "planned"}

Draft(b) == box[b] = "draft"

StartReserve(t, b) ==
  /\ Draft(b) /\ confirmed[b] < Qty[b]
  /\ Start(t, "reserve", b, {b}, {Home[b]}, Home[b], 0, 0)

ReservePartial_AllThereIs(t) ==
  LET b == tx[t].of  IN
  /\ Ready(t, "reserve")
  /\ confirmed' = [confirmed EXCEPT ![b] = @ + Max({0, tx[t].saw})]
  /\ Done(t) /\ UNCHANGED <<goods, box, stripped, orders, incidents>>

\* As much as is missing, as far as it is there.
ReservePartial(t) ==
  LET b == tx[t].of
      more == Max({0, Min({Qty[b] - confirmed[b], tx[t].saw})})  IN
  /\ Ready(t, "reserve")
  /\ confirmed' = [confirmed EXCEPT ![b] = @ + more]
  /\ Done(t) /\ UNCHANGED <<goods, box, stripped, orders, incidents>>

StartRelease(t, b) ==
  \E q \in 1 .. confirmed[b] :
    /\ Draft(b)
    /\ Start(t, "release", b, {b}, {Home[b]}, Home[b], q, 0)

ReleasePartial(t) ==
  /\ Ready(t, "release")
  /\ confirmed' = [confirmed EXCEPT ![tx[t].of] = @ - tx[t].qty]
  /\ Done(t) /\ UNCHANGED <<goods, box, stripped, orders, incidents>>

StartTransfer(t, b, c) ==
  \E q \in 1 .. confirmed[b] :
    /\ b # c /\ Home[b] = Home[c] /\ Draft(b) /\ Draft(c)
    /\ q <= Qty[c] - confirmed[c]
    /\ Start(t, "transfer", <<b, c>>, {b, c}, {Home[b]}, Home[b], q, 0)

Transfer(t) ==
  LET pair == tx[t].of  IN
  /\ Ready(t, "transfer")
  /\ confirmed' = [confirmed EXCEPT ![pair[1]] = @ - tx[t].qty, ![pair[2]] = @ + tx[t].qty]
  /\ Done(t) /\ UNCHANGED <<goods, box, stripped, orders, incidents>>

\* Locks the rows of the box and needs no stock lock; its check reads those rows.
Plan(b) ==
  /\ RowsFree({b}) /\ Draft(b) /\ confirmed[b] = Qty[b]
  /\ box' = [box EXCEPT ![b] = "planned"]
  /\ stripped' = [stripped EXCEPT ![b] = 0]
  /\ UNCHANGED <<goods, confirmed, orders, tx, incidents>>

\* The picker came back short: the box is a draft again and loses what is missing.
StartShortPick(t, b) ==
  \E q \in 1 .. confirmed[b] :
    /\ box[b] = "planned"
    /\ Start(t, "shortPick", b, {b}, {Home[b]}, Home[b], q, 0)

ShortPick(t) ==
  LET b == tx[t].of  IN
  /\ Ready(t, "shortPick")
  /\ box' = [box EXCEPT ![b] = "draft"]
  /\ confirmed' = [confirmed EXCEPT ![b] = @ - tx[t].qty]
  /\ stripped' = [stripped EXCEPT ![b] = 0]
  /\ Done(t) /\ UNCHANGED <<goods, orders, incidents>>

StartDispatch(t, b) ==
  /\ box[b] = "planned"
  /\ Start(t, "dispatch", b, {b}, {Home[b]}, Home[b], Qty[b], 0)

\* The goods leave the ledger and consume exactly their reservations.
Dispatch(t) ==
  LET b == tx[t].of  IN
  /\ Ready(t, "dispatch") /\ confirmed[b] = tx[t].qty
  /\ Project({Event(OnHand(Home[b]), Outside, tx[t].qty)})
  /\ box' = [box EXCEPT ![b] = "shipped"]
  /\ confirmed' = [confirmed EXCEPT ![b] = 0]
  /\ Done(t) /\ UNCHANGED <<posted, stripped, pulled, orders, incidents>>

\* The carrier has it: no recall any more.
InTransit(b) ==
  /\ RowsFree({b}) /\ box[b] = "shipped"
  /\ box' = [box EXCEPT ![b] = "in_transit"]
  /\ UNCHANGED <<goods, confirmed, stripped, orders, tx, incidents>>

StartRecall(t, b) ==
  /\ box[b] = "shipped" /\ incidents < MaxIncidents
  /\ Start(t, "recall", b, {b}, {Home[b]}, Home[b], Qty[b], 0)

\* The goods come back with the reservations that the dispatch consumed.
Recall(t) ==
  LET b == tx[t].of  IN
  /\ Ready(t, "recall") /\ Incident
  /\ Post({Event(Outside, OnHand(Home[b]), tx[t].qty)})
  /\ box' = [box EXCEPT ![b] = "draft"]
  /\ confirmed' = [confirmed EXCEPT ![b] = tx[t].qty]
  /\ Done(t) /\ UNCHANGED <<stripped, pulled, orders>>

\* A planned box goes through draft to canceled.  Its invariant is asserted when its
\* rows are locked, so a stripped one cannot be canceled.
StartCancel(t, b) ==
  /\ Draft(b) \/ (box[b] = "planned" /\ confirmed[b] = Qty[b])
  /\ Start(t, "cancel", b, {b}, {Home[b]}, Home[b], confirmed[b], 0)

Cancel(t) ==
  LET b == tx[t].of  IN
  /\ Ready(t, "cancel")
  /\ box' = [box EXCEPT ![b] = "canceled"]
  /\ confirmed' = [confirmed EXCEPT ![b] = @ - tx[t].qty]
  /\ Done(t) /\ UNCHANGED <<goods, stripped, orders, incidents>>

\* releaseReservation: one row of a box, by its id, in whatever status the box is.  It
\* takes no advisory lock and waits for the row alone.
ReleaseReservation(b) ==
  \E q \in 1 .. confirmed[b] :
    /\ RowsFree({b}) /\ Incident
    /\ confirmed' = [confirmed EXCEPT ![b] = @ - q]
    /\ stripped' = [stripped EXCEPT ![b] = IF box[b] = "planned" THEN @ + q ELSE @]
    /\ UNCHANGED <<goods, box, orders, tx>>

-----------------------------------------------------------------------------
StartSomething(t) ==
  \/ StartAdjust(t) \/ StartReverse(t)
  \/ \E o \in Orders : StartShip(t, o) \/ StartReceive(t, o)
  \/ \E b \in Boxes :
       \/ StartReserve(t, b) \/ StartRelease(t, b) \/ StartShortPick(t, b)
       \/ StartDispatch(t, b) \/ StartRecall(t, b) \/ StartCancel(t, b)
       \/ \E c \in Boxes : StartTransfer(t, b, c)

Commit(t) ==
  \/ AdjustUp(t) \/ AdjustDown(t) \/ Reverse(t) \/ ShipOrder(t) \/ ReceiveOrder(t)
  \/ ReservePartial(t) \/ ReleasePartial(t) \/ Transfer(t)
  \/ ShortPick(t) \/ Dispatch(t) \/ Recall(t) \/ Cancel(t)

Next ==
  \/ \E t \in Transactions :
       \/ StartSomething(t) \/ AcquireStockLock(t) \/ ReadAvailability(t)
       \/ Commit(t) \/ Refuse(t)
  \/ \E b \in Boxes : Plan(b) \/ InTransit(b) \/ ReleaseReservation(b)

Spec == Init /\ [][Next]_vars

-----------------------------------------------------------------------------
\* Properties.

\* The types.  No cell is negative, and no box has more than its lines ask for: the
\* first two checks of evaluateFulfillmentInvariant.
TypeOK ==
  /\ ledger \in [Cells -> Nat] /\ IsABag(posted)
  /\ box \in [Boxes -> {"draft", "planned", "shipped", "in_transit", "canceled"}]
  /\ \A b \in Boxes : confirmed[b] \in 0 .. Qty[b] /\ stripped[b] \in 0 .. Qty[b]
  /\ order \in [Orders -> {"draft", "shipped", "partially_received", "closed"}]
  /\ \A o \in Orders : Outstanding(o) \in 0 .. Planned[o]
  /\ \A t \in Transactions : tx[t].held \subseteq Warehouses
  /\ incidents \in 0 .. MaxIncidents

\* Reservations that the stock of a warehouse does not cover.
Short(w) == Max({0, -Available(w)})

\* Commits of two transactions, or a commit and a release by hand, never promise the
\* same goods twice: reservations outgrow the stock by a count or a damage report,
\* and by nothing else (reserveStock, assertReservationInvariant).
NeverOversold ==
  [][\A w \in Warehouses : Short(w)' > Short(w) =>
       \E t \in Transactions :
         tx[t] # Idle /\ tx[t].kind = "count" /\ tx[t].of = w /\ tx'[t] = Idle]_vars

\* A planned box has reservations for all it carries but for what was released by hand
\* (the comment in ShortPickExit.finish, CONFIRMED_RESERVATION of the invariant).
PlannedIsReserved ==
  \A b \in Boxes : box[b] = "planned" => confirmed[b] + stripped[b] = Qty[b]

\* What the transfer orders still expect from a warehouse.
Owed(w) == SumFunctionOnSet([o \in Orders |-> Outstanding(o)], {o \in Orders : From[o] = w})

\* What is in transit at a warehouse is what its transfer orders still expect, but for
\* what reversals by hand took out of it: no receipt is booked twice or against
\* another order's goods.
InTransitIsOwed ==
  \A w \in Warehouses : ledger[InTransfer(w)] + pulled[w] = Owed(w)
=============================================================================
