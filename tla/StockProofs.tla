---------------------------- MODULE StockProofs -----------------------------
(***************************************************************************)
(* What Stock promises, for any number of warehouses, boxes, orders and     *)
(* transactions, and any quantities: first of a planned box, from the rows  *)
(* that commands hold; then of what is free and of what is in transit, from *)
(* the advisory locks and the lemmas about sums.                            *)
(***************************************************************************)
EXTENDS Stock, FiniteSetTheorems, WellFoundedInduction, NaturalsInduction, TLAPS

\* Commands about one box, and those that need it to be a draft throughout.
BoxKinds == {"reserve", "release", "shortPick", "dispatch", "recall", "cancel"}
DraftKinds == {"reserve", "release", "transfer"}

\* What a command holds, and what that means for the boxes.
Holds(x) ==
  /\ x.kind \in BoxKinds => x.rows = {x.of}
  /\ x.kind = "transfer" => x.rows = {x.of[1], x.of[2]}
  /\ x.kind \in DraftKinds => \A b \in x.rows : b \in Boxes /\ box[b] = "draft"

Fields == {"pc", "kind", "of", "rows", "stock", "held", "at", "qty", "saw"}

Shapes ==
  /\ DOMAIN tx = Transactions /\ DOMAIN box = Boxes
  /\ DOMAIN confirmed = Boxes /\ DOMAIN stripped = Boxes
  /\ \A t \in Transactions :
       tx[t] = Idle \/ DOMAIN tx[t] = Fields

RowsHeld == \A t \in Transactions : tx[t] # Idle => Holds(tx[t])

\* A row is held by one transaction.
Exclusive == \A t, u \in Transactions : t # u => tx[t].rows \cap tx[u].rows = {}

PlannedOK ==
  \A b \in Boxes : box[b] = "planned" =>
    /\ confirmed[b] \in Nat /\ stripped[b] \in Nat
    /\ confirmed[b] + stripped[b] = Qty[b]

\* The inductive invariant.
IInv == Shapes /\ RowsHeld /\ Exclusive /\ PlannedOK

\* Nothing is held and no box is planned at the start.
LEMMA InitIInv == Init => IInv
<1> SUFFICES ASSUME Init PROVE IInv
  OBVIOUS
<1>1. Shapes
  BY DEF Init, Shapes
<1>2. \A t \in Transactions : tx[t] = Idle /\ tx[t].rows = {}
  BY DEF Init, Idle
<1>3. PlannedOK
  BY DEF Init, PlannedOK
<1> QED
  BY <1>1, <1>2, <1>3 DEF IInv, RowsHeld, Exclusive

-----------------------------------------------------------------------------
(* Steps that leave the boxes alone *)

\* A command that starts takes rows that are free.
LEMMA StartKeeps ==
  ASSUME IInv, NEW t \in Transactions, NEW kind, NEW of, NEW rows, NEW stock, NEW at,
         NEW qty, NEW saw, Start(t, kind, of, rows, stock, at, qty, saw),
         kind \in BoxKinds => rows = {of},
         kind = "transfer" => rows = {of[1], of[2]},
         kind \in DraftKinds => \A b \in rows : b \in Boxes /\ box[b] = "draft"
  PROVE  IInv'
<1> DEFINE x == [pc |-> "locking", kind |-> kind, of |-> of, rows |-> rows,
                 stock |-> stock, held |-> {}, at |-> at, qty |-> qty, saw |-> saw]
<1>1. /\ tx' = [tx EXCEPT ![t] = x] /\ RowsFree(rows)
      /\ UNCHANGED <<box, confirmed, stripped>>
  BY DEF Start, boxes
<1>2. /\ DOMAIN tx' = Transactions /\ tx'[t] = x
      /\ \A u \in Transactions \ {t} : tx'[u] = tx[u]
  BY <1>1 DEF IInv, Shapes
<1>3. Shapes'
  <2>1. DOMAIN x = Fields
    BY DEF Fields
  <2> HIDE DEF x
  <2> QED
    BY <1>1, <1>2, <2>1 DEF IInv, Shapes
<1>4. Holds(x)'
  BY <1>1 DEF Holds
<1>5. x.rows = rows
  OBVIOUS
<1> HIDE DEF x
<1>6. RowsHeld'
  <2> SUFFICES ASSUME NEW u \in Transactions, tx'[u] # Idle PROVE Holds(tx[u])'
    BY DEF RowsHeld
  <2>1. CASE u = t
    BY <2>1, <1>2, <1>4 DEF Holds
  <2>2. CASE u # t
    BY <2>2, <1>1, <1>2 DEF IInv, RowsHeld, Holds
  <2> QED
    BY <2>1, <2>2
<1>7. Exclusive'
  BY <1>1, <1>2, <1>5 DEF IInv, Exclusive, RowsFree
<1>8. PlannedOK'
  BY <1>1 DEF IInv, PlannedOK
<1> QED
  BY <1>3, <1>6, <1>7, <1>8 DEF IInv

\* What a command holds does not change while it works.
LEMMA WorkKeeps ==
  ASSUME IInv, NEW t \in Transactions, tx[t] # Idle,
         DOMAIN tx' = Transactions, \A u \in Transactions \ {t} : tx'[u] = tx[u],
         tx'[t] # Idle, DOMAIN tx'[t] = DOMAIN tx[t],
         tx'[t].kind = tx[t].kind, tx'[t].of = tx[t].of, tx'[t].rows = tx[t].rows,
         UNCHANGED <<box, confirmed, stripped>>
  PROVE  IInv'
<1>1. Shapes'
  BY DEF IInv, Shapes
<1>2. RowsHeld'
  <2> SUFFICES ASSUME NEW u \in Transactions, tx'[u] # Idle PROVE Holds(tx[u])'
    BY DEF RowsHeld
  <2>1. tx[u] # Idle /\ Holds(tx[u])
    BY DEF IInv, RowsHeld
  <2>2. tx'[u].kind = tx[u].kind /\ tx'[u].of = tx[u].of /\ tx'[u].rows = tx[u].rows
    OBVIOUS
  <2> QED
    BY <2>1, <2>2 DEF Holds
<1>3. Exclusive'
  BY DEF IInv, Exclusive
<1>4. PlannedOK'
  BY DEF IInv, PlannedOK
<1> QED
  BY <1>1, <1>2, <1>3, <1>4 DEF IInv

\* Taking the next advisory lock changes nothing the boxes depend on.
LEMMA AcquireKeeps ==
  ASSUME IInv, NEW t \in Transactions, AcquireStockLock(t)
  PROVE  IInv'
<1>1. PICK w \in NextLocks(t) :
        /\ tx' = [tx EXCEPT ![t].held = @ \cup {w}] /\ UNCHANGED <<box, confirmed, stripped>>
  BY DEF AcquireStockLock, boxes
<1>2. tx[t] # Idle
  BY <1>1 DEF NextLocks, Idle
<1>3. /\ DOMAIN tx' = Transactions /\ tx'[t] = [tx[t] EXCEPT !.held = @ \cup {w}]
      /\ \A u \in Transactions \ {t} : tx'[u] = tx[u]
  BY <1>1 DEF IInv, Shapes
<1>4. DOMAIN tx[t] = Fields
  BY <1>2 DEF IInv, Shapes
<1>5. /\ DOMAIN tx'[t] = DOMAIN tx[t] /\ tx'[t].kind = tx[t].kind
      /\ tx'[t].of = tx[t].of /\ tx'[t].rows = tx[t].rows /\ tx'[t].pc = tx[t].pc
  BY <1>3, <1>4 DEF Fields
<1>6. tx'[t] # Idle
  BY <1>1, <1>5 DEF NextLocks, Idle
<1> QED
  BY <1>1, <1>2, <1>3, <1>5, <1>6, WorkKeeps

\* Nor does reading the availability.
LEMMA ReadKeeps ==
  ASSUME IInv, NEW t \in Transactions, ReadAvailability(t)
  PROVE  IInv'
<1> DEFINE v == Available(tx[t].at)
<1>1. /\ tx' = [tx EXCEPT ![t].pc = "read", ![t].saw = v]
      /\ tx[t].pc = "locking" /\ UNCHANGED <<box, confirmed, stripped>>
  BY DEF ReadAvailability, boxes
<1> HIDE DEF v
<1>2. tx[t] # Idle
  BY <1>1 DEF Idle
<1>3. /\ DOMAIN tx' = Transactions
      /\ tx'[t] = [[tx[t] EXCEPT !.pc = "read"] EXCEPT !.saw = v]
      /\ \A u \in Transactions \ {t} : tx'[u] = tx[u]
  BY <1>1 DEF IInv, Shapes
<1>4. DOMAIN tx[t] = Fields
  BY <1>2 DEF IInv, Shapes
<1>5. /\ DOMAIN tx'[t] = DOMAIN tx[t] /\ tx'[t].kind = tx[t].kind
      /\ tx'[t].of = tx[t].of /\ tx'[t].rows = tx[t].rows /\ tx'[t].pc = "read"
  BY <1>3, <1>4 DEF Fields
<1>6. tx'[t] # Idle
  BY <1>5 DEF Idle
<1> QED
  BY <1>1, <1>2, <1>3, <1>5, <1>6, WorkKeeps

-----------------------------------------------------------------------------
(* Steps of the boxes *)

\* The end of a command, whose box changes as it may: no other command holds it.
LEMMA EndKeeps ==
  ASSUME IInv, NEW t \in Transactions, Done(t),
         DOMAIN box' = Boxes, DOMAIN confirmed' = Boxes, DOMAIN stripped' = Boxes,
         \A b \in Boxes \ tx[t].rows : box'[b] = box[b],
         PlannedOK'
  PROVE  IInv'
<1>1. /\ DOMAIN tx' = Transactions /\ tx'[t] = Idle
      /\ \A u \in Transactions \ {t} : tx'[u] = tx[u]
  BY DEF IInv, Shapes, Done
<1>2. Shapes'
  BY <1>1 DEF IInv, Shapes
<1>3. RowsHeld'
  <2> SUFFICES ASSUME NEW u \in Transactions, tx'[u] # Idle PROVE Holds(tx[u])'
    BY DEF RowsHeld
  <2>1. u # t /\ tx'[u] = tx[u] /\ Holds(tx[u]) /\ tx[u].rows \cap tx[t].rows = {}
    BY <1>1 DEF IInv, RowsHeld, Exclusive
  <2> QED
    BY <2>1 DEF Holds
<1>4. Exclusive'
  <2>1. tx'[t].rows = {}
    BY <1>1 DEF Idle
  <2> QED
    BY <1>1, <2>1 DEF IInv, Exclusive
<1> QED
  BY <1>2, <1>3, <1>4 DEF IInv

\* The end of a command that leaves the boxes alone.
LEMMA OtherEndKeeps ==
  ASSUME IInv, NEW t \in Transactions, Done(t), UNCHANGED boxes
  PROVE  IInv'
<1>1. UNCHANGED <<box, confirmed, stripped>>
  BY DEF boxes
<1>2. PlannedOK'
  BY <1>1 DEF IInv, PlannedOK
<1> QED
  BY <1>1, <1>2, EndKeeps DEF IInv, Shapes

\* The box of a command, and that of a draft command, is what it holds.
LEMMA HoldsItsBox ==
  ASSUME IInv, NEW t \in Transactions, NEW kind \in BoxKinds, Ready(t, kind)
  PROVE  /\ tx[t].rows = {tx[t].of}
         /\ kind \in DraftKinds => tx[t].of \in Boxes /\ box[tx[t].of] = "draft"
<1>1. tx[t] # Idle /\ tx[t].kind = kind
  BY DEF Ready, Idle
<1> QED
  BY <1>1 DEF IInv, RowsHeld, Holds

\* A box that a command makes a draft, ships or cancels is no longer planned.
LEMMA MovesBox ==
  ASSUME IInv, NEW t \in Transactions, NEW kind \in BoxKinds, Ready(t, kind), Done(t),
         NEW to, to # "planned", box' = [box EXCEPT ![tx[t].of] = to],
         NEW c, confirmed' = [confirmed EXCEPT ![tx[t].of] = c],
         NEW s, stripped' = stripped \/ stripped' = [stripped EXCEPT ![tx[t].of] = s]
  PROVE  IInv'
<1>1. tx[t].rows = {tx[t].of}
  BY HoldsItsBox
<1>2. DOMAIN box' = Boxes /\ DOMAIN confirmed' = Boxes /\ DOMAIN stripped' = Boxes
  BY DEF IInv, Shapes
<1>3. \A b \in Boxes \ {tx[t].of} :
        box'[b] = box[b] /\ confirmed'[b] = confirmed[b] /\ stripped'[b] = stripped[b]
  BY DEF IInv, Shapes
<1>4. tx[t].of \in Boxes => box'[tx[t].of] = to
  BY DEF IInv, Shapes
<1>5. PlannedOK'
  BY <1>3, <1>4 DEF IInv, PlannedOK
<1> QED
  BY <1>1, <1>2, <1>3, <1>5, EndKeeps

\* A command on a draft changes the reservations of boxes that are not planned.
LEMMA ChangesDrafts ==
  ASSUME IInv, NEW t \in Transactions, Done(t), UNCHANGED <<box, stripped>>,
         DOMAIN confirmed' = Boxes,
         \A b \in Boxes : confirmed'[b] = confirmed[b] \/ box[b] = "draft"
  PROVE  IInv'
<1>1. PlannedOK'
  BY DEF IInv, PlannedOK
<1> QED
  BY <1>1, EndKeeps DEF IInv, Shapes

\* reservePartial and releasePartial hold the row of a draft.
LEMMA ReserveKeeps ==
  ASSUME IInv, NEW t \in Transactions, ReservePartial(t) \/ ReleasePartial(t)
  PROVE  IInv'
<1>1. PICK kind \in {"reserve", "release"} : Ready(t, kind)
  BY DEF ReservePartial, ReleasePartial
<1>2. tx[t].of \in Boxes /\ box[tx[t].of] = "draft"
  BY <1>1, HoldsItsBox DEF BoxKinds, DraftKinds
<1>3. PICK c : confirmed' = [confirmed EXCEPT ![tx[t].of] = c]
  BY DEF ReservePartial, ReleasePartial
<1>4. Done(t) /\ UNCHANGED <<box, stripped>>
  BY DEF ReservePartial, ReleasePartial
<1>5. /\ DOMAIN confirmed' = Boxes
      /\ \A b \in Boxes : confirmed'[b] = confirmed[b] \/ box[b] = "draft"
  BY <1>2, <1>3 DEF IInv, Shapes
<1> QED
  BY <1>4, <1>5, ChangesDrafts

\* A transfer holds the rows of two drafts.
LEMMA TransferKeeps ==
  ASSUME IInv, NEW t \in Transactions, Transfer(t)
  PROVE  IInv'
<1>1. PICK c, d : confirmed' = [[confirmed EXCEPT ![tx[t].of[1]] = c] EXCEPT ![tx[t].of[2]] = d]
  BY DEF Transfer
<1>2. Ready(t, "transfer") /\ Done(t) /\ UNCHANGED <<box, stripped>>
  BY DEF Transfer
<1>3. tx[t] # Idle /\ tx[t].kind = "transfer"
  BY <1>2 DEF Ready, Idle
<1>4. box[tx[t].of[1]] = "draft" /\ box[tx[t].of[2]] = "draft"
  BY <1>3 DEF IInv, RowsHeld, Holds, DraftKinds
<1>5. /\ DOMAIN confirmed' = Boxes
      /\ \A b \in Boxes : confirmed'[b] = confirmed[b] \/ box[b] = "draft"
  BY <1>1, <1>4 DEF IInv, Shapes
<1> QED
  BY <1>2, <1>5, ChangesDrafts

\* The commands that move a box out of planned, or back to draft.
LEMMA MoveKeeps ==
  ASSUME IInv, NEW t \in Transactions,
         ShortPick(t) \/ Dispatch(t) \/ Recall(t) \/ Cancel(t)
  PROVE  IInv'
<1>1. CASE ShortPick(t)
  <2>1. /\ Ready(t, "shortPick") /\ Done(t) /\ box' = [box EXCEPT ![tx[t].of] = "draft"]
        /\ confirmed' = [confirmed EXCEPT ![tx[t].of] = confirmed[tx[t].of] - tx[t].qty]
        /\ stripped' = [stripped EXCEPT ![tx[t].of] = 0]
    BY <1>1 DEF ShortPick
  <2> QED
    BY <2>1, MovesBox DEF BoxKinds
<1>2. CASE Dispatch(t)
  <2>1. /\ Ready(t, "dispatch") /\ Done(t) /\ box' = [box EXCEPT ![tx[t].of] = "shipped"]
        /\ confirmed' = [confirmed EXCEPT ![tx[t].of] = 0] /\ stripped' = stripped
    BY <1>2 DEF Dispatch
  <2> QED
    BY <2>1, MovesBox DEF BoxKinds
<1>3. CASE Recall(t)
  <2>1. /\ Ready(t, "recall") /\ Done(t) /\ box' = [box EXCEPT ![tx[t].of] = "draft"]
        /\ confirmed' = [confirmed EXCEPT ![tx[t].of] = tx[t].qty] /\ stripped' = stripped
    BY <1>3 DEF Recall
  <2> QED
    BY <2>1, MovesBox DEF BoxKinds
<1>4. CASE Cancel(t)
  <2>1. /\ Ready(t, "cancel") /\ Done(t) /\ box' = [box EXCEPT ![tx[t].of] = "canceled"]
        /\ confirmed' = [confirmed EXCEPT ![tx[t].of] = confirmed[tx[t].of] - tx[t].qty]
        /\ stripped' = stripped
    BY <1>4 DEF Cancel
  <2> QED
    BY <2>1, MovesBox DEF BoxKinds
<1> QED
  BY <1>1, <1>2, <1>3, <1>4

\* What needs no stock lock waits for the row of the box, so it meets no command.
LEMMA RowStepKeeps ==
  ASSUME IInv, NEW b \in Boxes, RowsFree({b}), UNCHANGED tx,
         DOMAIN box' = Boxes, DOMAIN confirmed' = Boxes, DOMAIN stripped' = Boxes,
         \A c \in Boxes \ {b} :
           box'[c] = box[c] /\ confirmed'[c] = confirmed[c] /\ stripped'[c] = stripped[c],
         box'[b] = "planned" =>
           /\ confirmed'[b] \in Nat /\ stripped'[b] \in Nat
           /\ confirmed'[b] + stripped'[b] = Qty[b]
  PROVE  IInv'
<1>1. Shapes' /\ Exclusive'
  BY DEF IInv, Shapes, Exclusive
<1>2. RowsHeld'
  <2> SUFFICES ASSUME NEW t \in Transactions, tx[t] # Idle PROVE Holds(tx[t])'
    BY DEF RowsHeld
  <2>1. Holds(tx[t]) /\ b \notin tx[t].rows
    BY DEF IInv, RowsHeld, RowsFree
  <2> QED
    BY <2>1 DEF Holds
<1>3. PlannedOK'
  BY DEF IInv, PlannedOK
<1> QED
  BY <1>1, <1>2, <1>3 DEF IInv

\* Planning, the carrier's report, and the release of a reservation by hand.
LEMMA BoxStepKeeps ==
  ASSUME IInv, NEW b \in Boxes, Plan(b) \/ InTransit(b) \/ ReleaseReservation(b)
  PROVE  IInv'
<1>0. DOMAIN box = Boxes /\ DOMAIN confirmed = Boxes /\ DOMAIN stripped = Boxes
  BY DEF IInv, Shapes
<1>1. CASE Plan(b)
  <2>1. /\ RowsFree({b}) /\ UNCHANGED <<tx, confirmed>> /\ confirmed[b] = Qty[b]
        /\ box' = [box EXCEPT ![b] = "planned"] /\ stripped' = [stripped EXCEPT ![b] = 0]
    BY <1>1 DEF Plan
  <2>2. Qty[b] \in Nat
    BY StockAssumption
  <2>3. confirmed'[b] \in Nat /\ stripped'[b] = 0 /\ confirmed'[b] + stripped'[b] = Qty[b]
    BY <1>0, <2>1, <2>2
  <2> QED
    BY <1>0, <2>1, <2>3, RowStepKeeps
<1>2. CASE InTransit(b)
  <2>1. /\ RowsFree({b}) /\ UNCHANGED <<tx, confirmed, stripped>>
        /\ box' = [box EXCEPT ![b] = "in_transit"]
    BY <1>2 DEF InTransit
  <2> QED
    BY <1>0, <2>1, RowStepKeeps
<1>3. CASE ReleaseReservation(b)
  <2>1. PICK q \in 1 .. confirmed[b] :
          /\ RowsFree({b}) /\ UNCHANGED <<tx, box>>
          /\ confirmed' = [confirmed EXCEPT ![b] = confirmed[b] - q]
          /\ stripped' = [stripped EXCEPT ![b] =
                            IF box[b] = "planned" THEN stripped[b] + q ELSE stripped[b]]
    BY <1>3 DEF ReleaseReservation
  <2>2. confirmed'[b] = confirmed[b] - q
    BY <1>0, <2>1
  <2>3. box[b] = "planned" => stripped'[b] = stripped[b] + q
    BY <1>0, <2>1
  <2>4. box[b] = "planned" =>
          /\ confirmed[b] \in Nat /\ stripped[b] \in Nat
          /\ confirmed[b] + stripped[b] = Qty[b]
    BY DEF IInv, PlannedOK
  <2>5. box[b] = "planned" =>
          /\ confirmed'[b] \in Nat /\ stripped'[b] \in Nat
          /\ confirmed'[b] + stripped'[b] = Qty[b]
    <3> SUFFICES ASSUME box[b] = "planned"
                 PROVE  /\ confirmed[b] - q \in Nat /\ stripped[b] + q \in Nat
                        /\ (confirmed[b] - q) + (stripped[b] + q) = Qty[b]
      BY <2>2, <2>3
    <3> QED
      BY <2>4
  <2> QED
    BY <1>0, <2>1, <2>5, RowStepKeeps
<1> QED
  BY <1>1, <1>2, <1>3

-----------------------------------------------------------------------------
\* Every command starts with the rows that Holds says.
LEMMA BeginKeeps ==
  ASSUME IInv, NEW t \in Transactions, StartSomething(t)
  PROVE  IInv'
<1>1. CASE StartAdjust(t)
  <2>1. PICK w \in Warehouses, q \in 1 .. MaxQty, kind \in {"adjustUp", "adjustDown", "count"} :
          Start(t, kind, w, {}, {w}, w, q, 0)
    BY <1>1 DEF StartAdjust
  <2> QED
    BY <2>1, StartKeeps DEF BoxKinds, DraftKinds
<1>2. CASE StartReverse(t)
  <2>1. PICK e, at :
          Start(t, "reverse", e, {e}, Places(e), at, e.qty, 0)
    BY <1>2 DEF StartReverse
  <2> QED
    BY <2>1, StartKeeps DEF BoxKinds, DraftKinds
<1>3. ASSUME NEW o \in Orders, StartShip(t, o) PROVE IInv'
  <2>1. Start(t, "ship", o, {o}, {From[o]}, From[o], Planned[o], 0)
    BY <1>3 DEF StartShip
  <2> QED
    BY <2>1, StartKeeps DEF BoxKinds, DraftKinds
<1>4. ASSUME NEW o \in Orders, StartReceive(t, o) PROVE IInv'
  <2>1. PICK q, saw : Start(t, "receive", o, {o}, {From[o], To[o]}, From[o], q, saw)
    BY <1>4 DEF StartReceive
  <2> QED
    BY <2>1, StartKeeps DEF BoxKinds, DraftKinds
<1>5. ASSUME NEW b \in Boxes, StartReserve(t, b) \/ StartRelease(t, b) PROVE IInv'
  <2>1. PICK kind, q :
          /\ kind \in {"reserve", "release"} /\ Draft(b)
          /\ Start(t, kind, b, {b}, {Home[b]}, Home[b], q, 0)
    BY <1>5 DEF StartReserve, StartRelease
  <2> QED
    BY <2>1, StartKeeps DEF BoxKinds, DraftKinds, Draft
<1>6. ASSUME NEW b \in Boxes,
             StartShortPick(t, b) \/ StartDispatch(t, b) \/ StartRecall(t, b) \/ StartCancel(t, b)
      PROVE IInv'
  <2>1. PICK kind, q :
          /\ kind \in {"shortPick", "dispatch", "recall", "cancel"}
          /\ Start(t, kind, b, {b}, {Home[b]}, Home[b], q, 0)
    BY <1>6 DEF StartShortPick, StartDispatch, StartRecall, StartCancel
  <2> QED
    BY <2>1, StartKeeps DEF BoxKinds, DraftKinds
<1>7. ASSUME NEW b \in Boxes, NEW c \in Boxes, StartTransfer(t, b, c) PROVE IInv'
  <2>1. PICK q : /\ Draft(b) /\ Draft(c)
                 /\ Start(t, "transfer", <<b, c>>, {b, c}, {Home[b]}, Home[b], q, 0)
    BY <1>7 DEF StartTransfer
  <2>2. "transfer" \notin BoxKinds /\ {b, c} = {<<b, c>>[1], <<b, c>>[2]}
    BY DEF BoxKinds
  <2>3. \A d \in {b, c} : d \in Boxes /\ box[d] = "draft"
    BY <2>1 DEF Draft
  <2> QED
    BY <2>1, <2>2, <2>3, StartKeeps
<1> QED
  BY <1>1, <1>2, <1>3, <1>4, <1>5, <1>6, <1>7 DEF StartSomething

\* Every end of a command, in success or refusal.
LEMMA CommitKeeps ==
  ASSUME IInv, NEW t \in Transactions, Commit(t) \/ Refuse(t)
  PROVE  IInv'
<1>1. CASE AdjustUp(t) \/ AdjustDown(t) \/ Reverse(t) \/ ShipOrder(t) \/ ReceiveOrder(t)
             \/ Refuse(t)
  <2>1. Done(t) /\ UNCHANGED boxes
    BY <1>1 DEF AdjustUp, AdjustDown, Reverse, ShipOrder, ReceiveOrder, Refuse
  <2> QED
    BY <2>1, OtherEndKeeps
<1> QED
  BY <1>1, ReserveKeeps, TransferKeeps, MoveKeeps DEF Commit

\* Every step keeps the inductive invariant.
LEMMA NextKeeps == IInv /\ [Next]_vars => IInv'
<1> SUFFICES ASSUME IInv, [Next]_vars PROVE IInv'
  OBVIOUS
<1>1. CASE UNCHANGED vars
  BY <1>1 DEF vars, boxes, IInv, Shapes, RowsHeld, Holds, Exclusive, PlannedOK
<1>2. CASE Next
  BY <1>2, BeginKeeps, AcquireKeeps, ReadKeeps, CommitKeeps, BoxStepKeeps DEF Next
<1> QED
  BY <1>1, <1>2

\* The inductive invariant holds in every reachable state.
THEOREM Invariance == Spec => []IInv
  BY InitIInv, NextKeeps, PTL DEF Spec

\* A planned box has reservations for all it carries but for what was released by hand,
\* whatever other commands on it, or moves of reservations between boxes, are at work.
THEOREM PlannedBoxesAreReserved == Spec => []PlannedIsReserved
<1>1. IInv => PlannedIsReserved
  BY DEF IInv, PlannedOK, PlannedIsReserved
<1> QED
  BY <1>1, Invariance, PTL
-----------------------------------------------------------------------------
(* Sums *)

\* The fold takes the elements of a set in an order of its own.
Pick(s) == CHOOSE x \in s : TRUE
Part(f, g, s) == IF s = {} THEN 0 ELSE f[Pick(s)] + g[s \ {Pick(s)}]
Adds(f, g, S) == g = [s \in SUBSET S |-> Part(f, g, s)]

\* The sum of the library is the value of such a recursive function.
LEMMA SumUnfolds ==
  ASSUME NEW f, NEW S
  PROVE  SumFunctionOnSet(f, S) = (CHOOSE g : Adds(f, g, S))[S]
  BY DEF SumFunctionOnSet, FoldFunctionOnSet, MapThenFoldSet, Adds, Part, Pick

\* A finite set without one of its elements is smaller.
LEMMA Removed ==
  ASSUME NEW S, IsFiniteSet(S), NEW x \in S
  PROVE  IsFiniteSet(S \ {x}) /\ Cardinality(S \ {x}) < Cardinality(S)
<1>1. /\ IsFiniteSet(S \ {x}) /\ Cardinality(S \ {x}) = Cardinality(S) - 1
  BY FS_RemoveElement
<1>2. Cardinality(S) \in Nat
  BY FS_CardinalityType
<1> QED
  BY <1>1, <1>2

\* Taking the next element leaves a smaller set.
LEMMA Taken ==
  ASSUME NEW S, IsFiniteSet(S), S # {}
  PROVE  /\ Pick(S) \in S /\ IsFiniteSet(S \ {Pick(S)})
         /\ Cardinality(S \ {Pick(S)}) < Cardinality(S)
<1>1. Pick(S) \in S
  BY DEF Pick
<1> QED
  BY <1>1, Removed

\* Among sets there is one with no smaller one.
LEMMA Smallest ==
  ASSUME NEW S, IsFiniteSet(S), NEW B \in SUBSET SUBSET S, B # {}
  PROVE  \E s \in B : \A t \in B : ~(Cardinality(t) < Cardinality(s))
<1>1. \A s \in B : IsFiniteSet(s) /\ Cardinality(s) \in Nat
  BY FS_Subset, FS_CardinalityType
<1> DEFINE N == {Cardinality(s) : s \in B}
<1>2. N \subseteq Nat /\ N # {}
  BY <1>1
<1> HIDE DEF N
<1>3. PICK n \in N : \A m \in N : ~(<<m, n>> \in OpToRel(<, Nat))
  BY <1>2, NatLessThanWellFounded, WFMin, Zenon
<1>4. \A m \in N : ~(m < n)
  BY <1>2, <1>3, Zenon DEF OpToRel
<1>5. PICK s \in B : n = Cardinality(s)
  BY <1>3 DEF N
<1>6. \A t \in B : Cardinality(t) \in N
  BY DEF N
<1> QED
  BY <1>4, <1>5, <1>6

\* A sum is its next element and the sum of the others.  A smallest set for which it
\* is not would follow from its subsets.
LEMMA SumTakes ==
  ASSUME NEW f, NEW S, IsFiniteSet(S)
  PROVE  SumFunctionOnSet(f, S) = IF S = {} THEN 0 ELSE f[Pick(S)] + SumFunctionOnSet(f, S \ {Pick(S)})
<1> DEFINE Sum(s) == IF s = {} THEN 0 ELSE f[Pick(s)] + SumFunctionOnSet(f, s \ {Pick(s)})
           B == {s \in SUBSET S : SumFunctionOnSet(f, s) # Sum(s)}
<1> SUFFICES ASSUME B # {} PROVE FALSE
  OBVIOUS
<1>1. PICK s \in B : \A t \in B : ~(Cardinality(t) < Cardinality(s))
  BY Smallest
<1>2. IsFiniteSet(s) /\ s \in SUBSET S /\ SumFunctionOnSet(f, s) # Sum(s)
  BY FS_Subset
<1>3. ASSUME NEW t \in SUBSET s, t # s PROVE SumFunctionOnSet(f, t) = Sum(t)
  <2>1. Cardinality(t) < Cardinality(s)
    BY <1>2, <1>3, FS_Subset, FS_CardinalityType
  <2> QED
    BY <1>1, <1>2, <2>1
<1> HIDE DEF B
<1> DEFINE g == [t \in SUBSET s |-> IF t = s THEN Sum(s) ELSE SumFunctionOnSet(f, t)]
<1>4. Adds(f, g, s)
  <2> SUFFICES ASSUME NEW t \in SUBSET s PROVE g[t] = Part(f, g, t)
    BY DEF Adds
  <2>1. CASE t = {}
    BY <1>3, <2>1 DEF Part
  <2>2. CASE t # {}
    <3>1. g[t] = f[Pick(t)] + SumFunctionOnSet(f, t \ {Pick(t)})
      BY <1>3, <2>2
    <3>2. t \ {Pick(t)} \in SUBSET s /\ t \ {Pick(t)} # s
      BY <2>2 DEF Pick
    <3> QED
      BY <2>2, <3>1, <3>2 DEF Part
  <2> QED
    BY <2>1, <2>2
<1> DEFINE h == CHOOSE k : Adds(f, k, s)
<1>5. Adds(f, h, s) /\ SumFunctionOnSet(f, s) = h[s]
  BY <1>4, SumUnfolds
<1> HIDE DEF g, h
<1>6. \A t \in SUBSET s : h[t] = Part(f, h, t)
  BY <1>5 DEF Adds
<1>7. \A t \in SUBSET s : t # s => h[t] = SumFunctionOnSet(f, t)
  <2> DEFINE C == {t \in SUBSET s : t # s /\ h[t] # SumFunctionOnSet(f, t)}
  <2> SUFFICES ASSUME C # {} PROVE FALSE
    OBVIOUS
  <2>1. PICK t \in C : \A u \in C : ~(Cardinality(u) < Cardinality(t))
    BY <1>2, Smallest
  <2>2. IsFiniteSet(t)
    BY <1>2, FS_Subset
  <2>3. h[t] = Part(f, h, t) /\ SumFunctionOnSet(f, t) = Sum(t)
    BY <1>3, <1>6
  <2>4. CASE t = {}
    BY <2>1, <2>3, <2>4 DEF Part
  <2>5. CASE t # {}
    <3>1. t \ {Pick(t)} \in SUBSET s /\ t \ {Pick(t)} # s /\ t \ {Pick(t)} \notin C
      BY <2>1, <2>2, <2>5, Taken
    <3>2. h[t \ {Pick(t)}] = SumFunctionOnSet(f, t \ {Pick(t)})
      BY <3>1
    <3> QED
      BY <2>1, <2>3, <2>5, <3>2 DEF Part
  <2> QED
    BY <2>4, <2>5
<1>8. h[s] = Sum(s)
  <2>1. CASE s = {}
    BY <1>6, <2>1 DEF Part
  <2>2. CASE s # {}
    <3>1. s \ {Pick(s)} \in SUBSET s /\ s \ {Pick(s)} # s
      BY <1>2, <2>2, Taken
    <3> QED
      BY <1>6, <1>7, <2>2, <3>1 DEF Part
  <2> QED
    BY <2>1, <2>2
<1> QED
  BY <1>2, <1>5, <1>8

\* Numbers add up to a number.
LEMMA SumType ==
  ASSUME NEW f, NEW S, IsFiniteSet(S), \A x \in S : f[x] \in Nat
  PROVE  SumFunctionOnSet(f, S) \in Nat
<1> DEFINE B == {s \in SUBSET S : SumFunctionOnSet(f, s) \notin Nat}
<1> SUFFICES ASSUME B # {} PROVE FALSE
  OBVIOUS
<1>1. PICK s \in B : \A t \in B : ~(Cardinality(t) < Cardinality(s))
  BY Smallest
<1>2. IsFiniteSet(s) /\ s \in SUBSET S /\ SumFunctionOnSet(f, s) \notin Nat
  BY FS_Subset
<1>3. s # {}
  <2>1. SumFunctionOnSet(f, {}) = 0
    BY FS_EmptySet, SumTakes
  <2> QED
    BY <1>2, <2>1
<1>4. SumFunctionOnSet(f, s) = f[Pick(s)] + SumFunctionOnSet(f, s \ {Pick(s)})
  BY <1>2, <1>3, SumTakes
<1>5. Pick(s) \in S /\ s \ {Pick(s)} \in SUBSET S /\ s \ {Pick(s)} \notin B
  BY <1>1, <1>2, <1>3, Taken
<1>6. f[Pick(s)] \in Nat /\ SumFunctionOnSet(f, s \ {Pick(s)}) \in Nat
  BY <1>5
<1> QED
  BY <1>2, <1>4, <1>6

\* It does not matter which element is taken first.
LEMMA SumRemoves ==
  ASSUME NEW f, NEW S, IsFiniteSet(S), \A x \in S : f[x] \in Nat, NEW x \in S
  PROVE  SumFunctionOnSet(f, S) = f[x] + SumFunctionOnSet(f, S \ {x})
<1> DEFINE B == {s \in SUBSET S : \E y \in s : SumFunctionOnSet(f, s) # f[y] + SumFunctionOnSet(f, s \ {y})}
<1> SUFFICES ASSUME B # {} PROVE FALSE
  OBVIOUS
<1>1. PICK s \in B : \A t \in B : ~(Cardinality(t) < Cardinality(s))
  BY Smallest
<1>2. PICK y \in s : SumFunctionOnSet(f, s) # f[y] + SumFunctionOnSet(f, s \ {y})
  OBVIOUS
<1> DEFINE p == Pick(s)
<1>3. /\ IsFiniteSet(s) /\ s \in SUBSET S /\ s # {} /\ p \in s
      /\ IsFiniteSet(s \ {p}) /\ Cardinality(s \ {p}) < Cardinality(s)
  BY <1>2, FS_Subset, Taken
<1>4. SumFunctionOnSet(f, s) = f[p] + SumFunctionOnSet(f, s \ {p})
  BY <1>3, SumTakes
<1>5. y # p
  BY <1>2, <1>4
<1>6. IsFiniteSet(s \ {y}) /\ Cardinality(s \ {y}) < Cardinality(s)
  BY <1>2, <1>3, Removed
<1>7. \A t \in SUBSET S : Cardinality(t) < Cardinality(s) => t \notin B
  BY <1>1
<1>8. s \ {p} \notin B /\ s \ {y} \notin B
  BY <1>2, <1>3, <1>6, <1>7
<1>9. SumFunctionOnSet(f, s \ {p}) = f[y] + SumFunctionOnSet(f, (s \ {p}) \ {y})
  <2>1. s \ {p} \in SUBSET S /\ y \in s \ {p}
    BY <1>2, <1>3, <1>5
  <2> QED
    BY <1>8, <2>1
<1>10. SumFunctionOnSet(f, s \ {y}) = f[p] + SumFunctionOnSet(f, (s \ {y}) \ {p})
  <2>1. s \ {y} \in SUBSET S /\ p \in s \ {y}
    BY <1>2, <1>3, <1>5
  <2> QED
    BY <1>8, <2>1
<1>11. (s \ {p}) \ {y} = (s \ {y}) \ {p}
  OBVIOUS
<1>12. /\ f[p] \in Nat /\ f[y] \in Nat /\ SumFunctionOnSet(f, (s \ {y}) \ {p}) \in Nat
  <2>1. IsFiniteSet((s \ {y}) \ {p}) /\ \A z \in (s \ {y}) \ {p} : f[z] \in Nat
    BY <1>3, <1>6, FS_RemoveElement
  <2> QED
    BY <1>2, <1>3, <2>1, SumType
<1> HIDE DEF p
<1> QED
  BY <1>2, <1>4, <1>9, <1>10, <1>11, <1>12

\* A sum depends on the values it adds.
LEMMA SumSame ==
  ASSUME NEW f, NEW g, NEW S, IsFiniteSet(S), \A x \in S : f[x] = g[x]
  PROVE  SumFunctionOnSet(f, S) = SumFunctionOnSet(g, S)
<1> DEFINE B == {s \in SUBSET S : SumFunctionOnSet(f, s) # SumFunctionOnSet(g, s)}
<1> SUFFICES ASSUME B # {} PROVE FALSE
  OBVIOUS
<1>1. PICK s \in B : \A t \in B : ~(Cardinality(t) < Cardinality(s))
  BY Smallest
<1>2. IsFiniteSet(s) /\ s \in SUBSET S /\ SumFunctionOnSet(f, s) # SumFunctionOnSet(g, s)
  BY FS_Subset
<1>3. s # {}
  BY <1>2, SumTakes
<1>4. Pick(s) \in S /\ s \ {Pick(s)} \in SUBSET S /\ s \ {Pick(s)} \notin B
  BY <1>1, <1>2, <1>3, Taken
<1>5. SumFunctionOnSet(f, s \ {Pick(s)}) = SumFunctionOnSet(g, s \ {Pick(s)}) /\ f[Pick(s)] = g[Pick(s)]
  BY <1>4
<1> QED
  BY <1>2, <1>3, <1>5, SumTakes

\* The sum of nothing, of one and of two.
LEMMA SumOfFew ==
  ASSUME NEW f, NEW x, f[x] \in Nat, NEW y, f[y] \in Nat, x # y
  PROVE  /\ SumFunctionOnSet(f, {}) = 0
         /\ SumFunctionOnSet(f, {x}) = f[x] /\ SumFunctionOnSet(f, {x, y}) = f[x] + f[y]
<1>1. IsFiniteSet({}) /\ IsFiniteSet({x}) /\ IsFiniteSet({y}) /\ IsFiniteSet({x, y})
  BY FS_EmptySet, FS_Singleton, FS_Union, FS_AddElement
<1>2. SumFunctionOnSet(f, {}) = 0
  BY <1>1, SumTakes
<1>3. {x} \ {x} = {} /\ {y} \ {y} = {} /\ {x, y} \ {x} = {y}
  OBVIOUS
<1>4. SumFunctionOnSet(f, {x}) = f[x] + SumFunctionOnSet(f, {x} \ {x})
  BY <1>1, SumRemoves
<1>5. SumFunctionOnSet(f, {y}) = f[y] + SumFunctionOnSet(f, {y} \ {y})
  BY <1>1, SumRemoves
<1>6. SumFunctionOnSet(f, {x, y}) = f[x] + SumFunctionOnSet(f, {x, y} \ {x})
  BY <1>1, SumRemoves
<1>7. /\ SumFunctionOnSet(f, {x} \ {x}) = 0 /\ SumFunctionOnSet(f, {y} \ {y}) = 0
      /\ SumFunctionOnSet(f, {x, y} \ {x}) = SumFunctionOnSet(f, {y})
  BY <1>2, <1>3, Zenon
<1> QED
  BY <1>2, <1>4, <1>5, <1>6, <1>7

\* A sum follows the change of one of its terms.
LEMMA SumChanges ==
  ASSUME NEW f, NEW g, NEW S, IsFiniteSet(S), \A y \in S : f[y] \in Nat /\ g[y] \in Nat,
         NEW x \in S, \A y \in S \ {x} : g[y] = f[y]
  PROVE  SumFunctionOnSet(g, S) = SumFunctionOnSet(f, S) - f[x] + g[x]
<1>1. IsFiniteSet(S \ {x})
  BY Removed
<1>2. SumFunctionOnSet(f, S \ {x}) \in Nat
  BY <1>1, SumType
<1>3. SumFunctionOnSet(g, S \ {x}) = SumFunctionOnSet(f, S \ {x})
  BY <1>1, SumSame
<1>4. SumFunctionOnSet(f, S) = f[x] + SumFunctionOnSet(f, S \ {x})
  BY SumRemoves
<1>5. SumFunctionOnSet(g, S) = g[x] + SumFunctionOnSet(g, S \ {x})
  BY SumRemoves
<1> QED
  BY <1>2, <1>3, <1>4, <1>5

\* The greater and the smaller of two, and the least of many.
LEMMA MaxOfTwo ==
  ASSUME NEW m \in Int, NEW n \in Int
  PROVE  Max({m, n}) = IF m >= n THEN m ELSE n
  BY DEF Max

LEMMA MinOfTwo ==
  ASSUME NEW m \in Int, NEW n \in Int
  PROVE  Min({m, n}) = IF m <= n THEN m ELSE n
  BY DEF Min

LEMMA LeastIn ==
  ASSUME NEW S \in SUBSET Nat, S # {}
  PROVE  Min(S) \in S
<1>1. PICK m \in S : \A k \in S : ~(<<k, m>> \in OpToRel(<, Nat))
  BY WFMin, NatLessThanWellFounded, Zenon
<1>2. \A k \in S : ~(k < m)
  BY <1>1, Zenon DEF OpToRel
<1>3. \A k \in S : m <= k
  BY <1>2
<1> QED
  BY <1>3 DEF Min

-----------------------------------------------------------------------------
(* What commands are about, and what they may rely on *)

Ends == Cells \cup {Outside}
Events == [from : Ends, to : Ends, qty : Nat]
Statuses == {"draft", "planned", "shipped", "in_transit", "canceled"}
Stages == {"draft", "shipped", "partially_received", "closed"}

\* TypeOK in parts, with what the sums need: what was received and lost of an order is
\* part of its plan, and nothing of a draft.
GoodsTyped ==
  /\ ledger \in [Cells -> Nat] /\ pulled \in [Warehouses -> Int]
  /\ IsABag(posted) /\ DOMAIN posted \subseteq Events

BoxesTyped ==
  /\ box \in [Boxes -> Statuses]
  /\ confirmed \in [Boxes -> Nat] /\ stripped \in [Boxes -> Nat]
  /\ \A b \in Boxes : confirmed[b] <= Qty[b] /\ stripped[b] <= Qty[b]

OrdersTyped ==
  /\ order \in [Orders -> Stages]
  /\ received \in [Orders -> Nat] /\ lost \in [Orders -> Nat]
  /\ \A o \in Orders :
       /\ received[o] + lost[o] <= Planned[o]
       /\ order[o] = "draft" => received[o] = 0 /\ lost[o] = 0

Numbers == GoodsTyped /\ BoxesTyped /\ OrdersTyped /\ incidents \in 0 .. MaxIncidents

\* What a command is about, and what it read in the rows it holds.
MeantForStock(x) ==
  /\ x.kind \in {"adjustUp", "adjustDown", "count"} =>
       x.of \in Warehouses /\ x.stock = {x.of} /\ x.at = x.of /\ x.qty \in Nat
  /\ x.kind = "reverse" =>
       x.of \in Events /\ (LosesOnHand(x.of) => x.at = x.of.to[2] /\ x.at \in x.stock)

MeantForOrders(x) ==
  /\ x.kind \in {"ship", "receive"} => x.of \in Orders /\ x.rows = {x.of}
  /\ x.kind = "ship" =>
       /\ order[x.of] = "draft" /\ x.qty = Planned[x.of]
       /\ x.at = From[x.of] /\ x.stock = {From[x.of]}
  /\ x.kind = "receive" =>
       /\ order[x.of] \in {"shipped", "partially_received"}
       /\ x.saw = <<received[x.of], lost[x.of]>> /\ x.qty \in Nat \X Nat
       /\ x.qty[1] + x.qty[2] <= Planned[x.of] - received[x.of] - lost[x.of]

MeantForBoxes(x) ==
  /\ x.kind \in BoxKinds => x.of \in Boxes /\ x.stock = {Home[x.of]} /\ x.at = Home[x.of]
  /\ x.kind \in {"release", "shortPick", "cancel"} => x.qty \in 0 .. confirmed[x.of]
  /\ x.kind \in {"dispatch", "recall"} => x.qty = Qty[x.of]
  /\ x.kind = "transfer" =>
       /\ x.of[1] \in Boxes /\ x.of[2] \in Boxes /\ x.of[1] # x.of[2]
       /\ Home[x.of[1]] = Home[x.of[2]] /\ x.qty \in 0 .. confirmed[x.of[1]]
       /\ x.qty <= Qty[x.of[2]] - confirmed[x.of[2]]

Meant(x) == MeantForStock(x) /\ MeantForOrders(x) /\ MeantForBoxes(x)

\* A command that has read what is free holds all its locks, and no more is promised of
\* it than there is: until it ends nobody else can take any of it.
Locked(x) ==
  /\ x.held \subseteq x.stock /\ x.stock \subseteq Warehouses
  /\ x.pc = "read" => x.held = x.stock

Fits(x) == x.pc = "read" /\ x.at \in x.held => x.saw \in Int /\ x.saw <= Available(x.at)

\* An advisory lock is held by one transaction.
Apart == \A t, u \in Transactions : t # u => tx[t].held \cap tx[u].held = {}

AtWork == \A t \in Transactions : tx[t] # Idle => Meant(tx[t]) /\ Locked(tx[t]) /\ Fits(tx[t])

\* The second inductive invariant, relative to the first.
QInv == Numbers /\ InTransitIsOwed /\ Apart /\ AtWork

\* What is promised, and what is owed, is a number.
LEMMA SumsTyped ==
  ASSUME Numbers, NEW w \in Warehouses
  PROVE  /\ Reserved(w) \in Nat /\ Available(w) \in Int /\ Owed(w) \in Nat
         /\ \A o \in Orders : /\ Outstanding(o) \in Nat /\ Outstanding(o) <= Planned[o]
<1>1. IsFiniteSet(HomeBoxes(w)) /\ IsFiniteSet({o \in Orders : From[o] = w})
  BY StockAssumption, FS_Subset DEF HomeBoxes
<1>2. \A b \in HomeBoxes(w) : confirmed[b] \in Nat
  BY DEF Numbers, BoxesTyped, HomeBoxes
<1>3. Reserved(w) \in Nat
  BY <1>1, <1>2, SumType DEF Reserved
<1>4. OnHand(w) \in Cells
  BY DEF OnHand, Cells
<1>5. Available(w) \in Int
  BY <1>3, <1>4 DEF Available, Numbers, GoodsTyped
<1>6. \A o \in Orders : Outstanding(o) \in Nat /\ Outstanding(o) <= Planned[o]
  BY StockAssumption DEF Numbers, OrdersTyped, Outstanding
<1> DEFINE f == [o \in Orders |-> Outstanding(o)]
<1>7. \A o \in {o \in Orders : From[o] = w} : f[o] \in Nat
  BY <1>6
<1> HIDE DEF f
<1>8. SumFunctionOnSet(f, {o \in Orders : From[o] = w}) \in Nat
  BY <1>1, <1>7, SumType
<1> QED
  BY <1>3, <1>5, <1>6, <1>8 DEF Owed, f

\* So they are in the next state.
FreeTyped == \A w \in Warehouses : Available(w) \in Int /\ Owed(w) \in Nat

LEMMA NextTyped == Numbers' => FreeTyped'
<1>1. Numbers => FreeTyped
  BY SumsTyped DEF FreeTyped
<1> QED
  BY <1>1, PTL

\* The reservations of a warehouse follow those of the one box that changes.
LEMMA ReservedChanges ==
  ASSUME BoxesTyped, BoxesTyped', NEW b \in Boxes,
         \A c \in Boxes \ {b} : confirmed'[c] = confirmed[c],
         NEW w \in Warehouses
  PROVE  Reserved(w)' = IF Home[b] = w THEN Reserved(w) - confirmed[b] + confirmed'[b]
                        ELSE Reserved(w)
<1> DEFINE S == HomeBoxes(w)
<1>1. IsFiniteSet(S) /\ S \in SUBSET Boxes
  BY StockAssumption, FS_Subset DEF HomeBoxes
<1>2. \A c \in S : confirmed[c] \in Nat /\ confirmed'[c] \in Nat
  BY <1>1 DEF BoxesTyped
<1>3. b \in S <=> Home[b] = w
  BY DEF HomeBoxes
<1>4. Reserved(w) = SumFunctionOnSet(confirmed, S) /\ Reserved(w)' = SumFunctionOnSet(confirmed', S)
  BY DEF Reserved, HomeBoxes
<1> HIDE DEF S
<1>5. CASE b \in S
  <2>1. \A c \in S \ {b} : confirmed'[c] = confirmed[c]
    BY <1>1
  <2>2. SumFunctionOnSet(confirmed', S) = SumFunctionOnSet(confirmed, S) - confirmed[b] + confirmed'[b]
    BY <1>1, <1>2, <1>5, <2>1, SumChanges
  <2> QED
    BY <1>3, <1>4, <1>5, <2>2
<1>6. CASE b \notin S
  <2>1. \A c \in S : confirmed'[c] = confirmed[c]
    BY <1>1, <1>6
  <2>2. SumFunctionOnSet(confirmed', S) = SumFunctionOnSet(confirmed, S)
    BY <1>1, <2>1, SumSame
  <2> QED
    BY <1>3, <1>4, <1>6, <2>2
<1> QED
  BY <1>5, <1>6

\* What is owed by a warehouse follows the one order that changes.
LEMMA OwedChanges ==
  ASSUME Numbers, Numbers', NEW o \in Orders,
         \A p \in Orders \ {o} :
           order'[p] = order[p] /\ received'[p] = received[p] /\ lost'[p] = lost[p],
         NEW w \in Warehouses
  PROVE  Owed(w)' = IF From[o] = w THEN Owed(w) - Outstanding(o) + Outstanding(o)'
                    ELSE Owed(w)
<1> DEFINE S == {p \in Orders : From[p] = w}
           f == [p \in Orders |-> Outstanding(p)]
           g == [p \in Orders |-> Outstanding(p)']
<1>1. IsFiniteSet(S) /\ S \in SUBSET Orders
  BY StockAssumption, FS_Subset
<1>2. \A p \in Orders : f[p] = Outstanding(p) /\ g[p] = Outstanding(p)'
  OBVIOUS
<1>3. \A p \in Orders : Outstanding(p) \in Nat /\ Outstanding(p)' \in Nat
  BY StockAssumption DEF Numbers, OrdersTyped, Outstanding
<1>4. \A p \in Orders \ {o} : g[p] = f[p]
  BY DEF Outstanding
<1>5. Owed(w) = SumFunctionOnSet(f, S) /\ Owed(w)' = SumFunctionOnSet(g, S)
  BY DEF Owed
<1>6. o \in S <=> From[o] = w
  OBVIOUS
<1> HIDE DEF S, f, g
<1>7. CASE o \in S
  <2>1. /\ \A p \in S : f[p] \in Nat /\ g[p] \in Nat
        /\ \A p \in S \ {o} : g[p] = f[p]
    BY <1>1, <1>2, <1>3, <1>4
  <2>2. SumFunctionOnSet(g, S) = SumFunctionOnSet(f, S) - f[o] + g[o]
    BY <1>1, <1>7, <2>1, SumChanges
  <2> QED
    BY <1>2, <1>5, <1>6, <1>7, <2>2
<1>8. CASE o \notin S
  <2>1. \A p \in S : g[p] = f[p]
    BY <1>1, <1>4, <1>8
  <2>2. SumFunctionOnSet(g, S) = SumFunctionOnSet(f, S)
    BY <1>1, <2>1, SumSame
  <2> QED
    BY <1>5, <1>6, <1>8, <2>2
<1> QED
  BY <1>7, <1>8

\* What does not change.
LEMMA ReservedSame ==
  ASSUME UNCHANGED confirmed, NEW w
  PROVE  Reserved(w)' = Reserved(w)
  BY DEF Reserved, HomeBoxes

LEMMA OwedSame ==
  ASSUME UNCHANGED orders, NEW w
  PROVE  Owed(w)' = Owed(w)
<1>1. \A o \in Orders : Outstanding(o)' = Outstanding(o)
  BY DEF orders, Outstanding
<1>2. [o \in Orders |-> Outstanding(o)'] = [o \in Orders |-> Outstanding(o)]
  BY <1>1
<1> QED
  BY <1>2 DEF Owed

-----------------------------------------------------------------------------
(* The ledger *)

\* One event takes its quantity from one end and brings it to the other.
LEMMA MovesOne ==
  ASSUME GoodsTyped, NEW a, NEW z, NEW q \in Nat, Project({Event(a, z, q)})
  PROVE  /\ ledger' \in [Cells -> Nat]
         /\ \A c \in Cells : /\ a = c => ledger[c] >= q
                             /\ ledger'[c] = ledger[c] - (IF a = c THEN q ELSE 0) + (IF z = c THEN q ELSE 0)
<1> DEFINE e == Event(a, z, q)   f == Quantity({e})
<1>1. e.from = a /\ e.to = z /\ f[e] = q
  BY DEF Event, Quantity
<1>2. ledger' = [c \in Cells |-> ledger[c] - Out({e}, c) + In({e}, c)]
  BY DEF Project
<1>3. \A c \in Cells : ledger[c] >= Out({e}, c)
  BY DEF Project
<1>4. \A c \in Cells : ledger[c] \in Nat
  BY DEF GoodsTyped
<1> HIDE DEF e
<1>5. f[e] \in Nat
  BY <1>1
<1>6. SumFunctionOnSet(f, {}) = 0 /\ SumFunctionOnSet(f, {e}) = q
  <2>1. IsFiniteSet({}) /\ IsFiniteSet({e}) /\ {e} \ {e} = {}
    BY FS_EmptySet, FS_Singleton
  <2> HIDE DEF f
  <2>2. SumFunctionOnSet(f, {}) = 0
    BY <2>1, SumTakes
  <2>3. SumFunctionOnSet(f, {e}) = f[e] + SumFunctionOnSet(f, {e} \ {e})
    BY <1>5, <2>1, SumRemoves
  <2>4. SumFunctionOnSet(f, {e} \ {e}) = 0
    BY <2>1, <2>2, Zenon
  <2> QED
    BY <1>1, <2>2, <2>3, <2>4
<1>7. \A c \in Cells : /\ Out({e}, c) = SumFunctionOnSet(f, {x \in {e} : x.from = c})
                       /\ In({e}, c) = SumFunctionOnSet(f, {x \in {e} : x.to = c})
  BY DEF Out, In
<1>8. \A c \in Cells : Out({e}, c) = IF a = c THEN q ELSE 0
  <2> SUFFICES ASSUME NEW c \in Cells PROVE Out({e}, c) = IF a = c THEN q ELSE 0
    OBVIOUS
  <2>1. {x \in {e} : x.from = c} = IF a = c THEN {e} ELSE {}
    BY <1>1
  <2> HIDE DEF f
  <2>2. Out({e}, c) = SumFunctionOnSet(f, IF a = c THEN {e} ELSE {})
    BY <1>7, <2>1, Zenon
  <2> QED
    BY <1>6, <2>2
<1>9. \A c \in Cells : In({e}, c) = IF z = c THEN q ELSE 0
  <2> SUFFICES ASSUME NEW c \in Cells PROVE In({e}, c) = IF z = c THEN q ELSE 0
    OBVIOUS
  <2>1. {x \in {e} : x.to = c} = IF z = c THEN {e} ELSE {}
    BY <1>1
  <2> HIDE DEF f
  <2>2. In({e}, c) = SumFunctionOnSet(f, IF z = c THEN {e} ELSE {})
    BY <1>7, <2>1, Zenon
  <2> QED
    BY <1>6, <2>2
<1> HIDE DEF f
<1>10. \A c \in Cells : /\ ledger'[c] = ledger[c] - (IF a = c THEN q ELSE 0) + (IF z = c THEN q ELSE 0)
                        /\ a = c => ledger[c] >= q
  BY <1>2, <1>3, <1>8, <1>9
<1>11. \A c \in Cells : ledger'[c] \in Nat
  <2> SUFFICES ASSUME NEW c \in Cells PROVE ledger'[c] \in Nat
    OBVIOUS
  <2> QED
    BY <1>4, <1>10
<1>12. ledger' \in [Cells -> Nat]
  BY <1>2, <1>11
<1> QED
  BY <1>10, <1>12

\* Two events, or those of them that move anything, from one end to two others.
TwoEvents(a, y, z, p, q) == {e \in {Event(a, y, p), Event(a, z, q)} : e.qty > 0}

BothMove(a, y, z, p, q) ==
  /\ ledger' \in [Cells -> Nat]
  /\ \A c \in Cells : ledger'[c] = ledger[c] - (IF a = c THEN p + q ELSE 0)
                         + (IF y = c THEN p ELSE 0) + (IF z = c THEN q ELSE 0)

LEMMA MovesTwo ==
  ASSUME GoodsTyped, NEW a, NEW y, NEW z, y # z, NEW p \in Nat, NEW q \in Nat,
         Project(TwoEvents(a, y, z, p, q))
  PROVE  BothMove(a, y, z, p, q)
<1> DEFINE d == Event(a, y, p)   e == Event(a, z, q)
           es == {x \in {d, e} : x.qty > 0}   f == Quantity(es)
<1>1. /\ d.from = a /\ d.to = y /\ d.qty = p /\ e.from = a /\ e.to = z /\ e.qty = q
      /\ d # e
  BY DEF Event
<1>2. ledger' = [c \in Cells |-> ledger[c] - Out(es, c) + In(es, c)]
  BY DEF Project, TwoEvents
<1>3. \A c \in Cells : ledger[c] >= Out(es, c)
  BY DEF Project, TwoEvents
<1>4. \A c \in Cells : ledger[c] \in Nat
  BY DEF GoodsTyped
<1> HIDE DEF d, e
<1>5. \A x \in es : f[x] = x.qty /\ f[x] \in Nat
  BY <1>1 DEF Quantity
<1>6. (d \in es <=> p > 0) /\ (e \in es <=> q > 0)
  BY <1>1
<1>7. es \subseteq {d, e}
  OBVIOUS
<1>8. \A c \in Cells : /\ Out(es, c) = SumFunctionOnSet(f, {x \in es : x.from = c})
                       /\ In(es, c) = SumFunctionOnSet(f, {x \in es : x.to = c})
  BY DEF Out, In
<1> HIDE DEF es, f
<1>9. \A S \in SUBSET es : SumFunctionOnSet(f, S) = (IF d \in S THEN p ELSE 0) + (IF e \in S THEN q ELSE 0)
  <2> SUFFICES ASSUME NEW S \in SUBSET es
               PROVE  SumFunctionOnSet(f, S) = (IF d \in S THEN p ELSE 0) + (IF e \in S THEN q ELSE 0)
    OBVIOUS
  <2>0. /\ d \in es => f[d] = p
        /\ e \in es => f[e] = q
    BY <1>1, <1>5
  <2>1. CASE d \in S /\ e \in S
    <3>1. S = {d, e}
      BY <1>7, <2>1
    <3>2. SumFunctionOnSet(f, {d, e}) = f[d] + f[e]
      BY <1>1, <2>0, <2>1, SumOfFew
    <3>3. SumFunctionOnSet(f, S) = f[d] + f[e]
      BY <3>1, <3>2, Zenon
    <3> QED
      BY <2>0, <2>1, <3>3
  <2>2. ASSUME NEW x \in S, S = {x} PROVE SumFunctionOnSet(f, S) = f[x]
    <3>1. IsFiniteSet(S) /\ S \ {x} = {} /\ IsFiniteSet({})
      BY <2>2, FS_Singleton, FS_EmptySet
    <3>2. f[x] \in Nat
      BY <1>5
    <3>3. SumFunctionOnSet(f, S) = f[x] + SumFunctionOnSet(f, S \ {x})
      <4>1. \A v \in S : f[v] \in Nat
        BY <1>5
      <4> QED
        BY <3>1, <4>1, SumRemoves
    <3>4. SumFunctionOnSet(f, {}) = 0
      BY <3>1, SumTakes
    <3>5. SumFunctionOnSet(f, S \ {x}) = 0
      BY <3>1, <3>4, Zenon
    <3> QED
      BY <3>2, <3>3, <3>5
  <2>3. CASE d \in S /\ e \notin S
    <3>1. S = {d}
      BY <1>7, <2>3
    <3> QED
      BY <2>0, <2>2, <2>3, <3>1
  <2>4. CASE d \notin S /\ e \in S
    <3>1. S = {e}
      BY <1>7, <2>4
    <3> QED
      BY <2>0, <2>2, <2>4, <3>1
  <2>5. CASE d \notin S /\ e \notin S
    <3>1. S = {}
      BY <1>7, <2>5
    <3> QED
      BY <2>5, <3>1, FS_EmptySet, SumTakes
  <2> QED
    BY <2>1, <2>3, <2>4, <2>5
<1>10. \A c \in Cells : Out(es, c) = IF a = c THEN p + q ELSE 0
  <2> SUFFICES ASSUME NEW c \in Cells PROVE Out(es, c) = IF a = c THEN p + q ELSE 0
    OBVIOUS
  <2> DEFINE S == {x \in es : x.from = c}
  <2>1. S \in SUBSET es /\ (d \in S <=> p > 0 /\ a = c) /\ (e \in S <=> q > 0 /\ a = c)
    BY <1>1, <1>6
  <2>2. Out(es, c) = SumFunctionOnSet(f, S)
    BY <1>8
  <2> HIDE DEF S
  <2>3. Out(es, c) = (IF d \in S THEN p ELSE 0) + (IF e \in S THEN q ELSE 0)
    BY <1>9, <2>1, <2>2
  <2> QED
    BY <2>1, <2>3
<1>11. \A c \in Cells : In(es, c) = (IF y = c THEN p ELSE 0) + (IF z = c THEN q ELSE 0)
  <2> SUFFICES ASSUME NEW c \in Cells
               PROVE  In(es, c) = (IF y = c THEN p ELSE 0) + (IF z = c THEN q ELSE 0)
    OBVIOUS
  <2> DEFINE S == {x \in es : x.to = c}
  <2>1. S \in SUBSET es /\ (d \in S <=> p > 0 /\ y = c) /\ (e \in S <=> q > 0 /\ z = c)
    BY <1>1, <1>6
  <2>2. In(es, c) = SumFunctionOnSet(f, S)
    BY <1>8
  <2> HIDE DEF S
  <2>3. In(es, c) = (IF d \in S THEN p ELSE 0) + (IF e \in S THEN q ELSE 0)
    BY <1>9, <2>1, <2>2
  <2> QED
    BY <2>1, <2>3
<1>12. \A c \in Cells : ledger'[c] = ledger[c] - (IF a = c THEN p + q ELSE 0)
                           + (IF y = c THEN p ELSE 0) + (IF z = c THEN q ELSE 0)
  <2> SUFFICES ASSUME NEW c \in Cells
               PROVE  ledger'[c] = ledger[c] - (IF a = c THEN p + q ELSE 0)
                           + (IF y = c THEN p ELSE 0) + (IF z = c THEN q ELSE 0)
    OBVIOUS
  <2>1. ledger'[c] = ledger[c] - Out(es, c) + In(es, c)
    BY <1>2
  <2> QED
    BY <1>4, <1>10, <1>11, <2>1
<1>13. \A c \in Cells : ledger'[c] \in Nat
  <2> SUFFICES ASSUME NEW c \in Cells PROVE ledger'[c] \in Nat
    OBVIOUS
  <2> QED
    BY <1>3, <1>4, <1>10, <1>12
<1> QED
  BY <1>2, <1>12, <1>13 DEF BothMove

\* The events posted stay events.
LEMMA PostTyped ==
  ASSUME GoodsTyped, NEW es, es \subseteq Events, posted' = posted (+) SetToBag(es)
  PROVE  IsABag(posted') /\ DOMAIN posted' \subseteq Events
<1>1. DOMAIN posted' = DOMAIN posted \cup es
  BY DEF SetToBag, (+)
<1>2. \A e \in DOMAIN posted : posted[e] \in Nat /\ posted[e] > 0
  BY DEF GoodsTyped, IsABag
<1>3. \A e \in DOMAIN posted' : posted'[e] \in Nat /\ posted'[e] > 0
  BY <1>2 DEF SetToBag, (+)
<1>4. posted' = [e \in DOMAIN posted' |-> posted'[e]]
  BY DEF (+)
<1> QED
  BY <1>1, <1>3, <1>4 DEF GoodsTyped, IsABag

LEMMA ReverseTyped ==
  ASSUME GoodsTyped, NEW e \in Events, NEW d \in Events,
         posted' = (posted (-) SetToBag({e})) (+) SetToBag({d})
  PROVE  IsABag(posted') /\ DOMAIN posted' \subseteq Events
<1> DEFINE B == posted (-) SetToBag({e})
<1>1. \A x \in DOMAIN posted : posted[x] \in Nat /\ posted[x] > 0
  BY DEF GoodsTyped, IsABag
<1>2. DOMAIN B \subseteq DOMAIN posted /\ \A x \in DOMAIN B : B[x] \in Nat /\ B[x] > 0
  BY <1>1 DEF SetToBag, (-)
<1> HIDE DEF B
<1>3. posted' = B (+) SetToBag({d})
  BY DEF B
<1>4. DOMAIN posted' = DOMAIN B \cup {d}
  BY <1>3 DEF SetToBag, (+)
<1>5. \A x \in DOMAIN posted' : posted'[x] \in Nat /\ posted'[x] > 0
  BY <1>2, <1>3 DEF SetToBag, (+)
<1>6. posted' = [x \in DOMAIN posted' |-> posted'[x]]
  BY <1>3 DEF (+)
<1> QED
  BY <1>2, <1>4, <1>5, <1>6 DEF GoodsTyped, IsABag

\* Zeros add up to zero.
LEMMA SumOfZeros ==
  ASSUME NEW f, NEW S, IsFiniteSet(S), \A x \in S : f[x] = 0
  PROVE  SumFunctionOnSet(f, S) = 0
<1> DEFINE B == {s \in SUBSET S : SumFunctionOnSet(f, s) # 0}
<1> SUFFICES ASSUME B # {} PROVE FALSE
  OBVIOUS
<1>1. PICK s \in B : \A t \in B : ~(Cardinality(t) < Cardinality(s))
  BY Smallest
<1>2. IsFiniteSet(s) /\ s \in SUBSET S /\ SumFunctionOnSet(f, s) # 0
  BY FS_Subset
<1>3. s # {}
  BY <1>2, SumTakes
<1>4. Pick(s) \in S /\ s \ {Pick(s)} \in SUBSET S /\ s \ {Pick(s)} \notin B
  BY <1>1, <1>2, <1>3, Taken
<1>5. SumFunctionOnSet(f, s \ {Pick(s)}) = 0 /\ f[Pick(s)] = 0
  BY <1>4
<1> QED
  BY <1>2, <1>3, <1>5, SumTakes

-----------------------------------------------------------------------------
(* Commands start, take their locks and read *)

LEMMA InitQInv == Init => QInv
<1> SUFFICES ASSUME Init PROVE QInv
  OBVIOUS
<1>1. GoodsTyped
  <2>1. \A c \in Cells : (IF c[1] = "ON_HAND" THEN Opening[c[2]] ELSE 0) \in Nat
    BY StockAssumption DEF Cells
  <2>2. ledger \in [Cells -> Nat]
    BY <2>1 DEF Init
  <2>3. IsABag(posted) /\ DOMAIN posted \subseteq Events
    BY DEF Init, EmptyBag, SetToBag, IsABag
  <2> QED
    BY <2>2, <2>3 DEF Init, GoodsTyped
<1>2. BoxesTyped
  BY StockAssumption DEF Init, BoxesTyped, Statuses
<1>3. OrdersTyped
  BY StockAssumption DEF Init, OrdersTyped, Stages
<1>4. Numbers
  BY <1>1, <1>2, <1>3, StockAssumption DEF Numbers, Init
<1>5. ASSUME NEW w \in Warehouses PROVE ledger[InTransfer(w)] + pulled[w] = Owed(w)
  <2> DEFINE f == [o \in Orders |-> Outstanding(o)]   S == {o \in Orders : From[o] = w}
  <2>1. ledger[InTransfer(w)] = 0 /\ pulled[w] = 0
    BY DEF Init, InTransfer, Cells
  <2>2. IsFiniteSet(S)
    BY StockAssumption, FS_Subset
  <2>3. \A o \in S : f[o] = 0
    BY DEF Init, Outstanding
  <2>4. Owed(w) = SumFunctionOnSet(f, S)
    BY DEF Owed
  <2> HIDE DEF f, S
  <2>5. SumFunctionOnSet(f, S) = 0
    BY <2>2, <2>3, SumOfZeros
  <2> QED
    BY <2>1, <2>4, <2>5
<1>6. \A t \in Transactions : tx[t] = Idle /\ tx[t].held = {}
  BY DEF Init, Idle
<1> QED
  BY <1>4, <1>5, <1>6 DEF QInv, InTransitIsOwed, Apart, AtWork

\* What a step leaves alone of the boxes and orders outside R.
Kept(R) ==
  /\ \A b \in Boxes \ R : confirmed'[b] = confirmed[b]
  /\ \A o \in Orders \ R : order'[o] = order[o] /\ received'[o] = received[o] /\ lost'[o] = lost[o]

\* A command relies on the rows that it holds, and on what is free where it holds the lock.
LEMMA OthersRely ==
  ASSUME IInv, QInv, Numbers', NEW u \in Transactions, tx[u] # Idle, tx'[u] = tx[u],
         NEW R, Kept(R), tx[u].rows \cap R = {},
         \A w \in Warehouses : w \in tx[u].held => Available(w)' >= Available(w)
  PROVE  Meant(tx[u])' /\ Locked(tx[u])' /\ Fits(tx[u])'
<1>1. Holds(tx[u]) /\ Meant(tx[u]) /\ Locked(tx[u]) /\ Fits(tx[u])
  BY DEF IInv, RowsHeld, QInv, AtWork
<1>2. MeantForStock(tx[u])'
  BY <1>1 DEF Meant, MeantForStock, LosesOnHand
<1>3. MeantForOrders(tx[u])'
  BY <1>1 DEF Meant, MeantForOrders, Kept
<1>4. MeantForBoxes(tx[u])'
  <2>1. tx[u].kind \in BoxKinds => tx[u].of \in tx[u].rows
    BY <1>1 DEF Holds
  <2>2. tx[u].kind = "transfer" => tx[u].of[1] \in tx[u].rows /\ tx[u].of[2] \in tx[u].rows
    BY <1>1 DEF Holds
  <2> QED
    BY <1>1, <2>1, <2>2 DEF Meant, MeantForBoxes, Kept, BoxKinds
<1>5. Locked(tx[u])'
  BY <1>1 DEF Locked
<1>6. Fits(tx[u])'
  <2> SUFFICES ASSUME tx[u].pc = "read", tx[u].at \in tx[u].held
               PROVE  tx[u].saw \in Int /\ tx[u].saw <= Available(tx[u].at)'
    BY DEF Fits
  <2>1. tx[u].at \in Warehouses /\ tx[u].saw \in Int /\ tx[u].saw <= Available(tx[u].at)
    BY <1>1 DEF Locked, Fits
  <2>2. PICK w \in Warehouses : w = tx[u].at
    BY <2>1
  <2>3. Available(w)' >= Available(w)
    BY <2>2
  <2>4. Available(w) \in Int
    BY SumsTyped DEF QInv
  <2>5. Available(w)' \in Int
    BY NextTyped DEF FreeTyped
  <2> QED
    BY <2>1, <2>2, <2>3, <2>4, <2>5
<1> QED
  BY <1>2, <1>3, <1>4, <1>5, <1>6 DEF Meant

\* Nothing is written but what the transactions remember.
LEMMA NothingWritten ==
  ASSUME Numbers, UNCHANGED <<goods, boxes, orders, incidents>>
  PROVE  /\ Numbers' /\ \A R : Kept(R)
         /\ \A w \in Warehouses : Available(w)' = Available(w) /\ Available(w) \in Int
         /\ InTransitIsOwed => InTransitIsOwed'
<1>1. /\ UNCHANGED <<ledger, posted, pulled, box, confirmed, stripped, order, received, lost>>
      /\ UNCHANGED <<incidents, orders>>
  BY DEF goods, boxes, orders
<1>2. Numbers'
  BY <1>1 DEF Numbers, GoodsTyped, BoxesTyped, OrdersTyped
<1>3. \A R : Kept(R)
  BY <1>1 DEF Kept
<1>4. ASSUME NEW w \in Warehouses PROVE Available(w)' = Available(w) /\ Available(w) \in Int
  <2>1. Reserved(w)' = Reserved(w)
    BY <1>1, ReservedSame
  <2> QED
    BY <1>1, <2>1, SumsTyped DEF Available
<1>5. ASSUME InTransitIsOwed PROVE InTransitIsOwed'
  <2>1. \A w \in Warehouses : Owed(w)' = Owed(w)
    BY <1>1, OwedSame
  <2> QED
    BY <1>1, <1>5, <2>1 DEF InTransitIsOwed
<1> QED
  BY <1>2, <1>3, <1>4, <1>5

\* Only what one transaction remembers changes.
LEMMA OneWorks ==
  ASSUME IInv, QInv, NEW t \in Transactions, DOMAIN tx' = Transactions,
         \A u \in Transactions \ {t} : tx'[u] = tx[u],
         UNCHANGED <<goods, boxes, orders, incidents>>,
         \A u \in Transactions \ {t} : tx'[t].held \cap tx[u].held = {},
         tx'[t] # Idle => Meant(tx[t])' /\ Locked(tx[t])' /\ Fits(tx[t])'
  PROVE  QInv'
<1>1. /\ Numbers' /\ \A R : Kept(R)
      /\ \A w \in Warehouses : Available(w)' = Available(w) /\ Available(w) \in Int
      /\ InTransitIsOwed'
  BY NothingWritten DEF QInv
<1>2. Apart'
  BY DEF QInv, Apart
<1>3. AtWork'
  <2> SUFFICES ASSUME NEW u \in Transactions, tx'[u] # Idle
               PROVE  Meant(tx[u])' /\ Locked(tx[u])' /\ Fits(tx[u])'
    BY DEF AtWork
  <2>1. CASE u = t
    BY <2>1
  <2>2. CASE u # t
    <3>1. tx'[u] = tx[u] /\ tx[u] # Idle
      BY <2>2
    <3>2. Kept({}) /\ tx[u].rows \cap {} = {}
      BY <1>1
    <3>3. \A w \in Warehouses : w \in tx[u].held => Available(w)' >= Available(w)
      BY <1>1
    <3> QED
      BY <1>1, <3>1, <3>2, <3>3, OthersRely
  <2> QED
    BY <2>1, <2>2
<1> QED
  BY <1>1, <1>2, <1>3 DEF QInv

\* A command starts with no lock.
LEMMA StartsMeant ==
  ASSUME IInv, QInv, NEW t \in Transactions, NEW kind, NEW of, NEW rows,
         NEW stock \in SUBSET Warehouses, NEW at,
         NEW qty, NEW saw, Start(t, kind, of, rows, stock, at, qty, saw),
         Meant([pc |-> "locking", kind |-> kind, of |-> of, rows |-> rows, stock |-> stock,
                held |-> {}, at |-> at, qty |-> qty, saw |-> saw])
  PROVE  QInv'
<1> DEFINE x == [pc |-> "locking", kind |-> kind, of |-> of, rows |-> rows,
                 stock |-> stock, held |-> {}, at |-> at, qty |-> qty, saw |-> saw]
<1>1. /\ tx' = [tx EXCEPT ![t] = x] /\ UNCHANGED <<goods, boxes, orders, incidents>>
      /\ UNCHANGED <<confirmed, order, received, lost>>
  BY DEF Start, goods, boxes, orders
<1>2. /\ DOMAIN tx' = Transactions /\ tx'[t] = x
      /\ \A u \in Transactions \ {t} : tx'[u] = tx[u]
  BY <1>1 DEF IInv, Shapes
<1>3. x.held = {} /\ x.pc = "locking" /\ x.stock = stock
  OBVIOUS
<1>4. Meant(x)
  OBVIOUS
<1> HIDE DEF x
<1>5. Meant(x)'
  BY <1>1, <1>4 DEF Meant, MeantForStock, MeantForOrders, MeantForBoxes, LosesOnHand
<1>6. Meant(tx[t])'
  BY <1>2, <1>5 DEF Meant, MeantForStock, MeantForOrders, MeantForBoxes
<1>7. Locked(tx[t])' /\ Fits(tx[t])'
  BY <1>2, <1>3 DEF Locked, Fits
<1> QED
  BY <1>1, <1>2, <1>3, <1>6, <1>7, OneWorks

\* Every command starts with what Meant says.
LEMMA BeginMeant ==
  ASSUME IInv, QInv, NEW t \in Transactions, StartSomething(t)
  PROVE  QInv'
<1> DEFINE x(kind, of, rows, stock, at, qty, saw) ==
             [pc |-> "locking", kind |-> kind, of |-> of, rows |-> rows, stock |-> stock,
              held |-> {}, at |-> at, qty |-> qty, saw |-> saw]
<1> USE DEF Meant, MeantForStock, MeantForOrders, MeantForBoxes, BoxKinds
<1>0. /\ Home \in [Boxes -> Warehouses] /\ From \in [Orders -> Warehouses]
      /\ To \in [Orders -> Warehouses] /\ MaxQty \in Nat
  BY StockAssumption
<1>1. CASE StartAdjust(t)
  <2>1. PICK w \in Warehouses, q \in 1 .. MaxQty, kind \in {"adjustUp", "adjustDown", "count"} :
          Start(t, kind, w, {}, {w}, w, q, 0)
    BY <1>1 DEF StartAdjust
  <2>2. Meant(x(kind, w, {}, {w}, w, q, 0)) /\ {w} \in SUBSET Warehouses
    BY <1>0
  <2> HIDE DEF Meant
  <2> QED
    BY <2>1, <2>2, StartsMeant
<1>2. CASE StartReverse(t)
  <2>1. PICK e, at :
          /\ e \in DOMAIN posted
          /\ Start(t, "reverse", e, {e}, Places(e), at, e.qty, 0)
          /\ LosesOnHand(e) => at = e.to[2]
    BY <1>2 DEF StartReverse, BagToSet
  <2>2. e \in Events
    BY <2>1 DEF QInv, Numbers, GoodsTyped
  <2>3. /\ \A c \in {e.from, e.to} \ {Outside} : c[2] \in Warehouses
        /\ LosesOnHand(e) => e.to \in {e.from, e.to} \ {Outside}
    BY <2>2 DEF Events, Ends, Cells, LosesOnHand
  <2>4. Places(e) \in SUBSET Warehouses /\ (LosesOnHand(e) => e.to[2] \in Places(e))
    BY <2>3 DEF Places
  <2>5. Meant(x("reverse", e, {e}, Places(e), at, e.qty, 0))
    BY <2>1, <2>2, <2>4
  <2> HIDE DEF Meant
  <2> QED
    BY <2>1, <2>4, <2>5, StartsMeant
<1>3. ASSUME NEW o \in Orders, StartShip(t, o) PROVE QInv'
  <2>1. order[o] = "draft" /\ Start(t, "ship", o, {o}, {From[o]}, From[o], Planned[o], 0)
    BY <1>3 DEF StartShip
  <2>2. Meant(x("ship", o, {o}, {From[o]}, From[o], Planned[o], 0)) /\ {From[o]} \in SUBSET Warehouses
    BY <1>0, <2>1
  <2> HIDE DEF Meant
  <2> QED
    BY <2>1, <2>2, StartsMeant
<1>4. ASSUME NEW o \in Orders, StartReceive(t, o) PROVE QInv'
  <2>1. PICK r, l, saw :
          /\ r \in 0 .. Outstanding(o) /\ l \in 0 .. Outstanding(o)
          /\ order[o] \in {"shipped", "partially_received"} /\ r + l \in 1 .. Outstanding(o)
          /\ saw = <<received[o], lost[o]>>
          /\ Start(t, "receive", o, {o}, {From[o], To[o]}, From[o], <<r, l>>, saw)
    BY <1>4 DEF StartReceive
  <2>2. Outstanding(o) = Planned[o] - received[o] - lost[o]
    BY <2>1 DEF Outstanding
  <2>3. r \in Nat /\ l \in Nat /\ r + l <= Planned[o] - received[o] - lost[o]
    <3>1. Outstanding(o) \in Nat
      <4>1. PICK w \in Warehouses : w = From[o]
        BY <1>0
      <4> QED
        BY SumsTyped DEF QInv
    <3> QED
      BY <2>1, <2>2, <3>1
  <2>4. <<r, l>> \in Nat \X Nat /\ <<r, l>>[1] = r /\ <<r, l>>[2] = l
    BY <2>3
  <2>5. /\ Meant(x("receive", o, {o}, {From[o], To[o]}, From[o], <<r, l>>, saw))
        /\ {From[o], To[o]} \in SUBSET Warehouses
    BY <1>0, <2>1, <2>3, <2>4
  <2> HIDE DEF Meant
  <2> QED
    BY <2>1, <2>5, StartsMeant
<1>5. ASSUME NEW b \in Boxes,
             \/ StartReserve(t, b) \/ StartRelease(t, b) \/ StartShortPick(t, b)
             \/ StartDispatch(t, b) \/ StartRecall(t, b) \/ StartCancel(t, b)
      PROVE QInv'
  <2>0. confirmed[b] \in Nat
    BY DEF QInv, Numbers, BoxesTyped
  <2>1. PICK kind, q :
          /\ kind \in BoxKinds
          /\ Start(t, kind, b, {b}, {Home[b]}, Home[b], q, 0)
          /\ kind \in {"release", "shortPick", "cancel"} => q \in 0 .. confirmed[b]
          /\ kind \in {"dispatch", "recall"} => q = Qty[b]
    <3>1. CASE StartReserve(t, b)
      BY <3>1 DEF StartReserve
    <3>2. ASSUME NEW q \in 1 .. confirmed[b],
                 NEW kind \in {"release", "shortPick"},
                 Start(t, kind, b, {b}, {Home[b]}, Home[b], q, 0)
          PROVE  \E k, n :
                   /\ k \in BoxKinds
                   /\ Start(t, k, b, {b}, {Home[b]}, Home[b], n, 0)
                   /\ k \in {"release", "shortPick", "cancel"} => n \in 0 .. confirmed[b]
                   /\ k \in {"dispatch", "recall"} => n = Qty[b]
      <4>1. q \in 0 .. confirmed[b] /\ kind \in BoxKinds /\ kind \notin {"dispatch", "recall"}
        BY <2>0
      <4> QED
        BY <3>2, <4>1
    <3>3. CASE StartRelease(t, b) \/ StartShortPick(t, b)
      BY <3>2, <3>3 DEF StartRelease, StartShortPick
    <3>4. CASE StartDispatch(t, b) \/ StartRecall(t, b)
      BY <3>4 DEF StartDispatch, StartRecall
    <3>5. CASE StartCancel(t, b)
      <4>1. confirmed[b] \in 0 .. confirmed[b]
        BY <2>0
      <4>2. Start(t, "cancel", b, {b}, {Home[b]}, Home[b], confirmed[b], 0)
        BY <3>5 DEF StartCancel
      <4> QED
        BY <4>1, <4>2
    <3> QED
      BY <1>5, <3>1, <3>3, <3>4, <3>5
  <2>2. Meant(x(kind, b, {b}, {Home[b]}, Home[b], q, 0)) /\ {Home[b]} \in SUBSET Warehouses
    BY <1>0, <2>1
  <2> HIDE DEF Meant
  <2> QED
    BY <2>1, <2>2, StartsMeant
<1>6. ASSUME NEW b \in Boxes, NEW c \in Boxes, StartTransfer(t, b, c) PROVE QInv'
  <2>1. PICK q \in 1 .. confirmed[b] :
          /\ b # c /\ Home[b] = Home[c] /\ q <= Qty[c] - confirmed[c]
          /\ Start(t, "transfer", <<b, c>>, {b, c}, {Home[b]}, Home[b], q, 0)
    BY <1>6 DEF StartTransfer
  <2>2. q \in 0 .. confirmed[b] /\ <<b, c>>[1] = b /\ <<b, c>>[2] = c
    BY DEF QInv, Numbers, BoxesTyped
  <2>3. Meant(x("transfer", <<b, c>>, {b, c}, {Home[b]}, Home[b], q, 0)) /\ {Home[b]} \in SUBSET Warehouses
    BY <1>0, <2>1, <2>2
  <2> HIDE DEF Meant
  <2> QED
    BY <2>1, <2>3, StartsMeant
<1> QED
  BY <1>1, <1>2, <1>3, <1>4, <1>5, <1>6 DEF StartSomething

\* A command takes a lock that nobody holds, of its own pairs.
LEMMA AcquireRelies ==
  ASSUME IInv, QInv, NEW t \in Transactions, AcquireStockLock(t)
  PROVE  QInv'
<1>1. PICK w \in NextLocks(t) :
        /\ LockFree(w) /\ tx' = [tx EXCEPT ![t].held = @ \cup {w}]
        /\ UNCHANGED <<goods, boxes, orders, incidents>>
  BY DEF AcquireStockLock
<1>2. tx[t] # Idle /\ tx[t].pc = "locking" /\ tx[t].stock # tx[t].held /\ w = Min(tx[t].stock \ tx[t].held)
  BY <1>1 DEF NextLocks, Idle
<1>3. Meant(tx[t]) /\ Locked(tx[t])
  BY <1>2 DEF QInv, AtWork
<1>4. w \in tx[t].stock
  <2>1. tx[t].stock \ tx[t].held # {} /\ tx[t].stock \ tx[t].held \in SUBSET Nat
    BY <1>2, <1>3, StockAssumption DEF Locked
  <2> QED
    BY <1>2, <2>1, LeastIn
<1>5. /\ DOMAIN tx' = Transactions /\ tx'[t] = [tx[t] EXCEPT !.held = @ \cup {w}]
      /\ \A u \in Transactions \ {t} : tx'[u] = tx[u]
  BY <1>1 DEF IInv, Shapes
<1>6. DOMAIN tx[t] = Fields
  BY <1>2 DEF IInv, Shapes
<1>7. /\ tx'[t].kind = tx[t].kind /\ tx'[t].of = tx[t].of /\ tx'[t].rows = tx[t].rows
      /\ tx'[t].stock = tx[t].stock /\ tx'[t].at = tx[t].at /\ tx'[t].qty = tx[t].qty
      /\ tx'[t].saw = tx[t].saw /\ tx'[t].pc = "locking" /\ tx'[t].held = tx[t].held \cup {w}
  BY <1>2, <1>5, <1>6 DEF Fields
<1>8. UNCHANGED <<confirmed, order, received, lost>>
  BY <1>1 DEF boxes, orders
<1>9. Meant(tx[t])'
  BY <1>3, <1>7, <1>8 DEF Meant, MeantForStock, MeantForOrders, MeantForBoxes, LosesOnHand
<1>10. Locked(tx[t])' /\ Fits(tx[t])'
  BY <1>3, <1>4, <1>7 DEF Locked, Fits
<1>11. \A u \in Transactions \ {t} : tx'[t].held \cap tx[u].held = {}
  BY <1>1, <1>7 DEF LockFree, QInv, Apart
<1> QED
  BY <1>1, <1>5, <1>9, <1>10, <1>11, OneWorks

\* It reads what is free once it holds them all.
LEMMA ReadRelies ==
  ASSUME IInv, QInv, NEW t \in Transactions, ReadAvailability(t)
  PROVE  QInv'
<1> DEFINE v == Available(tx[t].at)
<1>1. /\ tx' = [tx EXCEPT ![t].pc = "read", ![t].saw = v] /\ tx[t].pc = "locking"
      /\ tx[t].held = tx[t].stock /\ tx[t].kind \in Guarded
      /\ UNCHANGED <<goods, boxes, orders, incidents>>
  BY DEF ReadAvailability
<1>a. \A w \in Warehouses : w = tx[t].at => v = Available(w)
  OBVIOUS
<1> HIDE DEF v
<1>2. tx[t] # Idle
  BY <1>1 DEF Idle
<1>3. Meant(tx[t]) /\ Locked(tx[t])
  BY <1>2 DEF QInv, AtWork
<1>4. /\ DOMAIN tx' = Transactions
      /\ tx'[t] = [[tx[t] EXCEPT !.pc = "read"] EXCEPT !.saw = v]
      /\ \A u \in Transactions \ {t} : tx'[u] = tx[u]
  BY <1>1 DEF IInv, Shapes
<1>5. DOMAIN tx[t] = Fields
  BY <1>2 DEF IInv, Shapes
<1>6. /\ tx'[t].kind = tx[t].kind /\ tx'[t].of = tx[t].of /\ tx'[t].rows = tx[t].rows
      /\ tx'[t].stock = tx[t].stock /\ tx'[t].at = tx[t].at /\ tx'[t].qty = tx[t].qty
      /\ tx'[t].saw = v /\ tx'[t].pc = "read" /\ tx'[t].held = tx[t].held
  BY <1>4, <1>5 DEF Fields
<1>7. UNCHANGED <<confirmed, order, received, lost>>
  BY <1>1 DEF boxes, orders
<1>8. Meant(tx[t])'
  <2>1. tx[t].kind # "receive"
    BY <1>1 DEF Guarded
  <2> QED
    BY <1>3, <1>6, <1>7, <2>1 DEF Meant, MeantForStock, MeantForOrders, MeantForBoxes, LosesOnHand
<1>9. Locked(tx[t])'
  BY <1>1, <1>3, <1>6 DEF Locked
<1>10. Fits(tx[t])'
  <2> SUFFICES ASSUME tx[t].at \in tx[t].held PROVE v \in Int /\ v <= Available(tx[t].at)'
    BY <1>6 DEF Fits
  <2>1. PICK w \in Warehouses : w = tx[t].at
    BY <1>3 DEF Locked
  <2>2. Available(w)' = Available(w) /\ Available(w) \in Int
    BY <1>1, NothingWritten DEF QInv
  <2> QED
    BY <1>6, <1>a, <2>1, <2>2
<1>11. \A u \in Transactions \ {t} : tx'[t].held \cap tx[u].held = {}
  BY <1>6 DEF QInv, Apart
<1> QED
  BY <1>1, <1>4, <1>8, <1>9, <1>10, <1>11, OneWorks

-----------------------------------------------------------------------------
(* Commands end *)

\* A commit takes from what is free only where it holds the lock, and only what is there;
\* but for a count.
Spares(t) ==
  \A w \in Warehouses :
    \/ Available(w)' >= Available(w)
    \/ /\ w \in tx[t].held
       /\ Available(w)' >= 0 \/ (tx[t].kind = "count" /\ tx[t].of = w)

Effect(t) == Numbers' /\ InTransitIsOwed' /\ Kept(tx[t].rows) /\ Spares(t)

\* What the others rely on survives the end of a command.
LEMMA EndRelies ==
  ASSUME IInv, QInv, NEW t \in Transactions, tx[t] # Idle, Done(t), Effect(t)
  PROVE  QInv'
<1>1. /\ DOMAIN tx' = Transactions /\ tx'[t] = Idle /\ tx'[t].held = {}
      /\ \A u \in Transactions \ {t} : tx'[u] = tx[u]
  BY DEF IInv, Shapes, Done, Idle
<1>2. Apart'
  BY <1>1 DEF QInv, Apart
<1>3. AtWork'
  <2> SUFFICES ASSUME NEW u \in Transactions, tx'[u] # Idle
               PROVE  Meant(tx[u])' /\ Locked(tx[u])' /\ Fits(tx[u])'
    BY DEF AtWork
  <2>1. u # t /\ tx'[u] = tx[u] /\ tx[u] # Idle
    BY <1>1
  <2>2. tx[u].rows \cap tx[t].rows = {} /\ tx[u].held \cap tx[t].held = {}
    BY <2>1 DEF IInv, Exclusive, QInv, Apart
  <2>3. \A w \in Warehouses : w \in tx[u].held => Available(w)' >= Available(w)
    BY <2>2 DEF Effect, Spares
  <2>4. Numbers' /\ Kept(tx[t].rows)
    BY DEF Effect
  <2> QED
    BY <2>1, <2>2, <2>3, <2>4, OthersRely
<1> QED
  BY <1>2, <1>3 DEF Effect, QInv

\* The cells are apart from each other and from what is outside.
LEMMA CellsApart ==
  ASSUME NEW w \in Warehouses
  PROVE  /\ OnHand(w) \in Cells /\ InTransfer(w) \in Cells
         /\ OnHand(w) \in Ends /\ InTransfer(w) \in Ends /\ Outside \in Ends
         /\ Outside # OnHand(w) /\ Outside # InTransfer(w)
         /\ \A v \in Warehouses : /\ OnHand(w) # InTransfer(v) /\ InTransfer(w) # OnHand(v)
                                  /\ OnHand(w) = OnHand(v) => w = v
                                  /\ InTransfer(w) = InTransfer(v) => w = v
  BY OutsideAssumption DEF OnHand, InTransfer, Cells, Ends

\* What a commit knows.
LEMMA AtCommit ==
  ASSUME IInv, QInv, NEW t \in Transactions, NEW kind, Ready(t, kind)
  PROVE  /\ tx[t] # Idle /\ tx[t].kind = kind /\ Holds(tx[t]) /\ Meant(tx[t])
         /\ tx[t].held = tx[t].stock /\ tx[t].stock \subseteq Warehouses
         /\ kind \in Guarded =>
              \A w \in Warehouses : tx[t].at = w /\ w \in tx[t].stock =>
                tx[t].saw \in Int /\ tx[t].saw <= Available(w) /\ Available(w) \in Int
<1>1. tx[t] # Idle /\ tx[t].kind = kind /\ tx[t].held = tx[t].stock
  BY DEF Ready, Idle
<1>2. Holds(tx[t]) /\ Meant(tx[t]) /\ Locked(tx[t]) /\ Fits(tx[t])
  BY <1>1 DEF IInv, RowsHeld, QInv, AtWork
<1>3. ASSUME kind \in Guarded, NEW w \in Warehouses, tx[t].at = w, w \in tx[t].stock
      PROVE  tx[t].saw \in Int /\ tx[t].saw <= Available(w) /\ Available(w) \in Int
  <2>1. tx[t].pc = "read"
    BY <1>3 DEF Ready
  <2>2. Available(w) \in Int
    BY SumsTyped DEF QInv
  <2> QED
    BY <1>1, <1>2, <1>3, <2>1, <2>2 DEF Fits
<1> QED
  BY <1>1, <1>2, <1>3 DEF Locked

\* pulled makes up for what leaves and enters what is in transit.
Pulls(a, z, q) ==
  /\ pulled' \in [Warehouses -> Int]
  /\ \A w \in Warehouses :
       pulled'[w] = pulled[w] + (IF a = InTransfer(w) THEN q ELSE 0)
                              - (IF z = InTransfer(w) THEN q ELSE 0)

\* What is free follows the stock on hand.
Moves(a, z, q) ==
  \A w \in Warehouses :
    /\ Available(w) \in Int
    /\ Available(w)' = Available(w) - (IF a = OnHand(w) THEN q ELSE 0)
                                    + (IF z = OnHand(w) THEN q ELSE 0)

\* A commit that moves stock, and nothing of the boxes and orders: what is in transit is
\* still what is owed.
LEMMA StockEnds ==
  ASSUME IInv, QInv, NEW t \in Transactions, UNCHANGED <<boxes, orders>>,
         NEW a \in Ends, NEW z \in Ends, NEW q \in Nat, Project({Event(a, z, q)}),
         IsABag(posted') /\ DOMAIN posted' \subseteq Events,
         incidents' \in 0 .. MaxIncidents, Pulls(a, z, q)
  PROVE  Numbers' /\ InTransitIsOwed' /\ Kept(tx[t].rows) /\ Moves(a, z, q)
<1>0. GoodsTyped /\ BoxesTyped /\ OrdersTyped
  BY DEF QInv, Numbers
<1>1. /\ ledger' \in [Cells -> Nat]
      /\ \A c \in Cells :
           ledger'[c] = ledger[c] - (IF a = c THEN q ELSE 0) + (IF z = c THEN q ELSE 0)
  BY <1>0, MovesOne
<1>2. UNCHANGED <<box, confirmed, stripped, order, received, lost>>
  BY DEF boxes, orders
<1>3. Numbers'
  BY <1>0, <1>1, <1>2 DEF Numbers, GoodsTyped, BoxesTyped, OrdersTyped, Pulls
<1>4. Kept(tx[t].rows)
  BY <1>2 DEF Kept
<1>5. ASSUME NEW w \in Warehouses
      PROVE  /\ Available(w) \in Int
             /\ Available(w)' = Available(w) - (IF a = OnHand(w) THEN q ELSE 0)
                                             + (IF z = OnHand(w) THEN q ELSE 0)
  <2>1. Reserved(w)' = Reserved(w) /\ Reserved(w) \in Nat
    BY <1>2, ReservedSame, SumsTyped DEF QInv
  <2>2. OnHand(w) \in Cells
    BY CellsApart
  <2>3. ledger[OnHand(w)] \in Nat
    BY <1>0, <2>2 DEF GoodsTyped
  <2>4. Available(w)' = ledger'[OnHand(w)] - Reserved(w)'
    BY DEF Available, OnHand
  <2>5. ledger'[OnHand(w)] = ledger[OnHand(w)] - (IF a = OnHand(w) THEN q ELSE 0)
                                             + (IF z = OnHand(w) THEN q ELSE 0)
    BY <1>1, <2>2
  <2> QED
    BY <2>1, <2>3, <2>4, <2>5 DEF Available
<1>6. ASSUME NEW w \in Warehouses PROVE ledger'[InTransfer(w)] + pulled'[w] = Owed(w)'
  <2>1. Owed(w)' = Owed(w)
    BY OwedSame
  <2>2. InTransfer(w) \in Cells
    BY CellsApart
  <2>3. ledger[InTransfer(w)] \in Nat /\ pulled[w] \in Int
    BY <1>0, <2>2 DEF GoodsTyped
  <2>4. ledger[InTransfer(w)] + pulled[w] = Owed(w)
    BY DEF QInv, InTransitIsOwed
  <2>5. ledger'[InTransfer(w)] = ledger[InTransfer(w)] - (IF a = InTransfer(w) THEN q ELSE 0)
                                             + (IF z = InTransfer(w) THEN q ELSE 0)
    BY <1>1, <2>2
  <2>6. pulled'[w] = pulled[w] + (IF a = InTransfer(w) THEN q ELSE 0)
                               - (IF z = InTransfer(w) THEN q ELSE 0)
    BY DEF Pulls
  <2> QED
    BY <2>1, <2>3, <2>4, <2>5, <2>6
<1>7. InTransitIsOwed'
  BY <1>6 DEF InTransitIsOwed, InTransfer
<1> QED
  BY <1>3, <1>4, <1>5, <1>7 DEF Moves

LEMMA IncidentTyped ==
  ASSUME Numbers, Incident
  PROVE  incidents' \in 0 .. MaxIncidents
  BY StockAssumption DEF Numbers, Incident

LEMMA NothingPulled ==
  ASSUME QInv, UNCHANGED pulled, NEW a, NEW z, NEW q \in Nat,
         \A w \in Warehouses : a # InTransfer(w) /\ z # InTransfer(w)
  PROVE  Pulls(a, z, q)
  BY DEF QInv, Numbers, GoodsTyped, Pulls

LEMMA AdjustUpEnds ==
  ASSUME IInv, QInv, NEW t \in Transactions, AdjustUp(t)
  PROVE  tx[t] # Idle /\ Done(t) /\ Effect(t)
<1>1. PICK a, z, q :
        /\ a = Outside /\ z = OnHand(tx[t].of) /\ q = tx[t].qty
        /\ Ready(t, "adjustUp") /\ Incident /\ Done(t) /\ UNCHANGED <<boxes, orders, pulled>>
        /\ Project({Event(a, z, q)}) /\ posted' = posted (+) SetToBag({Event(a, z, q)})
  BY DEF AdjustUp, Post
<1>2. tx[t] # Idle /\ tx[t].of \in Warehouses /\ q \in Nat
  BY <1>1, AtCommit DEF Meant, MeantForStock
<1>3. /\ a \in Ends /\ z \in Ends
      /\ \A w \in Warehouses : a # InTransfer(w) /\ z # InTransfer(w) /\ a # OnHand(w)
  BY <1>1, <1>2, CellsApart
<1>4. incidents' \in 0 .. MaxIncidents
  BY <1>1, IncidentTyped DEF QInv
<1>5. {Event(a, z, q)} \subseteq Events
  BY <1>2, <1>3 DEF Event, Events
<1>6. IsABag(posted') /\ DOMAIN posted' \subseteq Events
  BY <1>1, <1>5, PostTyped DEF QInv, Numbers
<1>7. Pulls(a, z, q)
  BY <1>1, <1>2, <1>3, NothingPulled
<1>8. Numbers' /\ InTransitIsOwed' /\ Kept(tx[t].rows) /\ Moves(a, z, q)
  BY <1>1, <1>2, <1>3, <1>4, <1>6, <1>7, StockEnds
<1>9. \A w \in Warehouses : Available(w)' >= Available(w)
  BY <1>2, <1>3, <1>8 DEF Moves
<1> QED
  BY <1>1, <1>2, <1>8, <1>9 DEF Effect, Spares

LEMMA AdjustDownEnds ==
  ASSUME IInv, QInv, NEW t \in Transactions, AdjustDown(t)
  PROVE  tx[t] # Idle /\ Done(t) /\ Effect(t)
<1>1. PICK a, z, q, kind :
        /\ a = OnHand(tx[t].of) /\ z = Outside /\ q = tx[t].qty
        /\ kind \in {"adjustDown", "count"} /\ Ready(t, kind) /\ Incident /\ Done(t)
        /\ UNCHANGED <<boxes, orders, pulled>>
        /\ Project({Event(a, z, q)}) /\ posted' = posted (+) SetToBag({Event(a, z, q)})
        /\ tx[t].kind = "adjustDown" => tx[t].saw - q >= 0
  BY DEF AdjustDown, Post
<1>2. /\ tx[t] # Idle /\ tx[t].kind = kind /\ tx[t].held = tx[t].stock
      /\ tx[t].of \in Warehouses /\ q \in Nat
      /\ tx[t].stock = {tx[t].of} /\ tx[t].at = tx[t].of
  BY <1>1, AtCommit DEF Meant, MeantForStock
<1>3. /\ a \in Ends /\ z \in Ends
      /\ \A w \in Warehouses : a # InTransfer(w) /\ z # InTransfer(w) /\ z # OnHand(w)
      /\ \A w \in Warehouses : a = OnHand(w) => w = tx[t].of
  BY <1>1, <1>2, CellsApart
<1>4. incidents' \in 0 .. MaxIncidents
  BY <1>1, IncidentTyped DEF QInv
<1>5. {Event(a, z, q)} \subseteq Events
  BY <1>2, <1>3 DEF Event, Events
<1>6. IsABag(posted') /\ DOMAIN posted' \subseteq Events
  BY <1>1, <1>5, PostTyped DEF QInv, Numbers
<1>7. Pulls(a, z, q)
  BY <1>1, <1>2, <1>3, NothingPulled
<1>8. Numbers' /\ InTransitIsOwed' /\ Kept(tx[t].rows) /\ Moves(a, z, q)
  BY <1>1, <1>2, <1>3, <1>4, <1>6, <1>7, StockEnds
<1>9. Spares(t)
  <2> SUFFICES ASSUME NEW w \in Warehouses, ~(Available(w)' >= Available(w))
               PROVE  /\ w \in tx[t].held
                      /\ Available(w)' >= 0 \/ (tx[t].kind = "count" /\ tx[t].of = w)
    BY DEF Spares
  <2>1. /\ Available(w) \in Int
        /\ Available(w)' = Available(w) - (IF a = OnHand(w) THEN q ELSE 0)
    BY <1>3, <1>8, <1>2 DEF Moves
  <2>2. a = OnHand(w) /\ w = tx[t].of
    BY <1>3, <2>1
  <2>3. CASE kind = "adjustDown"
    <3>1. tx[t].saw \in Int /\ tx[t].saw <= Available(w)
      BY <1>1, <1>2, <2>2, <2>3, AtCommit DEF Guarded
    <3> QED
      BY <1>1, <1>2, <2>1, <2>2, <2>3, <3>1
  <2> QED
    BY <1>1, <1>2, <2>2, <2>3
<1> QED
  BY <1>1, <1>2, <1>8, <1>9 DEF Effect

LEMMA ReverseEnds ==
  ASSUME IInv, QInv, NEW t \in Transactions, Reverse(t)
  PROVE  tx[t] # Idle /\ Done(t) /\ Effect(t)
<1>1. PICK e, a, z, q :
        /\ e = tx[t].of /\ a = e.to /\ z = e.from /\ q = e.qty
        /\ Ready(t, "reverse") /\ Incident /\ Done(t) /\ UNCHANGED <<boxes, orders>>
        /\ LosesOnHand(e) => tx[t].saw - q >= 0
        /\ Project({Event(a, z, q)})
        /\ posted' = (posted (-) SetToBag({e})) (+) SetToBag({Event(a, z, q)})
  BY DEF Reverse
<1>2. /\ tx[t] # Idle /\ tx[t].held = tx[t].stock /\ e \in Events
      /\ LosesOnHand(e) => tx[t].at = e.to[2] /\ tx[t].at \in tx[t].stock
  BY <1>1, AtCommit DEF Meant, MeantForStock
<1>3. a \in Ends /\ z \in Ends /\ q \in Nat /\ Event(a, z, q) \in Events
  BY <1>1, <1>2 DEF Events, Event
<1>4. incidents' \in 0 .. MaxIncidents
  BY <1>1, IncidentTyped DEF QInv
<1>5. IsABag(posted') /\ DOMAIN posted' \subseteq Events
  BY <1>1, <1>2, <1>3, ReverseTyped DEF QInv, Numbers
<1>6. Pulls(a, z, q)
  <2>1. \A w \in Warehouses : pulled[w] \in Int
    BY DEF QInv, Numbers, GoodsTyped
  <2>2. \A w \in Warehouses : pulled[w] + (IF a = InTransfer(w) THEN q ELSE 0)
                                - (IF z = InTransfer(w) THEN q ELSE 0) \in Int
    BY <1>3, <2>1
  <2>3. pulled' = [w \in Warehouses |-> pulled[w]
                     + (IF e.to = InTransfer(w) THEN e.qty ELSE 0)
                     - (IF e.from = InTransfer(w) THEN e.qty ELSE 0)]
    BY <1>1, Zenon DEF Reverse
  <2>4. /\ \A w \in Warehouses : pulled'[w] = pulled[w] + (IF a = InTransfer(w) THEN q ELSE 0)
                                                     - (IF z = InTransfer(w) THEN q ELSE 0)
        /\ pulled' = [w \in Warehouses |-> pulled'[w]]
    BY <1>1, <2>3
  <2> QED
    BY <2>2, <2>4 DEF Pulls
<1>7. Numbers' /\ InTransitIsOwed' /\ Kept(tx[t].rows) /\ Moves(a, z, q)
  BY <1>1, <1>2, <1>3, <1>4, <1>5, <1>6, StockEnds
<1>8. Spares(t)
  <2> SUFFICES ASSUME NEW w \in Warehouses, ~(Available(w)' >= Available(w))
               PROVE  w \in tx[t].held /\ Available(w)' >= 0
    BY DEF Spares
  <2>1. /\ Available(w) \in Int
        /\ Available(w)' = Available(w) - (IF a = OnHand(w) THEN q ELSE 0)
                                        + (IF z = OnHand(w) THEN q ELSE 0)
    BY <1>7 DEF Moves
  <2>2. a = OnHand(w) /\ Available(w)' = Available(w) - q
    BY <1>3, <2>1
  <2>3. LosesOnHand(e) /\ e.to[2] = w
    BY <1>1, <2>2, CellsApart DEF LosesOnHand, OnHand
  <2>4. w = tx[t].at /\ w \in tx[t].stock /\ tx[t].saw \in Int /\ tx[t].saw <= Available(w)
    BY <1>1, <1>2, <2>3, AtCommit DEF Guarded
  <2> QED
    BY <1>1, <1>2, <1>3, <2>1, <2>2, <2>3, <2>4
<1> QED
  BY <1>1, <1>2, <1>7, <1>8 DEF Effect

\* The goods of an order leave for the way, and are owed.
LEMMA ShipEnds ==
  ASSUME IInv, QInv, NEW t \in Transactions, ShipOrder(t)
  PROVE  tx[t] # Idle /\ Done(t) /\ Effect(t)
<1>1. PICK o, v, a, z, q :
        /\ o = tx[t].of /\ v = From[o] /\ a = OnHand(v) /\ z = InTransfer(v) /\ q = tx[t].qty
        /\ Ready(t, "ship") /\ tx[t].saw - q >= 0 /\ Done(t)
        /\ Project({Event(a, z, q)}) /\ posted' = posted (+) SetToBag({Event(a, z, q)})
        /\ order' = [order EXCEPT ![o] = "shipped"]
        /\ UNCHANGED <<boxes, received, lost, pulled, incidents>>
  BY DEF ShipOrder, Post
<1>2. /\ tx[t] # Idle /\ tx[t].held = tx[t].stock /\ tx[t].rows = {o}
      /\ o \in Orders /\ order[o] = "draft" /\ q = Planned[o]
      /\ tx[t].at = v /\ tx[t].stock = {v}
  BY <1>1, AtCommit DEF Meant, MeantForOrders
<1>3. v \in Warehouses /\ q \in Nat /\ a \in Ends /\ z \in Ends
  <2>1. v \in Warehouses /\ q \in Nat
    BY <1>1, <1>2, StockAssumption
  <2> QED
    BY <1>1, <2>1, CellsApart
<1>4. GoodsTyped /\ BoxesTyped /\ OrdersTyped /\ incidents \in 0 .. MaxIncidents
  BY DEF QInv, Numbers
<1>5. /\ ledger' \in [Cells -> Nat]
      /\ \A c \in Cells :
           ledger'[c] = ledger[c] - (IF a = c THEN q ELSE 0) + (IF z = c THEN q ELSE 0)
  BY <1>1, <1>3, <1>4, MovesOne
<1>6. IsABag(posted') /\ DOMAIN posted' \subseteq Events
  <2>1. {Event(a, z, q)} \subseteq Events
    BY <1>3 DEF Event, Events
  <2> QED
    BY <1>1, <1>4, <2>1, PostTyped
<1>7. UNCHANGED <<box, confirmed, stripped>>
  BY <1>1 DEF boxes
<1>8. order'[o] = "shipped" /\ \A p \in Orders \ {o} : order'[p] = order[p]
  BY <1>1, <1>2, <1>4 DEF OrdersTyped
<1>9. OrdersTyped'
  BY <1>1, <1>4, <1>8 DEF OrdersTyped, Stages
<1>10. Numbers'
  BY <1>1, <1>4, <1>5, <1>6, <1>7, <1>9 DEF Numbers, GoodsTyped, BoxesTyped
<1>11. Kept(tx[t].rows)
  BY <1>1, <1>2, <1>7, <1>8 DEF Kept
<1>12. Outstanding(o) = 0 /\ Outstanding(o)' = q
  <2>1. received[o] = 0 /\ lost[o] = 0 /\ received'[o] = 0 /\ lost'[o] = 0
    BY <1>1, <1>2, <1>4 DEF OrdersTyped
  <2> QED
    BY <1>2, <1>3, <1>8, <2>1 DEF Outstanding
<1>13. ASSUME NEW w \in Warehouses PROVE ledger'[InTransfer(w)] + pulled'[w] = Owed(w)'
  <2>1. Owed(w)' = IF v = w THEN Owed(w) - Outstanding(o) + Outstanding(o)' ELSE Owed(w)
    BY <1>1, <1>2, <1>8, <1>10, OwedChanges DEF QInv
  <2>2. Owed(w) \in Nat
    BY SumsTyped DEF QInv
  <2>3. InTransfer(w) \in Cells /\ a # InTransfer(w) /\ (z = InTransfer(w) <=> v = w)
    BY <1>1, <1>3, CellsApart
  <2>4. ledger[InTransfer(w)] \in Nat /\ pulled[w] \in Int
    BY <1>4, <2>3 DEF GoodsTyped
  <2>5. ledger[InTransfer(w)] + pulled[w] = Owed(w)
    BY DEF QInv, InTransitIsOwed
  <2>6. ledger'[InTransfer(w)] = ledger[InTransfer(w)] + (IF v = w THEN q ELSE 0)
    BY <1>3, <1>5, <2>3, <2>4
  <2> QED
    BY <1>1, <1>3, <1>12, <2>1, <2>2, <2>4, <2>5, <2>6
<1>14. InTransitIsOwed'
  BY <1>13 DEF InTransitIsOwed, InTransfer
<1>15. Spares(t)
  <2> SUFFICES ASSUME NEW w \in Warehouses
               PROVE  \/ Available(w)' >= Available(w)
                      \/ w \in tx[t].held /\ Available(w)' >= 0
    BY DEF Spares
  <2>1. Reserved(w)' = Reserved(w) /\ Reserved(w) \in Nat /\ Available(w) \in Int
    BY <1>7, ReservedSame, SumsTyped DEF QInv
  <2>2. OnHand(w) \in Cells /\ z # OnHand(w) /\ (a = OnHand(w) <=> v = w)
    BY <1>1, <1>3, CellsApart
  <2>3. ledger[OnHand(w)] \in Nat
    BY <1>4, <2>2 DEF GoodsTyped
  <2>4. ledger'[OnHand(w)] = ledger[OnHand(w)] - (IF v = w THEN q ELSE 0)
    BY <1>3, <1>5, <2>2, <2>3
  <2>5. Available(w)' = ledger'[OnHand(w)] - Reserved(w)'
    BY DEF Available, OnHand
  <2>6. Available(w)' = Available(w) - (IF v = w THEN q ELSE 0)
    BY <1>3, <2>1, <2>3, <2>4, <2>5 DEF Available
  <2>7. CASE v = w
    <3>1. tx[t].saw \in Int /\ tx[t].saw <= Available(w)
      BY <1>1, <1>2, <2>7, AtCommit DEF Guarded
    <3> QED
      BY <1>1, <1>2, <1>3, <2>1, <2>6, <2>7, <3>1
  <2> QED
    BY <2>1, <2>6, <2>7
<1> QED
  BY <1>1, <1>2, <1>10, <1>11, <1>14, <1>15 DEF Effect

\* What arrives or is lost is owed no more.
LEMMA ReceiveEnds ==
  ASSUME IInv, QInv, NEW t \in Transactions, ReceiveOrder(t)
  PROVE  tx[t] # Idle /\ Done(t) /\ Effect(t)
<1>1. PICK o, v, a, y, r, l, got, gone, es :
        /\ o = tx[t].of /\ v = From[o] /\ a = InTransfer(v) /\ y = OnHand(To[o])
        /\ r = tx[t].qty[1] /\ l = tx[t].qty[2]
        /\ got = tx[t].saw[1] + r /\ gone = tx[t].saw[2] + l
        /\ es = {e \in {Event(a, y, r), Event(a, Outside, l)} : e.qty > 0}
        /\ Ready(t, "receive") /\ Done(t) /\ Project(es) /\ posted' = posted (+) SetToBag(es)
        /\ received' = [received EXCEPT ![o] = got] /\ lost' = [lost EXCEPT ![o] = gone]
        /\ order' = [order EXCEPT ![o] =
             IF got + gone = Planned[o] THEN "closed" ELSE "partially_received"]
        /\ UNCHANGED <<boxes, pulled, incidents>>
  BY DEF ReceiveOrder, Post
<1>2. /\ tx[t] # Idle /\ tx[t].rows = {o} /\ o \in Orders
      /\ order[o] \in {"shipped", "partially_received"}
      /\ tx[t].saw = <<received[o], lost[o]>> /\ tx[t].qty \in Nat \X Nat
      /\ tx[t].qty[1] + tx[t].qty[2] <= Planned[o] - received[o] - lost[o]
  BY <1>1, AtCommit DEF Meant, MeantForOrders
<1>3. GoodsTyped /\ BoxesTyped /\ OrdersTyped /\ incidents \in 0 .. MaxIncidents
  BY DEF QInv, Numbers
<1>4. /\ r \in Nat /\ l \in Nat /\ received[o] \in Nat /\ lost[o] \in Nat /\ Planned[o] \in Nat
      /\ got = received[o] + r /\ gone = lost[o] + l
      /\ r + l <= Planned[o] - received[o] - lost[o]
  <2>1. received[o] \in Nat /\ lost[o] \in Nat /\ Planned[o] \in Nat
    BY <1>2, <1>3, StockAssumption DEF OrdersTyped
  <2>2. r = tx[t].qty[1] /\ l = tx[t].qty[2] /\ r \in Nat /\ l \in Nat
    BY <1>1, <1>2
  <2>3. got = received[o] + r /\ gone = lost[o] + l
    BY <1>1, <1>2
  <2> QED
    BY <1>2, <2>1, <2>2, <2>3
<1>5. /\ v \in Warehouses /\ a \in Ends /\ y \in Ends /\ Outside \in Ends
      /\ y # Outside /\ \A w \in Warehouses : Outside # OnHand(w) /\ Outside # InTransfer(w)
      /\ \A w \in Warehouses : y # InTransfer(w) /\ a # OnHand(w)
      /\ \A w \in Warehouses : a = InTransfer(w) <=> v = w
  <2>1. From[o] \in Warehouses /\ To[o] \in Warehouses
    BY <1>2, StockAssumption
  <2> QED
    BY <1>1, <2>1, CellsApart
<1>6. /\ ledger' \in [Cells -> Nat]
      /\ \A c \in Cells : ledger'[c] = ledger[c] - (IF a = c THEN r + l ELSE 0)
                            + (IF y = c THEN r ELSE 0) + (IF Outside = c THEN l ELSE 0)
  <2>1. Project(TwoEvents(a, y, Outside, r, l))
    BY <1>1 DEF TwoEvents
  <2>2. GoodsTyped /\ y # Outside /\ r \in Nat /\ l \in Nat
    BY <1>3, <1>4, <1>5
  <2>3. BothMove(a, y, Outside, r, l)
    BY <2>1, <2>2, MovesTwo
  <2> QED
    BY <2>3 DEF BothMove
<1>7. IsABag(posted') /\ DOMAIN posted' \subseteq Events
  <2>1. Event(a, y, r) \in Events /\ Event(a, Outside, l) \in Events
    BY <1>4, <1>5 DEF Event, Events
  <2>2. es \subseteq Events
    BY <1>1, <2>1
  <2>3. posted' = posted (+) SetToBag(es)
    BY <1>1
  <2> QED
    BY <1>3, <2>2, <2>3, PostTyped
<1>8. UNCHANGED <<box, confirmed, stripped>>
  BY <1>1 DEF boxes
<1>9. /\ received'[o] = got /\ lost'[o] = gone /\ order'[o] \in {"closed", "partially_received"}
      /\ DOMAIN received' = Orders /\ DOMAIN lost' = Orders /\ DOMAIN order' = Orders
      /\ received' = [p \in Orders |-> received'[p]] /\ lost' = [p \in Orders |-> lost'[p]]
      /\ order' = [p \in Orders |-> order'[p]]
      /\ \A p \in Orders \ {o} :
           order'[p] = order[p] /\ received'[p] = received[p] /\ lost'[p] = lost[p]
  BY <1>1, <1>2, <1>3 DEF OrdersTyped
<1>10. OrdersTyped'
  <2>1. got \in Nat /\ gone \in Nat /\ got + gone <= Planned[o]
    BY <1>4
  <2>2. \A p \in Orders :
          /\ order'[p] \in Stages /\ received'[p] \in Nat /\ lost'[p] \in Nat
          /\ received'[p] + lost'[p] <= Planned[p]
          /\ order'[p] = "draft" => received'[p] = 0 /\ lost'[p] = 0
    <3> SUFFICES ASSUME NEW p \in Orders
                 PROVE  /\ order'[p] \in Stages /\ received'[p] \in Nat /\ lost'[p] \in Nat
                        /\ received'[p] + lost'[p] <= Planned[p]
                        /\ order'[p] = "draft" => received'[p] = 0 /\ lost'[p] = 0
      OBVIOUS
    <3>1. CASE p = o
      BY <1>9, <2>1, <3>1 DEF Stages
    <3>2. CASE p # o
      BY <1>3, <1>9, <3>2 DEF OrdersTyped
    <3> QED
      BY <3>1, <3>2
  <2> QED
    BY <1>9, <2>2 DEF OrdersTyped
<1>11. Numbers'
  BY <1>1, <1>3, <1>6, <1>7, <1>8, <1>10 DEF Numbers, GoodsTyped, BoxesTyped
<1>12. Kept(tx[t].rows)
  BY <1>2, <1>8, <1>9 DEF Kept
<1>13. Outstanding(o) \in Nat /\ Outstanding(o)' = Outstanding(o) - (r + l)
  <2>1. Outstanding(o) = Planned[o] - received[o] - lost[o]
    BY <1>2 DEF Outstanding
  <2>2. Outstanding(o)' = Planned[o] - got - gone
    BY <1>9 DEF Outstanding
  <2> QED
    BY <1>4, <2>1, <2>2
<1>14. ASSUME NEW w \in Warehouses PROVE ledger'[InTransfer(w)] + pulled'[w] = Owed(w)'
  <2>1. Owed(w)' = IF v = w THEN Owed(w) - Outstanding(o) + Outstanding(o)' ELSE Owed(w)
    <3>1. /\ v = From[o] /\ o \in Orders
          /\ \A p \in Orders \ {o} :
               order'[p] = order[p] /\ received'[p] = received[p] /\ lost'[p] = lost[p]
      BY <1>1, <1>2, <1>9
    <3> QED
      BY <1>11, <3>1, OwedChanges DEF QInv
  <2>2. Owed(w) \in Nat
    BY SumsTyped DEF QInv
  <2>3. InTransfer(w) \in Cells
    BY CellsApart
  <2>4. ledger[InTransfer(w)] \in Nat /\ pulled[w] \in Int
    BY <1>3, <2>3 DEF GoodsTyped
  <2>5. ledger[InTransfer(w)] + pulled[w] = Owed(w)
    BY DEF QInv, InTransitIsOwed
  <2>6. ledger'[InTransfer(w)] = ledger[InTransfer(w)] - (IF v = w THEN r + l ELSE 0)
    BY <1>4, <1>5, <1>6, <2>3, <2>4
  <2> QED
    BY <1>1, <1>4, <1>13, <2>1, <2>2, <2>4, <2>5, <2>6
<1>15. InTransitIsOwed'
  BY <1>14 DEF InTransitIsOwed, InTransfer
<1>16. ASSUME NEW w \in Warehouses PROVE Available(w)' >= Available(w)
  <2>1. Reserved(w)' = Reserved(w) /\ Reserved(w) \in Nat
    BY <1>8, ReservedSame, SumsTyped DEF QInv
  <2>2. OnHand(w) \in Cells
    BY CellsApart
  <2>3. ledger[OnHand(w)] \in Nat
    BY <1>3, <2>2 DEF GoodsTyped
  <2>4. ledger'[OnHand(w)] >= ledger[OnHand(w)] /\ ledger'[OnHand(w)] \in Nat
    BY <1>4, <1>5, <1>6, <2>2, <2>3
  <2>5. Available(w)' = ledger'[OnHand(w)] - Reserved(w)'
    BY DEF Available, OnHand
  <2> QED
    BY <2>1, <2>3, <2>4, <2>5 DEF Available
<1> QED
  BY <1>1, <1>2, <1>11, <1>12, <1>15, <1>16 DEF Effect, Spares

\* The box b now has n reserved.
Writes(b, n) ==
  /\ box' \in [Boxes -> Statuses] /\ n \in 0 .. Qty[b]
  /\ confirmed' \in [Boxes -> Nat] /\ confirmed'[b] = n
  /\ \A c \in Boxes \ {b} : confirmed'[c] = confirmed[c]
  /\ stripped' \in [Boxes -> Nat] /\ \A c \in Boxes : stripped'[c] <= Qty[c]

\* What is free follows what it gives up.
Frees(b, n) ==
  \A w \in Warehouses :
    /\ Available(w) \in Int
    /\ Available(w)' = IF Home[b] = w THEN Available(w) + confirmed[b] - n ELSE Available(w)

\* So does what is reserved.
Reserves(b, n) ==
  \A w \in Warehouses :
    /\ Reserved(w) \in Nat /\ ledger[OnHand(w)] \in Nat
    /\ Reserved(w)' = IF Home[b] = w THEN Reserved(w) - confirmed[b] + n ELSE Reserved(w)

TransitStays == \A w \in Warehouses : ledger'[InTransfer(w)] = ledger[InTransfer(w)]

\* A commit that changes the reservations of one box.
LEMMA BoxEnds ==
  ASSUME IInv, QInv, NEW b \in Boxes, UNCHANGED orders, NEW n, Writes(b, n),
         ledger' \in [Cells -> Nat], IsABag(posted') /\ DOMAIN posted' \subseteq Events,
         pulled' = pulled, incidents' \in 0 .. MaxIncidents, TransitStays
  PROVE  /\ Numbers' /\ InTransitIsOwed' /\ Kept({b})
         /\ confirmed[b] \in Nat /\ confirmed[b] <= Qty[b] /\ Reserves(b, n)
<1>1. GoodsTyped /\ BoxesTyped /\ OrdersTyped
  BY DEF QInv, Numbers
<1>2. Qty[b] \in Nat /\ n \in Nat /\ n <= Qty[b]
  BY StockAssumption DEF Writes
<1>3. /\ confirmed' \in [Boxes -> Nat] /\ confirmed'[b] = n
      /\ \A c \in Boxes \ {b} : confirmed'[c] = confirmed[c]
  BY <1>1, <1>2 DEF BoxesTyped, Writes
<1>4. BoxesTyped'
  BY <1>1, <1>2, <1>3 DEF BoxesTyped, Writes
<1>5. UNCHANGED <<order, received, lost>>
  BY DEF orders
<1>6. OrdersTyped'
  BY <1>1, <1>5 DEF OrdersTyped
<1>7. GoodsTyped'
  BY <1>1 DEF GoodsTyped
<1>8. Numbers'
  BY <1>4, <1>6, <1>7 DEF Numbers
<1>9. Kept({b})
  BY <1>3, <1>5 DEF Kept
<1>10. ASSUME NEW w \in Warehouses PROVE ledger'[InTransfer(w)] + pulled'[w] = Owed(w)'
  <2>1. Owed(w)' = Owed(w)
    BY OwedSame
  <2>2. ledger[InTransfer(w)] + pulled[w] = Owed(w)
    BY DEF QInv, InTransitIsOwed
  <2> QED
    BY <2>1, <2>2 DEF TransitStays
<1>11. InTransitIsOwed'
  BY <1>10 DEF InTransitIsOwed, InTransfer
<1>12. ASSUME NEW w \in Warehouses
       PROVE  /\ Reserved(w) \in Nat /\ ledger[OnHand(w)] \in Nat
              /\ Reserved(w)' = IF Home[b] = w THEN Reserved(w) - confirmed[b] + n
                                ELSE Reserved(w)
  <2>1. Reserved(w) \in Nat
    BY SumsTyped DEF QInv
  <2>2. OnHand(w) \in Cells
    BY CellsApart
  <2>3. Reserved(w)' = IF Home[b] = w THEN Reserved(w) - confirmed[b] + confirmed'[b]
                       ELSE Reserved(w)
    BY <1>1, <1>3, <1>4, ReservedChanges
  <2> QED
    BY <1>1, <1>3, <2>1, <2>2, <2>3 DEF GoodsTyped
<1> QED
  BY <1>1, <1>8, <1>9, <1>11, <1>12 DEF BoxesTyped, Reserves

\* The same, when no stock moves.
LEMMA ReservationEnds ==
  ASSUME IInv, QInv, NEW b \in Boxes, UNCHANGED <<goods, orders>>, NEW n, Writes(b, n),
         incidents' \in 0 .. MaxIncidents
  PROVE  Numbers' /\ InTransitIsOwed' /\ Kept({b}) /\ Frees(b, n)
<1>1. UNCHANGED <<ledger, posted, pulled>>
  BY DEF goods
<1>2. ledger' \in [Cells -> Nat] /\ IsABag(posted') /\ DOMAIN posted' \subseteq Events
  BY <1>1 DEF QInv, Numbers, GoodsTyped
<1>3. /\ Numbers' /\ InTransitIsOwed' /\ Kept({b})
      /\ confirmed[b] \in Nat /\ confirmed[b] <= Qty[b] /\ Reserves(b, n)
  <2>1. TransitStays
    BY <1>1 DEF TransitStays
  <2> QED
    BY <1>1, <1>2, <2>1, BoxEnds
<1>4. ASSUME NEW w \in Warehouses
      PROVE  /\ Available(w) \in Int
             /\ Available(w)' = IF Home[b] = w THEN Available(w) + confirmed[b] - n
                                ELSE Available(w)
  <2>1. Available(w)' = ledger[OnHand(w)] - Reserved(w)'
    BY <1>1 DEF Available, OnHand
  <2>2. Available(w) = ledger[OnHand(w)] - Reserved(w)
    BY DEF Available
  <2>3. n \in Nat
    BY StockAssumption DEF Writes
  <2> QED
    BY <1>3, <2>1, <2>2, <2>3 DEF Reserves
<1> QED
  BY <1>3, <1>4 DEF Frees

\* A box takes of what is free what it misses, and no more than there is.
LEMMA ReserveEnds ==
  ASSUME IInv, QInv, NEW t \in Transactions, ReservePartial(t)
  PROVE  tx[t] # Idle /\ Done(t) /\ Effect(t)
<1>1. PICK b, more, n :
        /\ b = tx[t].of /\ more = Max({0, Min({Qty[b] - confirmed[b], tx[t].saw})})
        /\ n = confirmed[b] + more
        /\ Ready(t, "reserve") /\ confirmed' = [confirmed EXCEPT ![b] = n]
        /\ Done(t) /\ UNCHANGED <<goods, box, stripped, orders, incidents>>
  BY DEF ReservePartial
<1>2. /\ tx[t] # Idle /\ tx[t].held = tx[t].stock /\ tx[t].rows = {b}
      /\ b \in Boxes /\ tx[t].stock = {Home[b]} /\ tx[t].at = Home[b]
  BY <1>1, AtCommit DEF Meant, MeantForBoxes, BoxKinds, Holds
<1>3. /\ confirmed[b] \in Nat /\ confirmed[b] <= Qty[b] /\ Qty[b] \in Nat
      /\ Home[b] \in Warehouses
  BY <1>2, StockAssumption DEF QInv, Numbers, BoxesTyped
<1>4. PICK w \in Warehouses : w = Home[b]
  BY <1>3
<1>5. tx[t].saw \in Int /\ tx[t].saw <= Available(w) /\ Available(w) \in Int
  BY <1>1, <1>2, <1>4, AtCommit DEF Guarded
<1>6. /\ more \in Nat /\ more <= Qty[b] - confirmed[b]
      /\ more = 0 \/ more <= tx[t].saw
  <2>1. Qty[b] - confirmed[b] \in Int
    BY <1>3
  <2>2. PICK m \in Int : /\ m = Min({Qty[b] - confirmed[b], tx[t].saw})
                         /\ m <= Qty[b] - confirmed[b] /\ m <= tx[t].saw
    BY <1>5, <2>1, MinOfTwo
  <2>3. more = Max({0, m})
    BY <1>1, <2>2, Zenon
  <2>4. Max({0, m}) = IF 0 >= m THEN 0 ELSE m
    BY MaxOfTwo
  <2> QED
    BY <1>3, <2>2, <2>3, <2>4
<1>7. n \in 0 .. Qty[b]
  BY <1>1, <1>3, <1>6
<1>8. Writes(b, n) /\ incidents' \in 0 .. MaxIncidents
  <2>1. BoxesTyped /\ incidents \in 0 .. MaxIncidents
    BY DEF QInv, Numbers
  <2>2. /\ box' \in [Boxes -> Statuses] /\ stripped' \in [Boxes -> Nat]
        /\ \A c \in Boxes : stripped'[c] <= Qty[c]
    BY <1>1, <2>1 DEF BoxesTyped
  <2>3. /\ confirmed' \in [Boxes -> Nat] /\ confirmed'[b] = n
        /\ \A c \in Boxes \ {b} : confirmed'[c] = confirmed[c]
    <3>1. confirmed' = [confirmed EXCEPT ![b] = n]
      BY <1>1
    <3>2. n \in Nat
      BY <1>3, <1>7
    <3> QED
      BY <1>2, <2>1, <3>1, <3>2 DEF BoxesTyped
  <2>4. incidents' = incidents
    BY <1>1
  <2> QED
    BY <1>7, <2>1, <2>2, <2>3, <2>4 DEF Writes
<1>9. Numbers' /\ InTransitIsOwed' /\ Kept({b}) /\ Frees(b, n)
  BY <1>1, <1>2, <1>8, ReservationEnds
<1>10. \A v \in Warehouses \ {w} : Available(v)' >= Available(v)
  BY <1>4, <1>9 DEF Frees
<1>11. Available(w)' = Available(w) - more
  <2>1. Available(w)' = Available(w) + confirmed[b] - n
    BY <1>4, <1>9 DEF Frees
  <2> QED
    BY <1>1, <1>3, <1>5, <1>6, <2>1
<1>12. \/ Available(w)' >= Available(w)
       \/ w \in tx[t].held /\ Available(w)' >= 0
  BY <1>2, <1>4, <1>5, <1>6, <1>11
<1> QED
  BY <1>1, <1>2, <1>9, <1>10, <1>12 DEF Effect, Spares

\* A box gives up reservations that it has.
LEMMA GivesUp ==
  ASSUME IInv, QInv, NEW t \in Transactions, NEW kind \in {"release", "shortPick", "cancel"},
         Ready(t, kind), NEW b, b = tx[t].of,
         confirmed' = [confirmed EXCEPT ![b] = confirmed[b] - tx[t].qty],
         NEW to \in Statuses, box' = box \/ box' = [box EXCEPT ![b] = to],
         stripped' = stripped \/ stripped' = [stripped EXCEPT ![b] = 0],
         UNCHANGED <<goods, orders, incidents>>
  PROVE  tx[t] # Idle /\ Effect(t)
<1>1. /\ tx[t] # Idle /\ tx[t].rows = {b} /\ b \in Boxes /\ tx[t].qty \in 0 .. confirmed[b]
  BY AtCommit DEF Meant, MeantForBoxes, BoxKinds, Holds
<1>2. PICK n : n = confirmed[b] - tx[t].qty
  OBVIOUS
<1>3. BoxesTyped /\ incidents \in 0 .. MaxIncidents
  BY DEF QInv, Numbers
<1>4. confirmed[b] \in Nat /\ n \in 0 .. Qty[b] /\ n <= confirmed[b]
  BY <1>1, <1>2, <1>3, StockAssumption DEF BoxesTyped
<1>5. box' \in [Boxes -> Statuses]
  BY <1>3 DEF BoxesTyped
<1>6. stripped' \in [Boxes -> Nat] /\ \A c \in Boxes : stripped'[c] <= Qty[c]
  BY <1>3, StockAssumption DEF BoxesTyped
<1>7. Numbers' /\ InTransitIsOwed' /\ Kept({b}) /\ Frees(b, n)
  <2>1. Writes(b, n)
    <3>1. /\ confirmed' \in [Boxes -> Nat] /\ confirmed'[b] = n
          /\ \A c \in Boxes \ {b} : confirmed'[c] = confirmed[c]
      BY <1>1, <1>2, <1>3, <1>4 DEF BoxesTyped
    <3> QED
      BY <1>4, <1>5, <1>6, <3>1 DEF Writes
  <2> QED
    BY <1>1, <1>3, <2>1, ReservationEnds
<1>8. \A w \in Warehouses : Available(w)' >= Available(w)
  BY <1>4, <1>7 DEF Frees
<1> QED
  BY <1>1, <1>7, <1>8 DEF Effect, Spares

LEMMA GiveUpEnds ==
  ASSUME IInv, QInv, NEW t \in Transactions, ReleasePartial(t) \/ ShortPick(t) \/ Cancel(t)
  PROVE  tx[t] # Idle /\ Done(t) /\ Effect(t)
<1>1. PICK b : b = tx[t].of
  OBVIOUS
<1>2. Done(t)
  BY DEF ReleasePartial, ShortPick, Cancel
<1>3. CASE ReleasePartial(t)
  <2>1. /\ Ready(t, "release") /\ UNCHANGED <<box, stripped, goods, orders, incidents>>
        /\ confirmed' = [confirmed EXCEPT ![b] = confirmed[b] - tx[t].qty]
    BY <1>1, <1>3 DEF ReleasePartial
  <2> QED
    BY <1>1, <1>2, <2>1, GivesUp DEF Statuses
<1>4. CASE ShortPick(t)
  <2>1. /\ Ready(t, "shortPick") /\ box' = [box EXCEPT ![b] = "draft"]
        /\ confirmed' = [confirmed EXCEPT ![b] = confirmed[b] - tx[t].qty]
        /\ stripped' = [stripped EXCEPT ![b] = 0] /\ UNCHANGED <<goods, orders, incidents>>
    BY <1>1, <1>4 DEF ShortPick
  <2>2. "draft" \in Statuses
    BY DEF Statuses
  <2> QED
    BY <1>1, <1>2, <2>1, <2>2, GivesUp
<1>5. CASE Cancel(t)
  <2>1. /\ Ready(t, "cancel") /\ box' = [box EXCEPT ![b] = "canceled"]
        /\ confirmed' = [confirmed EXCEPT ![b] = confirmed[b] - tx[t].qty]
        /\ stripped' = stripped /\ UNCHANGED <<goods, orders, incidents>>
    BY <1>1, <1>5 DEF Cancel
  <2>2. "canceled" \in Statuses
    BY DEF Statuses
  <2> QED
    BY <1>1, <1>2, <2>1, <2>2, GivesUp
<1> QED
  BY <1>3, <1>4, <1>5

\* The goods leave with their reservations: what is free stays.
LEMMA DispatchEnds ==
  ASSUME IInv, QInv, NEW t \in Transactions, Dispatch(t)
  PROVE  tx[t] # Idle /\ Done(t) /\ Effect(t)
<1>1. PICK b, v, a, z, q :
        /\ b = tx[t].of /\ v = Home[b] /\ a = OnHand(v) /\ z = Outside /\ q = tx[t].qty
        /\ Ready(t, "dispatch") /\ confirmed[b] = q /\ Done(t) /\ Project({Event(a, z, q)})
        /\ box' = [box EXCEPT ![b] = "shipped"] /\ confirmed' = [confirmed EXCEPT ![b] = 0]
        /\ UNCHANGED <<posted, stripped, pulled, orders, incidents>>
  BY DEF Dispatch
<1>2. tx[t] # Idle /\ tx[t].rows = {b} /\ b \in Boxes
  BY <1>1, AtCommit DEF Meant, MeantForBoxes, BoxKinds, Holds
<1>3. GoodsTyped /\ BoxesTyped /\ incidents \in 0 .. MaxIncidents
  BY DEF QInv, Numbers
<1>4. v \in Warehouses /\ Qty[b] \in Nat /\ q \in Nat
  BY <1>1, <1>2, <1>3, StockAssumption DEF BoxesTyped
<1>5. /\ \A w \in Warehouses : a # InTransfer(w) /\ z # InTransfer(w) /\ z # OnHand(w)
      /\ \A w \in Warehouses : a = OnHand(w) <=> v = w
  BY <1>1, <1>4, CellsApart
<1>6. /\ ledger' \in [Cells -> Nat]
      /\ \A c \in Cells :
           ledger'[c] = ledger[c] - (IF a = c THEN q ELSE 0) + (IF z = c THEN q ELSE 0)
  BY <1>1, <1>3, <1>4, MovesOne
<1>7. \A w \in Warehouses : /\ ledger'[InTransfer(w)] = ledger[InTransfer(w)]
                            /\ ledger'[OnHand(w)] = ledger[OnHand(w)] - (IF v = w THEN q ELSE 0)
  <2> SUFFICES ASSUME NEW w \in Warehouses
               PROVE  /\ ledger'[InTransfer(w)] = ledger[InTransfer(w)]
                      /\ ledger'[OnHand(w)] = ledger[OnHand(w)] - (IF v = w THEN q ELSE 0)
    OBVIOUS
  <2>1. InTransfer(w) \in Cells /\ OnHand(w) \in Cells
    BY CellsApart
  <2>2. ledger[InTransfer(w)] \in Nat /\ ledger[OnHand(w)] \in Nat
    BY <1>3, <2>1 DEF GoodsTyped
  <2> QED
    BY <1>4, <1>5, <1>6, <2>1, <2>2
<1>8. Writes(b, 0)
  <2>1. /\ box' \in [Boxes -> Statuses] /\ stripped' \in [Boxes -> Nat]
        /\ \A c \in Boxes : stripped'[c] <= Qty[c]
    BY <1>1, <1>3 DEF BoxesTyped, Statuses
  <2>2. /\ confirmed' \in [Boxes -> Nat] /\ confirmed'[b] = 0
        /\ \A c \in Boxes \ {b} : confirmed'[c] = confirmed[c]
    BY <1>1, <1>2, <1>3 DEF BoxesTyped
  <2> QED
    BY <1>4, <2>1, <2>2 DEF Writes
<1>9. IsABag(posted') /\ DOMAIN posted' \subseteq Events
  BY <1>1, <1>3 DEF GoodsTyped
<1>10. Numbers' /\ InTransitIsOwed' /\ Kept({b}) /\ Reserves(b, 0)
  <2>1. TransitStays
    BY <1>7 DEF TransitStays
  <2> QED
    BY <1>1, <1>2, <1>3, <1>6, <1>8, <1>9, <2>1, BoxEnds
<1>11. ASSUME NEW w \in Warehouses PROVE Available(w)' >= Available(w)
  <2>1. Available(w)' = ledger'[OnHand(w)] - Reserved(w)'
    BY DEF Available, OnHand
  <2>2. Available(w) = ledger[OnHand(w)] - Reserved(w)
    BY DEF Available
  <2> QED
    BY <1>1, <1>4, <1>7, <1>10, <2>1, <2>2 DEF Reserves
<1> QED
  BY <1>1, <1>2, <1>10, <1>11 DEF Effect, Spares

\* They come back with them.
LEMMA RecallEnds ==
  ASSUME IInv, QInv, NEW t \in Transactions, Recall(t)
  PROVE  tx[t] # Idle /\ Done(t) /\ Effect(t)
<1>1. PICK b, v, a, z, q :
        /\ b = tx[t].of /\ v = Home[b] /\ a = Outside /\ z = OnHand(v) /\ q = tx[t].qty
        /\ Ready(t, "recall") /\ Incident /\ Done(t) /\ Project({Event(a, z, q)})
        /\ posted' = posted (+) SetToBag({Event(a, z, q)})
        /\ box' = [box EXCEPT ![b] = "draft"] /\ confirmed' = [confirmed EXCEPT ![b] = q]
        /\ UNCHANGED <<stripped, pulled, orders>>
  BY DEF Recall, Post
<1>2. tx[t] # Idle /\ tx[t].rows = {b} /\ b \in Boxes /\ q = Qty[b]
  BY <1>1, AtCommit DEF Meant, MeantForBoxes, BoxKinds, Holds
<1>3. GoodsTyped /\ BoxesTyped /\ incidents' \in 0 .. MaxIncidents
  BY <1>1, IncidentTyped DEF QInv, Numbers
<1>4. v \in Warehouses /\ Qty[b] \in Nat /\ q \in Nat /\ confirmed[b] \in Nat
  BY <1>1, <1>2, <1>3, StockAssumption DEF BoxesTyped
<1>5. /\ \A w \in Warehouses : a # InTransfer(w) /\ z # InTransfer(w) /\ a # OnHand(w)
      /\ \A w \in Warehouses : z = OnHand(w) <=> v = w
      /\ a \in Ends /\ z \in Ends
  BY <1>1, <1>4, CellsApart
<1>6. /\ ledger' \in [Cells -> Nat]
      /\ \A c \in Cells :
           ledger'[c] = ledger[c] - (IF a = c THEN q ELSE 0) + (IF z = c THEN q ELSE 0)
  BY <1>1, <1>3, <1>4, MovesOne
<1>7. \A w \in Warehouses : /\ ledger'[InTransfer(w)] = ledger[InTransfer(w)]
                            /\ ledger'[OnHand(w)] = ledger[OnHand(w)] + (IF v = w THEN q ELSE 0)
  <2> SUFFICES ASSUME NEW w \in Warehouses
               PROVE  /\ ledger'[InTransfer(w)] = ledger[InTransfer(w)]
                      /\ ledger'[OnHand(w)] = ledger[OnHand(w)] + (IF v = w THEN q ELSE 0)
    OBVIOUS
  <2>1. InTransfer(w) \in Cells /\ OnHand(w) \in Cells
    BY CellsApart
  <2>2. ledger[InTransfer(w)] \in Nat /\ ledger[OnHand(w)] \in Nat
    BY <1>3, <2>1 DEF GoodsTyped
  <2> QED
    BY <1>4, <1>5, <1>6, <2>1, <2>2
<1>8. Writes(b, q)
  <2>1. /\ box' \in [Boxes -> Statuses] /\ stripped' \in [Boxes -> Nat]
        /\ \A c \in Boxes : stripped'[c] <= Qty[c]
    BY <1>1, <1>3 DEF BoxesTyped, Statuses
  <2>2. /\ confirmed' \in [Boxes -> Nat] /\ confirmed'[b] = q
        /\ \A c \in Boxes \ {b} : confirmed'[c] = confirmed[c]
    BY <1>1, <1>2, <1>3, <1>4 DEF BoxesTyped
  <2> QED
    BY <1>2, <1>4, <2>1, <2>2 DEF Writes
<1>9. IsABag(posted') /\ DOMAIN posted' \subseteq Events
  <2>1. {Event(a, z, q)} \subseteq Events
    BY <1>4, <1>5 DEF Event, Events
  <2> QED
    BY <1>1, <1>3, <2>1, PostTyped
<1>10. Numbers' /\ InTransitIsOwed' /\ Kept({b}) /\ Reserves(b, q)
  <2>1. TransitStays
    BY <1>7 DEF TransitStays
  <2> QED
    BY <1>1, <1>2, <1>3, <1>6, <1>8, <1>9, <2>1, BoxEnds
<1>11. ASSUME NEW w \in Warehouses PROVE Available(w)' >= Available(w)
  <2>1. Available(w)' = ledger'[OnHand(w)] - Reserved(w)'
    BY DEF Available, OnHand
  <2>2. Available(w) = ledger[OnHand(w)] - Reserved(w)
    BY DEF Available
  <2> QED
    BY <1>1, <1>4, <1>7, <1>10, <2>1, <2>2 DEF Reserves
<1> QED
  BY <1>1, <1>2, <1>10, <1>11 DEF Effect, Spares

\* What one box gives another of the same warehouse stays promised there.
LEMMA TransferEnds ==
  ASSUME IInv, QInv, NEW t \in Transactions, Transfer(t)
  PROVE  tx[t] # Idle /\ Done(t) /\ Effect(t)
<1>1. PICK b, c, q :
        /\ b = tx[t].of[1] /\ c = tx[t].of[2] /\ q = tx[t].qty
        /\ Ready(t, "transfer") /\ Done(t) /\ UNCHANGED <<goods, box, stripped, orders, incidents>>
        /\ confirmed' = [confirmed EXCEPT ![b] = @ - q, ![c] = @ + q]
  BY DEF Transfer
<1>2. /\ tx[t] # Idle /\ tx[t].rows = {b, c} /\ b \in Boxes /\ c \in Boxes /\ b # c
      /\ Home[b] = Home[c] /\ q \in 0 .. confirmed[b] /\ q <= Qty[c] - confirmed[c]
  BY <1>1, AtCommit DEF Meant, MeantForBoxes, Holds
<1>3. GoodsTyped /\ BoxesTyped /\ OrdersTyped /\ incidents \in 0 .. MaxIncidents
  BY DEF QInv, Numbers
<1>4. /\ confirmed[b] \in Nat /\ confirmed[c] \in Nat /\ q \in Nat /\ q <= confirmed[b]
      /\ Qty[b] \in Nat /\ Qty[c] \in Nat /\ confirmed[b] <= Qty[b]
  BY <1>2, <1>3, StockAssumption DEF BoxesTyped
<1>5. PICK f : f = [confirmed EXCEPT ![b] = @ - q]
  OBVIOUS
<1>6. /\ f \in [Boxes -> Nat] /\ f[b] = confirmed[b] - q
      /\ \A d \in Boxes \ {b} : f[d] = confirmed[d]
  BY <1>2, <1>3, <1>4, <1>5 DEF BoxesTyped
<1>7. /\ confirmed' \in [Boxes -> Nat] /\ confirmed'[c] = confirmed[c] + q
      /\ confirmed'[b] = confirmed[b] - q
      /\ \A d \in Boxes \ {b, c} : confirmed'[d] = confirmed[d]
  <2>1. confirmed' = [confirmed EXCEPT ![b] = @ - q, ![c] = @ + q]
    BY <1>1
  <2>2. confirmed \in [Boxes -> Nat]
    BY <1>3 DEF BoxesTyped
  <2>3. b \in Boxes /\ c \in Boxes /\ b # c
    BY <1>2
  <2>4. confirmed[b] - q \in Nat /\ confirmed[c] + q \in Nat
    BY <1>4
  <2>5. /\ DOMAIN confirmed' = Boxes /\ confirmed'[c] = confirmed[c] + q
        /\ confirmed'[b] = confirmed[b] - q
        /\ \A d \in Boxes \ {b, c} : confirmed'[d] = confirmed[d]
    BY <2>1, <2>2, <2>3
  <2>6. confirmed' = [d \in Boxes |-> confirmed'[d]]
    BY <2>1, <2>2
  <2>7. \A d \in Boxes : confirmed'[d] \in Nat
    BY <2>2, <2>4, <2>5
  <2> QED
    BY <2>5, <2>6, <2>7
<1>8. /\ confirmed' \in [Boxes -> Nat] /\ confirmed'[c] = confirmed[c] + q
      /\ confirmed'[b] = confirmed[b] - q
      /\ \A d \in Boxes \ {c} : confirmed'[d] = f[d]
  BY <1>2, <1>4, <1>6, <1>7
<1>9. BoxesTyped'
  <2>1. \A d \in Boxes : confirmed'[d] <= Qty[d]
    BY <1>2, <1>3, <1>4, <1>6, <1>8 DEF BoxesTyped
  <2> QED
    BY <1>1, <1>3, <1>8, <2>1 DEF BoxesTyped
<1>10. Numbers'
  BY <1>1, <1>3, <1>9 DEF Numbers, GoodsTyped, OrdersTyped, goods, orders
<1>11. Kept({b, c})
  BY <1>1, <1>6, <1>8 DEF Kept, orders
<1>12. InTransitIsOwed'
  <2>1. \A w \in Warehouses : Owed(w)' = Owed(w)
    BY <1>1, OwedSame
  <2> QED
    BY <1>1, <2>1 DEF goods, QInv, InTransitIsOwed
<1>13. ASSUME NEW w \in Warehouses PROVE Available(w)' >= Available(w)
  <2> DEFINE S == HomeBoxes(w)
  <2>1. IsFiniteSet(S) /\ S \in SUBSET Boxes /\ (b \in S <=> c \in S)
    BY <1>2, StockAssumption, FS_Subset DEF HomeBoxes
  <2>2. Reserved(w) = SumFunctionOnSet(confirmed, S) /\ Reserved(w)' = SumFunctionOnSet(confirmed', S)
    BY DEF Reserved, HomeBoxes
  <2> HIDE DEF S
  <2>3. \A d \in S : confirmed[d] \in Nat /\ f[d] \in Nat /\ confirmed'[d] \in Nat
    BY <1>3, <1>6, <1>8, <2>1 DEF BoxesTyped
  <2>4. SumFunctionOnSet(confirmed', S) = SumFunctionOnSet(confirmed, S)
    <3>1. CASE b \in S
      <4>1. \A d \in S \ {b} : f[d] = confirmed[d]
        BY <1>6, <2>1
      <4>2. SumFunctionOnSet(f, S) = SumFunctionOnSet(confirmed, S) - confirmed[b] + f[b]
        BY <2>1, <2>3, <3>1, <4>1, SumChanges
      <4>3. \A d \in S \ {c} : confirmed'[d] = f[d]
        BY <1>8, <2>1
      <4>4. SumFunctionOnSet(confirmed', S) = SumFunctionOnSet(f, S) - f[c] + confirmed'[c]
        BY <2>1, <2>3, <3>1, <4>3, SumChanges
      <4>5. f[c] = confirmed[c]
        BY <1>2, <1>6
      <4>6. SumFunctionOnSet(confirmed, S) \in Nat
        BY <2>1, <2>3, SumType
      <4> QED
        BY <1>4, <1>6, <1>8, <4>2, <4>4, <4>5, <4>6
    <3>2. CASE b \notin S
      <4>1. \A d \in S : confirmed'[d] = confirmed[d]
        BY <1>6, <1>8, <2>1, <3>2
      <4> QED
        BY <2>1, <4>1, SumSame
    <3> QED
      BY <3>1, <3>2
  <2>5. Available(w) \in Int
    BY SumsTyped DEF QInv
  <2> QED
    BY <1>1, <2>2, <2>4, <2>5 DEF Available, goods
<1> QED
  BY <1>1, <1>2, <1>10, <1>11, <1>12, <1>13 DEF Effect, Spares

-----------------------------------------------------------------------------
(* Every step *)

LEMMA CommitSpares ==
  ASSUME IInv, QInv, NEW t \in Transactions, Commit(t)
  PROVE  tx[t] # Idle /\ Done(t) /\ Effect(t)
  BY AdjustUpEnds, AdjustDownEnds, ReverseEnds, ShipEnds, ReceiveEnds, ReserveEnds, GiveUpEnds,
     TransferEnds, DispatchEnds, RecallEnds DEF Commit

\* A refused command leaves nothing behind.
LEMMA RefuseRelies ==
  ASSUME IInv, QInv, NEW t \in Transactions, Refuse(t)
  PROVE  QInv'
<1>1. Done(t) /\ UNCHANGED <<goods, boxes, orders, incidents>>
  BY DEF Refuse
<1>2. /\ DOMAIN tx' = Transactions /\ tx'[t] = Idle /\ tx'[t].held = {}
      /\ \A u \in Transactions \ {t} : tx'[u] = tx[u]
  BY <1>1 DEF IInv, Shapes, Done, Idle
<1> QED
  BY <1>1, <1>2, OneWorks

\* What needs no stock lock holds the row of the box and only gives up reservations.
LEMMA HandStep ==
  ASSUME IInv, QInv, NEW b \in Boxes, Plan(b) \/ InTransit(b) \/ ReleaseReservation(b)
  PROVE  /\ Numbers' /\ InTransitIsOwed' /\ Kept({b}) /\ RowsFree({b}) /\ UNCHANGED tx
         /\ \A w \in Warehouses : Available(w)' >= Available(w)
<1>0. GoodsTyped /\ BoxesTyped /\ OrdersTyped /\ incidents \in 0 .. MaxIncidents
  BY DEF QInv, Numbers
<1>1. confirmed[b] \in Nat /\ confirmed[b] <= Qty[b] /\ Qty[b] \in Nat
  BY <1>0, StockAssumption DEF BoxesTyped
<1>2. PICK n :
        /\ n \in Nat /\ n <= confirmed[b] /\ Writes(b, n)
        /\ incidents' \in 0 .. MaxIncidents
        /\ RowsFree({b}) /\ UNCHANGED <<goods, orders, tx>>
  <2>1. CASE Plan(b)
    <3>1. /\ RowsFree({b}) /\ UNCHANGED <<goods, orders, tx, confirmed, incidents>>
          /\ box' = [box EXCEPT ![b] = "planned"] /\ stripped' = [stripped EXCEPT ![b] = 0]
      BY <2>1 DEF Plan
    <3>2. /\ confirmed' \in [Boxes -> Nat] /\ confirmed'[b] = confirmed[b]
          /\ \A c \in Boxes \ {b} : confirmed'[c] = confirmed[c]
      BY <1>0, <3>1 DEF BoxesTyped
    <3>3. box' \in [Boxes -> Statuses]
      BY <1>0, <3>1 DEF BoxesTyped, Statuses
    <3>4. stripped' \in [Boxes -> Nat] /\ \A c \in Boxes : stripped'[c] <= Qty[c]
      <4>1. /\ stripped' \in [Boxes -> Nat] /\ stripped'[b] = 0
            /\ \A c \in Boxes \ {b} : stripped'[c] = stripped[c]
        BY <1>0, <3>1 DEF BoxesTyped
      <4> QED
        BY <1>0, <1>1, <4>1 DEF BoxesTyped
    <3>5. Writes(b, confirmed[b])
      BY <1>1, <3>2, <3>3, <3>4 DEF Writes
    <3> QED
      BY <1>0, <1>1, <3>1, <3>5
  <2>2. CASE InTransit(b)
    <3>1. /\ RowsFree({b}) /\ UNCHANGED <<goods, orders, tx, confirmed, stripped, incidents>>
          /\ box' = [box EXCEPT ![b] = "in_transit"]
      BY <2>2 DEF InTransit
    <3>2. /\ confirmed' \in [Boxes -> Nat] /\ confirmed'[b] = confirmed[b]
          /\ \A c \in Boxes \ {b} : confirmed'[c] = confirmed[c]
      BY <1>0, <3>1 DEF BoxesTyped
    <3>3. Writes(b, confirmed[b])
      BY <1>0, <1>1, <3>1, <3>2 DEF Writes, BoxesTyped, Statuses
    <3> QED
      BY <1>0, <1>1, <3>1, <3>3
  <2>3. CASE ReleaseReservation(b)
    <3>1. PICK q, n :
            /\ q \in 1 .. confirmed[b]
            /\ n = confirmed[b] - q /\ RowsFree({b}) /\ Incident
            /\ UNCHANGED <<goods, box, orders, tx>>
            /\ confirmed' = [confirmed EXCEPT ![b] = n]
            /\ stripped' = [stripped EXCEPT ![b] =
                              IF box[b] = "planned" THEN stripped[b] + q ELSE stripped[b]]
      BY <2>3 DEF ReleaseReservation
    <3>2. n \in Nat /\ n <= confirmed[b] /\ n \in 0 .. Qty[b]
      BY <1>1, <3>1
    <3>3. incidents' \in 0 .. MaxIncidents
      BY <3>1, IncidentTyped DEF QInv
    <3>4. box[b] = "planned" => stripped[b] + q <= Qty[b]
      <4>1. box[b] = "planned" => confirmed[b] + stripped[b] = Qty[b]
        BY DEF IInv, PlannedOK
      <4> QED
        BY <1>0, <1>1, <3>1, <4>1 DEF BoxesTyped
    <3>5. PICK s : s = IF box[b] = "planned" THEN stripped[b] + q ELSE stripped[b]
      OBVIOUS
    <3>6. s \in Nat /\ s <= Qty[b]
      BY <1>0, <3>1, <3>4, <3>5 DEF BoxesTyped
    <3>7. stripped' = [stripped EXCEPT ![b] = s]
      BY <3>1, <3>5
    <3>8. stripped' \in [Boxes -> Nat] /\ \A c \in Boxes : stripped'[c] <= Qty[c]
      BY <1>0, <3>6, <3>7 DEF BoxesTyped
    <3>9. Writes(b, n)
      <4>1. box' \in [Boxes -> Statuses]
        BY <1>0, <3>1 DEF BoxesTyped
      <4>2. /\ confirmed' \in [Boxes -> Nat] /\ confirmed'[b] = n
            /\ \A c \in Boxes \ {b} : confirmed'[c] = confirmed[c]
        BY <1>0, <3>1, <3>2 DEF BoxesTyped
      <4> QED
        BY <3>2, <3>8, <4>1, <4>2 DEF Writes
    <3> QED
      BY <3>1, <3>2, <3>3, <3>9
  <2> QED
    BY <2>1, <2>2, <2>3
<1>3. Numbers' /\ InTransitIsOwed' /\ Kept({b}) /\ Frees(b, n)
  BY <1>2, ReservationEnds
<1>4. \A w \in Warehouses : Available(w)' >= Available(w)
  BY <1>1, <1>2, <1>3 DEF Frees
<1> QED
  BY <1>2, <1>3, <1>4

LEMMA HandRelies ==
  ASSUME IInv, QInv, NEW b \in Boxes, Plan(b) \/ InTransit(b) \/ ReleaseReservation(b)
  PROVE  QInv'
<1>1. /\ Numbers' /\ InTransitIsOwed' /\ Kept({b}) /\ RowsFree({b}) /\ UNCHANGED tx
      /\ \A w \in Warehouses : Available(w)' >= Available(w)
  BY HandStep
<1>2. Apart'
  BY <1>1 DEF QInv, Apart
<1>3. AtWork'
  <2> SUFFICES ASSUME NEW u \in Transactions, tx'[u] # Idle
               PROVE  Meant(tx[u])' /\ Locked(tx[u])' /\ Fits(tx[u])'
    BY DEF AtWork
  <2>1. tx'[u] = tx[u] /\ tx[u] # Idle /\ tx[u].rows \cap {b} = {}
    BY <1>1 DEF RowsFree
  <2> QED
    BY <1>1, <2>1, OthersRely
<1> QED
  BY <1>1, <1>2, <1>3 DEF QInv

\* The two invariants are kept together.
LEMMA QInvStep == IInv /\ QInv /\ [Next]_vars => QInv'
<1> SUFFICES ASSUME IInv, QInv, [Next]_vars PROVE QInv'
  OBVIOUS
<1>1. CASE UNCHANGED vars
  <2>1. UNCHANGED tx /\ UNCHANGED <<goods, boxes, orders, incidents>>
    BY <1>1 DEF vars
  <2>2. /\ Numbers' /\ \A R : Kept(R)
        /\ \A w \in Warehouses : Available(w)' = Available(w) /\ Available(w) \in Int
        /\ InTransitIsOwed'
    BY <2>1, NothingWritten DEF QInv
  <2>3. AtWork'
    <3> SUFFICES ASSUME NEW u \in Transactions, tx'[u] # Idle
                 PROVE  Meant(tx[u])' /\ Locked(tx[u])' /\ Fits(tx[u])'
      BY DEF AtWork
    <3>1. tx'[u] = tx[u] /\ tx[u] # Idle /\ Kept({}) /\ tx[u].rows \cap {} = {}
      BY <2>1, <2>2
    <3>2. \A w \in Warehouses : w \in tx[u].held => Available(w)' >= Available(w)
      BY <2>2
    <3> QED
      BY <2>2, <3>1, <3>2, OthersRely
  <2>4. Apart'
    BY <2>1 DEF QInv, Apart
  <2> QED
    BY <2>2, <2>3, <2>4 DEF QInv
<1>2. ASSUME NEW t \in Transactions, Commit(t) PROVE QInv'
  BY <1>2, CommitSpares, EndRelies
<1>3. CASE Next
  BY <1>2, <1>3, BeginMeant, AcquireRelies, ReadRelies, RefuseRelies, HandRelies DEF Next
<1> QED
  BY <1>1, <1>3

\* What is promised grows beyond the stock only when what is free falls, below zero.
LEMMA ShortGrows ==
  ASSUME Numbers, Numbers', NEW w \in Warehouses, Short(w)' > Short(w)
  PROVE  ~(Available(w)' >= Available(w)) /\ ~(Available(w)' >= 0)
<1>1. Available(w) \in Int /\ Available(w)' \in Int
  BY SumsTyped, NextTyped DEF FreeTyped
<1>2. Short(w) = Max({0, -Available(w)}) /\ Short(w)' = Max({0, -(Available(w)')})
  BY DEF Short
<1>3. PICK m \in Int, n \in Int : m = -Available(w) /\ n = -(Available(w)')
  BY <1>1
<1>4. Short(w) = Max({0, m}) /\ Short(w)' = Max({0, n})
  BY <1>2, <1>3, Zenon
<1>5. /\ Max({0, m}) = IF 0 >= m THEN 0 ELSE m
      /\ Max({0, n}) = IF 0 >= n THEN 0 ELSE n
  BY MaxOfTwo
<1> QED
  BY <1>1, <1>3, <1>4, <1>5

\* Until it commits a command writes nothing.
LEMMA WritesAtTheEnd ==
  ASSUME NEW t \in Transactions,
         StartSomething(t) \/ AcquireStockLock(t) \/ ReadAvailability(t) \/ Refuse(t)
  PROVE  UNCHANGED <<goods, boxes, orders, incidents>>
<1>1. CASE AcquireStockLock(t) \/ ReadAvailability(t) \/ Refuse(t)
  BY <1>1 DEF AcquireStockLock, ReadAvailability, Refuse
<1>2. CASE StartAdjust(t) \/ StartReverse(t)
  BY <1>2 DEF StartAdjust, StartReverse, Start
<1>3. CASE \E o \in Orders : StartShip(t, o) \/ StartReceive(t, o)
  BY <1>3 DEF StartShip, StartReceive, Start
<1>4. CASE \E b \in Boxes : StartReserve(t, b) \/ StartRelease(t, b) \/ StartShortPick(t, b)
  BY <1>4 DEF StartReserve, StartRelease, StartShortPick, Start
<1>5. CASE \E b \in Boxes : StartDispatch(t, b) \/ StartRecall(t, b) \/ StartCancel(t, b)
  BY <1>5 DEF StartDispatch, StartRecall, StartCancel, Start
<1>6. CASE \E b, c \in Boxes : StartTransfer(t, b, c)
  BY <1>6 DEF StartTransfer, Start
<1> QED
  BY <1>1, <1>2, <1>3, <1>4, <1>5, <1>6 DEF StartSomething

\* A step promises more than there is only by committing a count.
LEMMA StepSpares ==
  ASSUME IInv, QInv, [Next]_vars, NEW w \in Warehouses, Short(w)' > Short(w)
  PROVE  \E t \in Transactions :
           tx[t] # Idle /\ tx[t].kind = "count" /\ tx[t].of = w /\ tx'[t] = Idle
<1>1. Numbers /\ Numbers'
  BY QInvStep DEF QInv
<1>2. ~(Available(w)' >= Available(w)) /\ ~(Available(w)' >= 0)
  BY <1>1, ShortGrows
<1>3. Available(w) \in Int
  BY <1>1, SumsTyped
<1>4. ~ UNCHANGED <<goods, boxes, orders, incidents>>
  BY <1>1, <1>2, <1>3, NothingWritten
<1>5. ASSUME NEW b \in Boxes, Plan(b) \/ InTransit(b) \/ ReleaseReservation(b) PROVE FALSE
  BY <1>2, <1>5, HandStep
<1>6. ASSUME NEW t \in Transactions,
             StartSomething(t) \/ AcquireStockLock(t) \/ ReadAvailability(t) \/ Refuse(t)
      PROVE  FALSE
  BY <1>4, <1>6, WritesAtTheEnd
<1>7. PICK t \in Transactions : Commit(t)
  BY <1>4, <1>5, <1>6 DEF Next, vars
<1>8. tx[t] # Idle /\ Done(t) /\ Spares(t)
  BY <1>7, CommitSpares DEF Effect
<1>9. tx[t].kind = "count" /\ tx[t].of = w
  BY <1>2, <1>8 DEF Spares
<1>10. tx'[t] = Idle
  BY <1>8 DEF Done, IInv, Shapes
<1> QED
  BY <1>8, <1>9, <1>10

\* The second inductive invariant: the quantities fit together, an advisory lock is held by
\* one transaction, and what a command has read is still there when it commits.
THEOREM StockInvariance == Spec => []QInv
  BY InitQInv, QInvStep, Invariance, PTL DEF Spec

\* No cell is negative, no box has more reserved than its lines ask for, and no order more
\* received and lost than was planned, for any quantities.
THEOREM StockTyped == Spec => []TypeOK
<1>1. QInv => TypeOK
  <2> SUFFICES ASSUME QInv PROVE TypeOK
    OBVIOUS
  <2>1. GoodsTyped /\ BoxesTyped /\ OrdersTyped /\ incidents \in 0 .. MaxIncidents
    BY DEF QInv, Numbers
  <2>2. \A b \in Boxes : confirmed[b] \in 0 .. Qty[b] /\ stripped[b] \in 0 .. Qty[b]
    BY <2>1, StockAssumption DEF BoxesTyped
  <2>3. \A o \in Orders : Outstanding(o) \in 0 .. Planned[o]
    BY <2>1, StockAssumption DEF OrdersTyped, Outstanding
  <2>4. \A t \in Transactions : tx[t].held \subseteq Warehouses
    <3> SUFFICES ASSUME NEW t \in Transactions PROVE tx[t].held \subseteq Warehouses
      OBVIOUS
    <3>1. CASE tx[t] = Idle
      BY <3>1 DEF Idle
    <3>2. CASE tx[t] # Idle
      BY <3>2 DEF QInv, AtWork, Locked
    <3> QED
      BY <3>1, <3>2
  <2> QED
    BY <2>1, <2>2, <2>3, <2>4 DEF TypeOK, GoodsTyped, BoxesTyped, OrdersTyped, Statuses, Stages
<1> QED
  BY <1>1, StockInvariance, PTL

\* What is in transit is what the transfer orders still expect, but for what reversals by
\* hand took out of it: no receipt is booked twice or against another order's goods.
THEOREM InTransitStaysOwed == Spec => []InTransitIsOwed
<1>1. QInv => InTransitIsOwed
  BY DEF QInv
<1> QED
  BY <1>1, StockInvariance, PTL

\* Reservations outgrow the stock by a count or a damage report, and by nothing else.
THEOREM NothingPromisedTwice == Spec => NeverOversold
<1>1. IInv /\ QInv /\ [Next]_vars =>
        [\A w \in Warehouses : Short(w)' > Short(w) =>
           \E t \in Transactions :
             tx[t] # Idle /\ tx[t].kind = "count" /\ tx[t].of = w /\ tx'[t] = Idle]_vars
  BY StepSpares
<1> QED
  BY <1>1, Invariance, StockInvariance, PTL DEF Spec, NeverOversold
=============================================================================
