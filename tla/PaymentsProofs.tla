--------------------------- MODULE PaymentsProofs ---------------------------
(***************************************************************************)
(* Proofs about Payments for every number of requests, charges, operations  *)
(* and faults, and every amount.                                            *)
(***************************************************************************)
EXTENDS Payments, Folds, WellFoundedInduction, TLAPS

Statuses == {"none", "CREATED", "REQUIRES_ACTION", "SUCCEEDED", "FAILED", "CANCELED"}
Settled == {"done", "aborted", "expired", "returned"}
Operations == {"none", "confirm", "approve", "webhook", "capture", "abandon", "cancel"}
Releasers == {"abandon", "cancel"}

Places == {"idle", "discount", "held", "split", "primary", "acting", "refused", "back",
           "finish", "waiting", "capture", "legs", "stage", "pay", "query",
           "release", "drop", "list", "undo"}

Work == [op : Operations, at : Places, c : Charges \cup {None}, pay : Charges \cup {None},
         ok : BOOLEAN, was : Statuses, legs : SUBSET Charges, got : SUBSET Charges,
         missed : SUBSET Charges]

\* The steps of an attempt with points whose Toss charge is still to be made.
Composite(r) == req[r].at \in {"discount", "held", "split"}
\* The steps up to the one that settles the charge or names it to the customer.
Confirming(r) ==
  /\ req[r].op = "confirm"
  /\ req[r].at \in {"discount", "held", "split", "primary", "acting", "refused",
                    "finish", "waiting"}
Settles(r) == req[r].at \in {"finish", "waiting"}
Deciding(r) == req[r].op \in {"approve", "webhook"} /\ req[r].at \in {"stage", "pay", "query", "finish", "waiting"}
\* The charges an attempt has made or has an id for.
Owned(r) == IF Composite(r) THEN {req[r].c, req[r].c + 1} ELSE {req[r].c}

\* Where each operation can be; "capture" follows each authorization.
OfItsKind(r) ==
  LET op == req[r].op
      at == req[r].at
  IN
  /\ at = "idle" <=> op = "none"
  /\ at \in {"discount", "held", "split", "primary", "acting", "refused", "back"} => op = "confirm"
  /\ at \in {"stage", "pay"} => op = "approve"
  /\ at = "query" => op = "webhook"
  /\ at \in {"finish", "waiting"} => op \in {"confirm", "approve", "webhook"}
  /\ at \in {"capture", "legs"} => op \notin Releasers
  /\ at \in {"release", "drop", "list", "undo"} <=> op \in Releasers

\* What a request carries with it.
RequestOK(r) ==
  /\ OfItsKind(r)
  /\ req[r].at = "idle" => req[r] = IdleRequest
  /\ req[r].at \in {"capture", "legs"} => intent \notin Unpaid
  /\ req[r].op = "abandon" <=> lock = r
  /\ Confirming(r) \/ Deciding(r) \/ req[r].at \in {"drop", "back"} => req[r].c \in Charges
  /\ Confirming(r) => /\ req[r].pay = None
                      /\ Owned(r) \subseteq 1 .. made
                      /\ req[r].at \notin {"primary", "acting"} => req[r].legs = {}
  /\ Deciding(r) => req[r].pay \in Charges /\ payment[req[r].pay] # "none"
  /\ req[r].op = "webhook" /\ Deciding(r) => req[r].pay = req[r].c
  /\ req[r].at = "query" => payment[req[r].pay] \in Settled

Charged == [method : {"none", "POINTS", "TOSS"}, amount : 0 .. Payable, status : Statuses,
            key : Charges \cup {None}, staged : Charges \cup {None}]
RowTypes ==
  /\ intent \in Unpaid \cup {"AUTHORIZED", "CAPTURED", "PARTIALLY_CAPTURED", "CANCELED"}
  /\ deferred \in BOOLEAN /\ made \in 0 .. MaxCharges
  /\ charge \in [Charges -> Charged]
  /\ captured \in [Charges -> {"none", "SUCCEEDED", "FAILED"}]
  /\ hold \in [Charges -> {"none", "AUTHORIZED", "CAPTURED", "CANCELLED"}]
  /\ payment \in [Charges -> {"none", "ready"} \cup Settled]
  /\ notices \subseteq Charges /\ flagged \subseteq Charges
  /\ receipts \subseteq Charges \X Settled
OtherTypes ==
  /\ raced \in BOOLEAN /\ dead \subseteq Charges
  /\ starts \in 0 .. MaxStarts /\ faults \in 0 .. MaxFaults
  /\ lock \in Requests \cup {Nobody}

Types ==
  /\ RowTypes /\ OtherTypes
  /\ req \in [Requests -> Work]
  /\ \A r \in Requests : RequestOK(r)
  /\ \A o \in notices : payment[o] \in Settled
  /\ \A c \in Charges : charge[c].staged # None => payment[charge[c].staged] # "none"

\* What a charge, the ledger and Toss say of one order agrees.
ChargeOK(c) ==
  /\ c > made => charge[c] = NoCharge
  /\ charge[c].status \in {"none", "CREATED"} => payment[c] = "none"
  /\ charge[c].status = "none" => hold[c] = "none"
  /\ charge[c].status = "REQUIRES_ACTION" \/ payment[c] # "none" \/ charge[c].key # None
       => charge[c].method = "TOSS"
  /\ hold[c] # "none" => charge[c].method = "POINTS"
  /\ charge[c].method = "TOSS" /\ charge[c].status = "SUCCEEDED" =>
       intent \notin Unpaid /\ (charge[c].key = c \/ c \in lost)
  /\ <<c, "done">> \in receipts => payment[c] \in {"done", "returned"}

\* An attempt has its charges to itself, and nothing is paid or held for them before
\* its own step.
Apart(r) == \A q \in Requests \ {r} : Confirming(q) => Owned(q) \cap Owned(r) = {}
AttemptOK(r) ==
  /\ Composite(r) => charge[req[r].c + 1].status = "none"
  /\ charge[req[r].c].status # "none"
  /\ req[r].at \in {"split", "acting"} => charge[req[r].c].status # "CREATED"
  /\ req[r].at \in {"discount", "held", "split", "refused"} \/ Settles(r)
       => charge[req[r].c].method = "POINTS"
  /\ req[r].at \in {"discount", "primary", "refused"} \/ (Settles(r) /\ ~req[r].ok)
       => hold[req[r].c] = "none"
  /\ req[r].at \in {"primary", "acting"} => payment[req[r].c] = "none"
  /\ req[r].at = "primary" => /\ charge[req[r].c].method \in {"POINTS", "TOSS"}
                              /\ req[r].legs # {} => charge[req[r].c].method = "TOSS"
  /\ req[r].at = "acting" => charge[req[r].c].method = "TOSS"

DecisionOK(r) ==
  /\ req[r].at # "query" => /\ charge[req[r].c].method = "TOSS"
                            /\ charge[req[r].c].status \notin {"none", "CREATED"}
  /\ Settles(r) /\ ~req[r].ok => \/ payment[req[r].pay] \in {"aborted", "expired", "returned"}
                                 \/ req[r].pay \in lost

\* What is listed to be undone, captured or dropped was made.
ListOK(r) ==
  /\ req[r].at = "drop" => charge[req[r].c].status # "none"
  /\ \A c \in req[r].legs : charge[c].status \notin {"none", "CREATED"}

OneActive == \A c \in ActiveCharges, d \in ActiveCharges : c = d

\* Whatever is raced.
Written ==
  /\ \A c \in Charges : ChargeOK(c)
  /\ OneActive
  /\ \A r \in Requests : /\ Confirming(r) => Apart(r) /\ AttemptOK(r)
                         /\ Deciding(r) => DecisionOK(r)
                         /\ ListOK(r)

\* Points are redeemed once the intent is authorized.
Redeemed == \A c \in Charges : hold[c] = "CAPTURED" => intent \notin Unpaid

-----------------------------------------------------------------------------
\* What a request in the middle of something counts on, as long as nothing is raced.

\* One attempt is under way, and the intent and the charges wait for it.
AttemptStands(r) ==
  /\ \A q \in Requests : Confirming(q) => q = r
  /\ IF req[r].at = "acting"
     THEN /\ intent \notin Unpaid \ {"PROCESSING"}
          /\ charge[req[r].c].status \in {"REQUIRES_ACTION", "SUCCEEDED"}
     ELSE /\ intent = "PROCESSING"
          /\ IF req[r].at = "split"
             THEN charge[req[r].c].status = "SUCCEEDED" /\ ActiveCharges = {}
             ELSE charge[req[r].c].status = "CREATED"
  /\ req[r].legs \subseteq Succeeded

DecisionStands(r) ==
  LET status == charge[req[r].c].status IN
  IF req[r].at = "query"
  THEN /\ req[r].was = "REQUIRES_ACTION" => status \in {"REQUIRES_ACTION", "SUCCEEDED"}
       /\ req[r].was = "SUCCEEDED" => status = "SUCCEEDED"
       /\ req[r].was = "FAILED" /\ payment[req[r].c] = "done" => req[r].c \in lost
       /\ req[r].was \notin {"none", "CREATED"}
  ELSE status \in {"REQUIRES_ACTION", "SUCCEEDED"}

\* The charges an attempt under way rests on; none is out of a release's sight.
Stakes(r) == {req[r].c} \cup req[r].legs
ReleaseStands(r) ==
  /\ req[r].at = "drop" => Active(req[r].c)
  /\ req[r].at = "list" =>
       \A q \in Requests : Confirming(q) => Stakes(q) \cap Succeeded # {}
  /\ req[r].at = "undo" =>
       \A q \in Requests : Confirming(q) => Stakes(q) \cap req[r].legs # {}
  /\ req[r].op = "cancel" =>
       /\ req[r].at \in {"list", "undo"} => ActiveCharges = {}
       /\ req[r].at = "undo" => Succeeded \subseteq req[r].legs

Stands(r) ==
  /\ Confirming(r) => AttemptStands(r)
  /\ Deciding(r) => DecisionStands(r)
  /\ req[r].op \in Releasers => ReleaseStands(r)

\* Points are held for a charge that succeeded, or for one whose attempt is about to
\* say so.
Backed(c) ==
  hold[c] \in {"AUTHORIZED", "CAPTURED"} =>
    \/ charge[c].status = "SUCCEEDED"
    \/ /\ charge[c].status = "CREATED" /\ hold[c] = "AUTHORIZED"
       /\ \E r \in Requests : /\ Confirming(r) /\ req[r].c = c
                              /\ req[r].at = "held" \/ (Settles(r) /\ req[r].ok)

\* Toss itself sees to it that money is known: by its notice, until a webhook that
\* carries it has been through.
Known(o) ==
  payment[o] = "done" =>
    \/ \E c \in Succeeded : charge[c].key = o
    \/ o \in flagged
    \/ o \in notices /\ <<o, "done">> \notin receipts
    \/ \E r \in Requests : req[r].op = "webhook" /\ Settles(r) /\ req[r].ok /\ req[r].pay = o
\* A charge that failed was not paid, and its window is closed.
Failed(c) ==
  charge[c].status = "FAILED" => payment[c] \notin {"ready", "done"}

Calm ==
  /\ \A r \in Requests : Stands(r)
  /\ \A c \in Charges \ dead : Backed(c)
  /\ \A c \in Charges \ lost : Known(c) /\ Failed(c)
  /\ intent = "CANCELED" => ActiveCharges = {} /\ Succeeded = {}

IInv == Types /\ Written /\ Redeemed /\ (~raced => Calm)

-----------------------------------------------------------------------------
LEMMA MinIn ==
  ASSUME NEW S, S \subseteq Charges, S # {} PROVE Min(S) \in S
  <1>1. S \subseteq Nat
    BY PaymentsAssumption DEF Charges
  <1>2. PICK x \in S : \A y \in S : ~(<<y, x>> \in OpToRel(<, Nat))
    BY <1>1, NatLessThanWellFounded, WFMin
  <1>3. \A y \in S : x =< y
    <2> SUFFICES ASSUME NEW y \in S PROVE x =< y
      OBVIOUS
    <2>1. x \in Nat /\ y \in Nat
      BY <1>1
    <2>2. ~(y < x)
      BY <1>2, <2>1 DEF OpToRel
    <2> QED BY <2>1, <2>2
  <1> QED BY <1>3 DEF Min

\* The charges the model picks are charges.
LEMMA Picked ==
  ASSUME Types
  PROVE  /\ ActiveCharges \subseteq Charges /\ Succeeded \subseteq Charges
         /\ StaleHold \subseteq PointsHeld /\ PointsHeld \subseteq Succeeded
         /\ PointsHeld # {} => StaleHold # {}
  <1>1. PointsHeld \subseteq Succeeded /\ Succeeded \subseteq Charges
    BY DEF PointsHeld, Succeeded
  <1>2. PointsHeld # {} => Min(PointsHeld) \in PointsHeld
    BY <1>1, MinIn
  <1> QED BY <1>1, <1>2 DEF ActiveCharges, StaleHold

LEMMA TypesOK == Types => TypeOK
  <1> SUFFICES ASSUME Types PROVE TypeOK
    OBVIOUS
  <1>1. ASSUME NEW r \in Requests
        PROVE  /\ req[r].c \in Charges \cup {None} /\ req[r].pay \in Charges \cup {None}
               /\ req[r].legs \cup req[r].got \cup req[r].missed \subseteq Charges
    BY DEF Types, Work
  <1> QED BY <1>1 DEF Types, RowTypes, OtherTypes, TypeOK, Charged, Statuses, Settled

LEMMA IdleWork == IdleRequest \in Work
  BY DEF IdleRequest, Work, Operations, Places, Statuses

LEMMA TurnsMoves ==
  ASSUME req \in [Requests -> Work], NEW r \in Requests, NEW w \in Work,
         req' = [req EXCEPT ![r] = w]
  PROVE  /\ req' \in [Requests -> Work] /\ req'[r] = w
         /\ \A q \in Requests \ {r} : req'[q] = req[q]
  OBVIOUS

LEMMA EndsMoves ==
  ASSUME req \in [Requests -> Work], NEW r \in Requests, Ends(r)
  PROVE  /\ req' \in [Requests -> Work] /\ req'[r] = IdleRequest
         /\ \A q \in Requests \ {r} : req'[q] = req[q]
  BY IdleWork DEF Ends

LEMMA GoesMoves ==
  ASSUME req \in [Requests -> Work], NEW r \in Requests, NEW at \in Places, Goes(r, at)
  PROVE  /\ req' \in [Requests -> Work] /\ req'[r] = [req[r] EXCEPT !.at = at]
         /\ \A q \in Requests \ {r} : req'[q] = req[q]
  BY DEF Goes, Work

LEMMA SettlesMoves ==
  ASSUME req \in [Requests -> Work], NEW r \in Requests, NEW ok \in BOOLEAN,
         req' = [req EXCEPT ![r].at = "finish", ![r].ok = ok]
  PROVE  /\ req' \in [Requests -> Work]
         /\ req'[r] = [req[r] EXCEPT !.at = "finish", !.ok = ok]
         /\ \A q \in Requests \ {r} : req'[q] = req[q]
  <1> DEFINE w == [req[r] EXCEPT !.at = "finish", !.ok = ok]
  <1>1. req[r] \in Work
    OBVIOUS
  <1>2. w \in Work
    BY <1>1 DEF Work, Places
  <1>3. req' = [req EXCEPT ![r] = w]
    OBVIOUS
  <1> HIDE DEF w
  <1>4. req' \in [Requests -> Work] /\ req'[r] = w
        /\ \A q \in Requests \ {r} : req'[q] = req[q]
    BY <1>2, <1>3, TurnsMoves
  <1> QED BY <1>4 DEF w

LEMMA DecidesMoves ==
  ASSUME req \in [Requests -> Work], NEW r \in Requests, NEW op \in Operations,
         NEW at \in Places, NEW c \in Charges, NEW pay \in Charges \cup {None},
         req' = [req EXCEPT ![r].op = op, ![r].c = c, ![r].pay = pay, ![r].at = at]
  PROVE  /\ req' \in [Requests -> Work]
         /\ req'[r] = [req[r] EXCEPT !.op = op, !.c = c, !.pay = pay, !.at = at]
         /\ \A q \in Requests \ {r} : req'[q] = req[q]
  <1> DEFINE w == [req[r] EXCEPT !.op = op, !.c = c, !.pay = pay, !.at = at]
  <1>1. req[r] \in Work
    OBVIOUS
  <1>2. w \in Work
    BY <1>1 DEF Work
  <1>3. req' = [req EXCEPT ![r] = w]
    OBVIOUS
  <1> HIDE DEF w
  <1>4. req' \in [Requests -> Work] /\ req'[r] = w
        /\ \A q \in Requests \ {r} : req'[q] = req[q]
    BY <1>2, <1>3, TurnsMoves
  <1> QED BY <1>4 DEF w

\* A step is of one request; the others stay where they are.
LEMMA RequestMoves ==
  ASSUME Types, NEW r \in Requests, Start(r) \/ Step(r) \/ Dies(r)
  PROVE  /\ req' \in [Requests -> Work]
         /\ \A q \in Requests \ {r} : req'[q] = req[q]
  <1> USE DEF Types
  <1> DEFINE Goal == /\ req' \in [Requests -> Work]
                     /\ \A q \in Requests \ {r} : req'[q] = req[q]
  <1>0. /\ req \in [Requests -> Work] /\ req[r] \in Work /\ made \in Nat
        /\ ActiveCharges \subseteq Charges /\ Succeeded \subseteq Charges
        /\ charge \in [Charges -> [method : {"none", "POINTS", "TOSS"}, amount : 0 .. Payable,
               status : Statuses, key : Charges \cup {None}, staged : Charges \cup {None}]]
    BY Picked, PaymentsAssumption DEF RowTypes, Charged
  <1>1. Ends(r) => Goal
    BY EndsMoves
  <1>2. \A at \in Places : Goes(r, at) => Goal
    BY GoesMoves
  <1> HIDE DEF Types
  <1>3. ASSUME NEW plan \in Plans, Confirm(r, plan) PROVE Goal
    <2>1. made + 1 \in Charges
      BY <1>0, <1>3, PaymentsAssumption DEF Confirm, Charges
    <2> QED BY <1>0, <1>3, <2>1 DEF Confirm, Work, Operations, Places
  <1>4. CASE ConfirmAgain(r)
    BY <1>0, <1>4 DEF ConfirmAgain
  <1>5. CASE CaptureStarts(r)
    BY <1>0, <1>5 DEF CaptureStarts, Work, Operations, Places
  <1>6. CASE FinalizeDeferred(r)
    <2>1. PICK c \in ActiveCharges : req' = [req EXCEPT ![r].op = "approve", ![r].c = c,
                                          ![r].pay = charge[c].staged, ![r].at = "pay"]
      BY <1>6 DEF FinalizeDeferred
    <2>2. charge[c].staged \in Charges \cup {None} /\ c \in Charges
      BY <1>0
    <2>3. "approve" \in Operations /\ "pay" \in Places
      BY DEF Operations, Places
    <2> HIDE DEF Goal
    <2>4. /\ req' \in [Requests -> Work]
          /\ \A q \in Requests \ {r} : req'[q] = req[q]
      BY <1>0, <2>1, <2>2, <2>3, DecidesMoves
    <2> QED BY <2>4 DEF Goal
  <1>7. CASE Abandon(r)
    BY <1>0, <1>7 DEF Abandon, Work, Operations, Places
  <1>8. CASE Cancel(r)
    BY <1>0, <1>8 DEF Cancel, Work, Operations, Places
  <1>9. ASSUME NEW o \in Charges, Approve(r, o) PROVE Goal
    <2> DEFINE at == IF deferred THEN "stage" ELSE "pay"
    <2>1. PICK c \in ActiveCharges : req' = [req EXCEPT ![r].op = "approve", ![r].c = c,
                                          ![r].pay = o, ![r].at = at]
      BY <1>9 DEF Approve
    <2>2. at \in Places
      BY DEF Places
    <2> HIDE DEF at
    <2> QED BY <1>0, <2>1, <2>2, DecidesMoves DEF Operations
  <1>10. ASSUME NEW o \in Charges, NoticeComes(r, o) PROVE Goal
    <2>1. charge[o].status \in Statuses
      BY <1>0
    <2> QED BY <1>0, <1>10, <2>1 DEF NoticeComes, Work, Operations, Places
  <1>11. CASE HoldPoints(r)
    <2>1. Goes(r, "held") \/ req' = [req EXCEPT ![r].at = "finish", ![r].ok = FALSE]
      BY <1>11 DEF HoldPoints
    <2> QED BY <1>0, <1>2, <2>1, SettlesMoves DEF Places
  <1>12. CASE MarkHeld(r)
    BY <1>2, <1>12 DEF MarkHeld, Places
  <1>13. CASE MakePrimary(r)
    <2>1. /\ req[r].c + 1 \in Charges /\ req[r].c \in Charges
      <3>1. Confirming(r) /\ Owned(r) = {req[r].c, req[r].c + 1}
        BY <1>13 DEF MakePrimary, Types, RequestOK, OfItsKind, Confirming, Owned, Composite
      <3>2. Owned(r) \subseteq 1 .. made /\ made \in 0 .. MaxCharges
        BY <3>1 DEF Types, RowTypes, RequestOK
      <3> QED BY <3>1, <3>2, PaymentsAssumption DEF Charges
    <2> QED BY <1>0, <1>1, <1>13, <2>1 DEF MakePrimary, Work, Operations, Places
  <1>14. CASE PointsPrimary(r)
    <2>1. Goes(r, "refused") \/ req' = [req EXCEPT ![r].at = "finish", ![r].ok = TRUE]
      BY <1>14 DEF PointsPrimary
    <2> QED BY <1>0, <1>2, <2>1, SettlesMoves DEF Places
  <1>15. CASE TossPrimary(r)
    BY <1>1, <1>2, <1>15 DEF TossPrimary, Places
  <1>16. CASE AskCustomer(r)
    BY <1>1, <1>16 DEF AskCustomer
  <1>17. CASE Refused(r)
    BY <1>1, <1>2, <1>17 DEF Refused, Places
  <1>18. CASE Finish(r)
    <2>1. Ends(r) \/ req' = [req EXCEPT ![r] = [IdleRequest EXCEPT !.op = req[r].op, !.at = "capture"]]
      BY <1>18 DEF Finish
    <2>2. [IdleRequest EXCEPT !.op = req[r].op, !.at = "capture"] \in Work
      BY <1>0 DEF IdleRequest, Work, Places, Statuses
    <2> QED BY <1>0, <1>1, <2>1, <2>2
  <1>19. CASE Wait(r)
    BY <1>2, <1>19 DEF Wait, Places
  <1>20. CASE ListLegs(r)
    BY <1>0, <1>1, <1>20 DEF ListLegs, Work, Places
  <1>21. CASE CaptureLeg(r)
    <2>1. Min(req[r].legs) \in Charges
      BY <1>0, <1>21, MinIn DEF CaptureLeg, Work
    <2> DEFINE ok == \/ captured[Min(req[r].legs)] = "SUCCEEDED"
                     \/ charge[Min(req[r].legs)].method = "TOSS"
                     \/ hold[Min(req[r].legs)] \in {"AUTHORIZED", "CAPTURED"}
               got == IF ok THEN req[r].got \cup {Min(req[r].legs)} ELSE req[r].got
               missed == IF ok THEN req[r].missed ELSE req[r].missed \cup {Min(req[r].legs)}
    <2>2. got \in SUBSET Charges /\ missed \in SUBSET Charges
          /\ req[r].legs \ {Min(req[r].legs)} \in SUBSET Charges
      BY <1>0, <2>1 DEF Work
    <2>3. req' = [req EXCEPT ![r].legs = @ \ {Min(req[r].legs)}, ![r].got = got, ![r].missed = missed]
      BY <1>21 DEF CaptureLeg
    <2> HIDE DEF got, missed
    <2> QED BY <1>0, <2>2, <2>3 DEF Work
  <1>22. CASE Capture(r)
    BY <1>1, <1>22 DEF Capture
  <1>23. CASE Stage(r)
    BY <1>1, <1>23 DEF Stage
  <1>24. CASE Pay(r)
    <2>1. \E ok \in BOOLEAN : req' = [req EXCEPT ![r].at = "finish", ![r].ok = ok]
      BY <1>24 DEF Pay
    <2> QED BY <1>0, <2>1, SettlesMoves
  <1>25. CASE Query(r)
    <2>1. Ends(r) \/ \E ok \in BOOLEAN : req' = [req EXCEPT ![r].at = "finish", ![r].ok = ok]
      BY <1>25 DEF Query
    <2> QED BY <1>0, <1>1, <2>1, SettlesMoves
  <1>26. CASE FindActive(r)
    <2>1. \/ Goes(r, "list")
          \/ \E c \in ActiveCharges : req' = [req EXCEPT ![r].at = "drop", ![r].c = c]
      BY <1>26 DEF FindActive
    <2> QED BY <1>0, <1>2, <2>1 DEF Work, Places
  <1>27. CASE DropActive(r)
    BY <1>0, <1>27 DEF DropActive, Work, Places
  <1>28. CASE ListSucceeded(r)
    BY <1>0, <1>28 DEF ListSucceeded, Work, Places
  <1>29. CASE UndoLeg(r)
    <2>1. Min(req[r].legs) \in Charges
      BY <1>0, <1>29, MinIn DEF UndoLeg, Work
    <2>2. \/ Ends(r)
          \/ req' = [req EXCEPT ![r].legs = @ \ {Min(req[r].legs)}, ![r].got = @ \cup {Min(req[r].legs)}]
      BY <1>29 DEF UndoLeg
    <2> QED BY <1>0, <1>1, <2>1, <2>2 DEF Work
  <1>30. CASE CloseIntent(r)
    BY <1>1, <1>30 DEF CloseIntent
  <1>31. CASE Dies(r)
    BY <1>1, <1>31 DEF Dies
  <1>32. CASE Start(r)
    BY <1>3, <1>4, <1>5, <1>6, <1>7, <1>8, <1>9, <1>10, <1>32 DEF Start
  <1>33. CASE Step(r)
    BY <1>11, <1>12, <1>13, <1>14, <1>15, <1>16, <1>17, <1>18, <1>19, <1>20, <1>21, <1>22,
       <1>23, <1>24, <1>25, <1>26, <1>27, <1>28, <1>29, <1>30, <1>33
       DEF Step, Confirmation, Completion, Release
  <1> QED BY <1>31, <1>32, <1>33

-----------------------------------------------------------------------------
(* Types *)

\* What a step of one request leaves to the others.
Keeps(r) ==
  /\ \A q \in Requests \ {r} : req'[q] = req[q] /\ (lock' = q <=> lock = q)
  /\ intent \notin Unpaid => intent' \notin Unpaid
  /\ made <= made'
  /\ \A o \in Charges : /\ payment[o] # "none" => payment'[o] # "none"
                        /\ payment[o] \in Settled => payment'[o] \in Settled

LEMMA OthersTypes ==
  ASSUME Types, NEW r \in Requests, Keeps(r), made' \in Nat, NEW q \in Requests \ {r}
  PROVE  RequestOK(q)'
  <1>1. req'[q] = req[q] /\ (lock' = q <=> lock = q) /\ RequestOK(q) /\ made \in Nat
        /\ Owned(q)' = Owned(q)
    <2>1. req'[q] = req[q] /\ (lock' = q <=> lock = q)
      BY DEF Keeps
    <2>2. Owned(q)' = Owned(q)
      BY <2>1 DEF Owned, Composite
    <2> QED BY <2>1, <2>2, PaymentsAssumption DEF Types, RowTypes
  <1>2. OfItsKind(q)' /\ (Confirming(q)' <=> Confirming(q)) /\ (Deciding(q)' <=> Deciding(q))
    BY <1>1 DEF OfItsKind, Confirming, Deciding, RequestOK
  <1>3. 1 .. made \subseteq 1 .. made'
    BY <1>1 DEF Keeps
  <1>4. Deciding(q) => payment'[req[q].pay] # "none"
    BY <1>1 DEF RequestOK, Keeps
  <1>5. req[q].at = "query" => payment'[req[q].pay] \in Settled
    <2>1. req[q].at = "query" => Deciding(q)
      BY <1>1 DEF RequestOK, OfItsKind, Deciding
    <2> QED BY <1>1, <2>1 DEF RequestOK, Keeps
  <1> QED BY <1>1, <1>2, <1>3, <1>4, <1>5 DEF RequestOK, Keeps

LEMMA IdleOK ==
  ASSUME NEW r \in Requests, req'[r] = IdleRequest, lock' # r
  PROVE  RequestOK(r)' /\ ~Confirming(r)' /\ ~Deciding(r)'
  BY DEF RequestOK, OfItsKind, Confirming, Deciding, IdleRequest, Releasers

LEMMA StepTypes ==
  ASSUME Types, NEW r \in Requests, Keeps(r), RowTypes', OtherTypes',
         req' \in [Requests -> Work], RequestOK(r)',
         \A o \in notices' : payment'[o] \in Settled,
         \A c \in Charges : charge'[c].staged # None => payment'[charge'[c].staged] # "none"
  PROVE  Types'
  <1>1. made' \in Nat
    BY PaymentsAssumption DEF RowTypes
  <1>2. \A q \in Requests : RequestOK(q)'
    BY <1>1, OthersTypes
  <1> QED BY <1>2 DEF Types

\* Only the request moves.
Rows == <<intent, deferred, rows, ledger, toss, hooks>>
LEMMA QuietTypes ==
  ASSUME Types, NEW r \in Requests, UNCHANGED Rows, OtherTypes',
         req' \in [Requests -> Work], RequestOK(r)',
         \A q \in Requests \ {r} : req'[q] = req[q] /\ (lock' = q <=> lock = q)
  PROVE  Types'
  <1>1. Keeps(r)
    BY PaymentsAssumption DEF Rows, rows, toss, Keeps, Types, RowTypes
  <1>2. RowTypes'
    BY DEF Rows, rows, ledger, toss, hooks, Types, RowTypes
  <1>3. /\ \A o \in notices' : payment'[o] \in Settled
        /\ \A c \in Charges : charge'[c].staged # None => payment'[charge'[c].staged] # "none"
    BY DEF Rows, rows, toss, Types
  <1> QED BY <1>1, <1>2, <1>3, StepTypes

LEMMA HistoryTypes ==
  ASSUME Types, NEW r \in Requests, Start(r) \/ Step(r), starts' \in 0 .. MaxStarts
  PROVE  OtherTypes'
  <1> USE DEF Types, OtherTypes
  <1>1. \A cs : Releases(r, cs) => raced' \in BOOLEAN
    BY DEF Releases
  <1>2. \A cs : Writes(r, cs) => raced' \in BOOLEAN
    BY DEF Writes
  <1>3. CASE Start(r)
    BY <1>1, <1>3 DEF Start, Confirm, ConfirmAgain, CaptureStarts, FinalizeDeferred, Abandon,
                      Cancel, Approve, NoticeComes, history
  <1>4. CASE Confirmation(r)
    BY <1>1, <1>2, <1>4 DEF Confirmation, HoldPoints, MarkHeld, MakePrimary, PointsPrimary,
                            TossPrimary, AskCustomer, Refused, history
  <1>5. CASE Completion(r)
    BY <1>1, <1>2, <1>5 DEF Completion, Finish, Wait, ListLegs, CaptureLeg, Capture, history
  <1>6. CASE Release(r)
    BY <1>1, <1>6 DEF Release, FindActive, DropActive, ListSucceeded, UndoLeg, CloseIntent,
                      Unlock, history
  <1>7. CASE Stage(r) \/ Pay(r) \/ Query(r)
    BY <1>7 DEF Stage, Pay, Query, history
  <1> QED BY <1>3, <1>4, <1>5, <1>6, <1>7 DEF Step

\* A charge gets another status.
LEMMA StatusTypes ==
  ASSUME charge \in [Charges -> Charged], NEW cs, NEW status \in Statuses
  PROVE  Status(cs, status) \in [Charges -> Charged]
  BY DEF Status, Charged

LEMMA StagedKept ==
  ASSUME Types, NEW r \in Requests, Keeps(r), RowTypes', NEW c \in Charges,
         charge'[c].staged \in {None, charge[c].staged}
  PROVE  charge'[c].staged # None => payment'[charge'[c].staged] # "none"
  BY DEF Types, RowTypes, Charged, Keeps

LEMMA UnheldTypes ==
  ASSUME Types, NEW cs, Unheld(cs)
  PROVE  hold' \in [Charges -> {"none", "AUTHORIZED", "CAPTURED", "CANCELLED"}]
  BY DEF Unheld, Types, RowTypes

LEMMA NewChargeFacts ==
  ASSUME NEW method \in {"POINTS", "TOSS"}, NEW amount \in 0 .. Payable
  PROVE  /\ NewCharge(method, amount) \in Charged
         /\ NewCharge(method, amount).method = method
         /\ NewCharge(method, amount).amount = amount
         /\ NewCharge(method, amount).status = "CREATED"
         /\ NewCharge(method, amount).key = None /\ NewCharge(method, amount).staged = None
  <1>1. NoCharge \in Charged
    BY PaymentsAssumption DEF NoCharge, Charged, Statuses
  <1>2. NewCharge(method, amount) \in Charged
    BY <1>1 DEF NewCharge, Charged, Statuses
  <1> QED BY <1>2 DEF NewCharge, NoCharge

LEMMA FirstChargeFacts ==
  ASSUME NEW plan \in Plans
  PROVE  /\ FirstCharge(plan) \in Charged
         /\ FirstCharge(plan).method = IF plan = "toss" THEN "TOSS" ELSE "POINTS"
         /\ FirstCharge(plan).amount = IF plan = "both" THEN PointsPart ELSE Payable
         /\ FirstCharge(plan).status = "CREATED"
         /\ FirstCharge(plan).key = None /\ FirstCharge(plan).staged = None
  <1>1. Payable \in 0 .. Payable /\ PointsPart \in 0 .. Payable
    BY PaymentsAssumption
  <1>2. CASE plan = "points"
    BY <1>1, <1>2, NewChargeFacts DEF FirstCharge
  <1>3. CASE plan = "toss"
    BY <1>1, <1>3, NewChargeFacts DEF FirstCharge
  <1>4. CASE plan = "both"
    BY <1>1, <1>4, NewChargeFacts DEF FirstCharge
  <1> QED BY <1>2, <1>3, <1>4 DEF Plans

LEMMA ConfirmTypes ==
  ASSUME Types, NEW r \in Requests, NEW plan \in Plans, Confirm(r, plan), OtherTypes'
  PROVE  Types'
  <1> DEFINE c == made + 1
             old == ActiveCharges \cup StaleHold
  <1>1. /\ req[r] = IdleRequest /\ made \in 0 .. MaxCharges /\ c \in Charges
        /\ made' = made + (IF plan = "both" THEN 2 ELSE 1) /\ made' \in 0 .. MaxCharges
    BY PaymentsAssumption DEF Confirm, Types, RowTypes, RequestOK, Idle, Charges
  <1>2. charge' = [Status(old, "CANCELED") EXCEPT ![c] = FirstCharge(plan)]
    BY DEF Confirm
  <1>3. Status(old, "CANCELED") \in [Charges -> Charged] /\ FirstCharge(plan) \in Charged
    BY StatusTypes, FirstChargeFacts DEF Types, RowTypes, Statuses, Charged
  <1>4. charge' \in [Charges -> Charged]
    BY <1>2, <1>3
  <1>5. RowTypes'
    BY <1>1, <1>4, UnheldTypes DEF Confirm, toss, hooks, Types, RowTypes, Unpaid
  <1>6. intent \in Unpaid
    BY DEF Confirm, Unpaid
  <1>7. \A d \in Charges : charge'[d].staged \in {None, charge[d].staged}
    <2> SUFFICES ASSUME NEW d \in Charges PROVE charge'[d].staged \in {None, charge[d].staged}
      OBVIOUS
    <2>1. CASE d = c
      BY <1>1, <1>2, <1>3, <2>1, FirstChargeFacts
    <2>2. CASE d # c
      <3>1. charge'[d] = Status(old, "CANCELED")[d]
        BY <1>2, <1>3, <2>2
      <3>2. charge[d] \in Charged
        BY DEF Types, RowTypes
      <3> QED BY <3>1, <3>2 DEF Status, Charged
    <2> QED BY <2>1, <2>2
  <1>8. Keeps(r)
    <2>1. /\ \A q \in Requests \ {r} : req'[q] = req[q]
          /\ payment' = payment /\ lock' = lock
      BY RequestMoves DEF Confirm, Start, toss
    <2>2. made <= made'
      BY <1>1
    <2> QED BY <1>6, <2>1, <2>2 DEF Keeps
  <1>9. /\ req'[r].op = "confirm" /\ req'[r].c = c /\ req'[r].pay = None /\ req'[r].legs = {}
        /\ req'[r].at = IF plan = "both" THEN "discount" ELSE "primary"
    BY <1>1 DEF Confirm, IdleRequest, Types, Work
  <1>10. Owned(r)' \subseteq 1 .. made'
    <2>1. CASE plan = "both"
      BY <1>1, <1>9, <2>1 DEF Owned, Composite
    <2>2. CASE plan # "both"
      BY <1>1, <1>9, <2>2 DEF Owned, Composite
    <2> QED BY <2>1, <2>2
  <1>11. lock' # r
    BY PaymentsAssumption DEF Confirm, Unlocked
  <1>12. RequestOK(r)'
    BY <1>1, <1>9, <1>10, <1>11 DEF RequestOK, OfItsKind, Confirming, Deciding, Releasers
  <1>13. req' \in [Requests -> Work]
    BY RequestMoves DEF Start
  <1>14. /\ \A o \in notices' : payment'[o] \in Settled
         /\ \A d \in Charges : charge'[d].staged # None => payment'[charge'[d].staged] # "none"
    BY <1>5, <1>7, <1>8, StagedKept DEF Confirm, toss, Types
  <1> QED BY <1>5, <1>8, <1>12, <1>13, <1>14, StepTypes

\* Toss is not touched.
LEMMA ChargesTypes ==
  ASSUME Types, NEW r \in Requests, UNCHANGED <<toss, made>>,
         intent \notin Unpaid => intent' \notin Unpaid,
         \A q \in Requests \ {r} : req'[q] = req[q] /\ (lock' = q <=> lock = q),
         RowTypes', OtherTypes', req' \in [Requests -> Work], RequestOK(r)',
         \A c \in Charges : charge'[c].staged \in {None, charge[c].staged}
  PROVE  Types'
  <1>1. Keeps(r)
    BY PaymentsAssumption DEF toss, Keeps, Types, RowTypes
  <1>2. /\ \A o \in notices' : payment'[o] \in Settled
        /\ \A c \in Charges : charge'[c].staged # None => payment'[charge'[c].staged] # "none"
    BY <1>1, StagedKept DEF toss, Types
  <1> QED BY <1>1, <1>2, StepTypes

LEMMA StatusKeeps ==
  ASSUME charge \in [Charges -> Charged], NEW cs, NEW status
  PROVE  \A c \in Charges : Status(cs, status)[c].staged \in {None, charge[c].staged}
  BY DEF Status, Charged

LEMMA Idles ==
  ASSUME Types, NEW r \in Requests, Idle(r)
  PROVE  req[r] = IdleRequest /\ lock # r /\ ~Confirming(r) /\ ~Deciding(r)
  BY DEF Types, RequestOK, Idle, IdleRequest, Confirming, Deciding

LEMMA StartsTypes ==
  ASSUME Types, NEW r \in Requests, Start(r), OtherTypes'
  PROVE  Types'
  <1>0. /\ req' \in [Requests -> Work] /\ \A q \in Requests \ {r} : req'[q] = req[q]
        /\ req \in [Requests -> Work] /\ OtherTypes /\ Nobody \notin Requests
    BY RequestMoves, PaymentsAssumption DEF Types
  <1>1. ASSUME NEW plan \in Plans, Confirm(r, plan) PROVE Types'
    BY <1>1, ConfirmTypes
  <1>2. CASE ConfirmAgain(r)
    <2>1. hold' \in [Charges -> {"none", "AUTHORIZED", "CAPTURED", "CANCELLED"}]
          /\ charge' \in [Charges -> Charged]
          /\ \A c \in Charges : charge'[c].staged \in {None, charge[c].staged}
      BY <1>2, UnheldTypes, StatusTypes, StatusKeeps DEF ConfirmAgain, Types, RowTypes, Statuses
    <2>2. RequestOK(r)' /\ Idle(r)
      BY <1>2, Idles, IdleOK DEF ConfirmAgain
    <2>3. RowTypes'
      BY <1>2, <2>1 DEF ConfirmAgain, Types, RowTypes, toss, hooks
    <2> QED BY <1>0, <1>2, <2>1, <2>2, <2>3, ChargesTypes DEF ConfirmAgain
  <1> DEFINE Quiet == UNCHANGED Rows /\ (\A q \in Requests \ {r} : lock' = q <=> lock = q)
  <1>3. CASE CaptureStarts(r)
    <2>1. Quiet /\ lock' # r /\ intent' \notin Unpaid
      BY <1>3, Idles DEF CaptureStarts, Rows, history, Unpaid
    <2>2. req'[r].op = "capture" /\ req'[r].at = "capture"
      BY <1>0, <1>3 DEF CaptureStarts, Work
    <2>3. RequestOK(r)'
      BY <2>1, <2>2 DEF RequestOK, OfItsKind, Confirming, Deciding, Releasers
    <2> QED BY <1>0, <2>1, <2>3, QuietTypes
  <1>4. CASE FinalizeDeferred(r)
    <2>1. PICK c \in ActiveCharges :
             /\ charge[c].staged # None
             /\ req' = [req EXCEPT ![r].op = "approve", ![r].c = c, ![r].pay = charge[c].staged,
                                   ![r].at = "pay"]
      BY <1>4 DEF FinalizeDeferred
    <2>2. c \in Charges /\ charge[c].staged \in Charges /\ payment[charge[c].staged] # "none"
      BY <2>1, Picked DEF Types, RowTypes, Charged
    <2>3. Quiet /\ lock' # r
      BY <1>4, Idles DEF FinalizeDeferred, Rows, history
    <2>4. /\ req'[r].op = "approve" /\ req'[r].at = "pay" /\ req'[r].c = c
          /\ req'[r].pay = charge[c].staged
      BY <1>0, <2>1 DEF Work
    <2>5. payment' = payment
      BY <2>3 DEF Rows, toss
    <2>6. RequestOK(r)'
      BY <2>2, <2>3, <2>4, <2>5 DEF RequestOK, OfItsKind, Confirming, Deciding, Releasers
    <2> QED BY <1>0, <2>3, <2>6, QuietTypes
  <1>5. CASE Abandon(r)
    <2>1. Quiet /\ lock' = r
      BY <1>0, <1>5 DEF Abandon, Rows, history, Unlocked
    <2>2. req'[r].op = "abandon" /\ req'[r].at = "release"
      BY <1>0, <1>5 DEF Abandon, Work
    <2>3. RequestOK(r)'
      BY <2>1, <2>2 DEF RequestOK, OfItsKind, Confirming, Deciding, Releasers
    <2> QED BY <1>0, <2>1, <2>3, QuietTypes
  <1>6. CASE Cancel(r)
    <2>1. Quiet /\ lock' # r
      BY <1>6, Idles DEF Cancel, Rows, history
    <2>2. req'[r].op = "cancel" /\ req'[r].at = "release"
      BY <1>0, <1>6 DEF Cancel, Work
    <2>3. RequestOK(r)'
      BY <2>1, <2>2 DEF RequestOK, OfItsKind, Confirming, Deciding, Releasers
    <2> QED BY <1>0, <2>1, <2>3, QuietTypes
  <1>7. ASSUME NEW o \in Charges, Approve(r, o) PROVE Types'
    <2>1. PICK c \in ActiveCharges :
             req' = [req EXCEPT ![r].op = "approve", ![r].c = c, ![r].pay = o,
                                ![r].at = IF deferred THEN "stage" ELSE "pay"]
      BY <1>7 DEF Approve
    <2>2. c \in Charges /\ payment[o] # "none"
      BY <1>7, Picked DEF Approve
    <2>3. Quiet /\ lock' # r
      BY <1>7, Idles DEF Approve, Rows, history
    <2>4. /\ req'[r].op = "approve" /\ req'[r].at \in {"stage", "pay"} /\ req'[r].c = c
          /\ req'[r].pay = o
      BY <1>0, <2>1 DEF Work
    <2>5. payment' = payment
      BY <2>3 DEF Rows, toss
    <2>6. RequestOK(r)'
      BY <2>2, <2>3, <2>4, <2>5 DEF RequestOK, OfItsKind, Confirming, Deciding, Releasers
    <2> QED BY <1>0, <2>3, <2>6, QuietTypes
  <1>8. ASSUME NEW o \in Charges, NoticeComes(r, o) PROVE Types'
    <2>1. Quiet /\ lock' # r /\ payment[o] \in Settled
      BY <1>8, Idles DEF NoticeComes, Rows, history, Types
    <2>2. /\ req'[r].op = "webhook" /\ req'[r].at = "query" /\ req'[r].c = o
          /\ req'[r].pay = o
      BY <1>0, <1>8 DEF NoticeComes, Work
    <2>3. payment' = payment
      BY <2>1 DEF Rows, toss
    <2>4. RequestOK(r)'
      BY <2>1, <2>2, <2>3 DEF RequestOK, OfItsKind, Confirming, Deciding, Releasers, Settled
    <2> QED BY <1>0, <2>1, <2>4, QuietTypes
  <1> QED BY <1>1, <1>2, <1>3, <1>4, <1>5, <1>6, <1>7, <1>8 DEF Start

\* Where an attempt stands says what it has.
LEMMA AttemptFacts ==
  ASSUME Types, NEW r \in Requests,
         req[r].at \in {"discount", "held", "split", "primary", "acting", "refused"}
  PROVE  /\ req[r].op = "confirm" /\ Confirming(r) /\ lock # r
         /\ req[r].c \in Charges /\ req[r].pay = None /\ Owned(r) \subseteq 1 .. made
         /\ req[r].at \notin {"primary", "acting"} => req[r].legs = {}
         /\ Composite(r) => req[r].c + 1 \in 1 .. made
         /\ 1 .. made \subseteq Charges
  <1>1. RequestOK(r) /\ req[r].op = "confirm"
    BY DEF Types, RequestOK, OfItsKind
  <1>2. Confirming(r)
    BY <1>1 DEF Confirming
  <1>3. Composite(r) => req[r].c + 1 \in Owned(r)
    BY DEF Owned
  <1> QED BY <1>1, <1>2, <1>3, PaymentsAssumption DEF RequestOK, Types, RowTypes, Charges

\* An attempt goes on with its charge.
LEMMA GoesOn ==
  ASSUME Types, NEW r \in Requests,
         req[r].at \in {"discount", "held", "split", "primary", "acting", "refused"},
         made' = made, lock' # r, req'[r].op = req[r].op, req'[r].c = req[r].c, req'[r].pay = req[r].pay,
         req'[r].legs = req[r].legs,
         \/ req'[r].at = "held" /\ Composite(r)
         \/ req'[r].at = "split" /\ Composite(r)
         \/ req'[r].at = "finish" /\ req[r].legs = {}
         \/ req'[r].at = "refused" /\ req[r].legs = {}
         \/ req'[r].at \in {"acting", "back"}
  PROVE  RequestOK(r)'
  <1>1. req[r].c \in Owned(r) /\ (Composite(r)' => Owned(r)' = Owned(r))
    BY DEF Owned, Composite
  <1>2. Owned(r)' \subseteq 1 .. made'
    BY <1>1, AttemptFacts DEF Owned
  <1> QED BY <1>2, AttemptFacts DEF RequestOK, OfItsKind, Confirming, Deciding, Releasers, Composite

LEMMA ConfirmationTypes ==
  ASSUME Types, Written, NEW r \in Requests, Confirmation(r), OtherTypes'
  PROVE  Types'
  <1>0. /\ req' \in [Requests -> Work] /\ \A q \in Requests \ {r} : req'[q] = req[q]
        /\ req \in [Requests -> Work] /\ req[r] \in Work /\ charge \in [Charges -> Charged]
        /\ "SUCCEEDED" \in Statuses /\ "CANCELED" \in Statuses /\ "FAILED" \in Statuses
        /\ "REQUIRES_ACTION" \in Statuses
    BY RequestMoves DEF Step, Types, RowTypes, Statuses
  <1>1. CASE HoldPoints(r)
    <2>1. req[r].at = "discount" /\ Composite(r)
      BY <1>1 DEF HoldPoints, Composite
    <2>2. UNCHANGED <<intent, toss, made, lock, captured, hooks, deferred>>
          /\ charge' = Status(StaleHold, "CANCELED")
      BY <1>1 DEF HoldPoints
    <2>3. Goes(r, "held") \/ req' = [req EXCEPT ![r].at = "finish", ![r].ok = FALSE]
      BY <1>1 DEF HoldPoints
    <2>4. /\ req'[r].op = req[r].op /\ req'[r].c = req[r].c /\ req'[r].pay = req[r].pay
          /\ req'[r].legs = req[r].legs /\ req'[r].at \in {"held", "finish"}
      <3>1. CASE Goes(r, "held")
        BY <1>0, <3>1, GoesMoves DEF Work, Places
      <3>2. CASE req' = [req EXCEPT ![r].at = "finish", ![r].ok = FALSE]
        <4>1. req'[r] = [req[r] EXCEPT !.at = "finish", !.ok = FALSE]
          BY <1>0, <3>2, SettlesMoves
        <4> QED BY <1>0, <4>1 DEF Work
      <3> QED BY <2>3, <3>1, <3>2
    <2>5. RequestOK(r)'
      BY <2>1, <2>2, <2>4, GoesOn, AttemptFacts
    <2>6. hold' \in [Charges -> {"none", "AUTHORIZED", "CAPTURED", "CANCELLED"}]
      <3>1. CASE Unheld(StaleHold)
        BY <3>1, UnheldTypes
      <3>2. CASE ~Unheld(StaleHold)
        BY <1>1, <3>2 DEF HoldPoints, Types, RowTypes
      <3> QED BY <3>1, <3>2
    <2>7. charge' \in [Charges -> Charged]
          /\ \A c \in Charges : charge'[c].staged \in {None, charge[c].staged}
      BY <1>0, <2>2, StatusTypes, StatusKeeps
    <2>8. RowTypes'
      BY <2>2, <2>6, <2>7 DEF Types, RowTypes, toss, hooks
    <2> QED BY <1>0, <2>2, <2>5, <2>7, <2>8, ChargesTypes
  <1>2. CASE MarkHeld(r)
    <2>1. req[r].at = "held" /\ Composite(r)
      BY <1>2 DEF MarkHeld, Composite
    <2>2. UNCHANGED <<intent, toss, made, lock, captured, hooks, deferred, hold>>
          /\ charge' = Status({req[r].c}, "SUCCEEDED") /\ Goes(r, "split")
      BY <1>2 DEF MarkHeld, ledger
    <2>4. /\ req'[r].op = req[r].op /\ req'[r].c = req[r].c /\ req'[r].pay = req[r].pay
          /\ req'[r].legs = req[r].legs /\ req'[r].at = "split"
      BY <1>0, <2>2, GoesMoves DEF Work, Places
    <2>5. RequestOK(r)'
      BY <2>1, <2>2, <2>4, GoesOn, AttemptFacts
    <2>7. charge' \in [Charges -> Charged]
          /\ \A c \in Charges : charge'[c].staged \in {None, charge[c].staged}
      BY <1>0, <2>2, StatusTypes, StatusKeeps
    <2>8. RowTypes'
      BY <2>2, <2>7 DEF Types, RowTypes, toss, hooks
    <2> QED BY <1>0, <2>2, <2>5, <2>7, <2>8, ChargesTypes
  <1>3. CASE MakePrimary(r)
    <2>1. req[r].at = "split" /\ Composite(r)
      BY <1>3 DEF MakePrimary, Composite
    <2>2. UNCHANGED <<intent, toss, made, lock, captured, hooks, deferred, hold>>
      BY <1>3 DEF MakePrimary, ledger
    <2>3. CASE ActiveCharges # {}
      <3>1. Ends(r) /\ charge' = charge
        BY <1>3, <2>3 DEF MakePrimary
      <3>2. RequestOK(r)'
        BY <1>0, <2>1, <2>2, <3>1, EndsMoves, IdleOK, AttemptFacts
      <3>3. RowTypes'
        BY <2>2, <3>1 DEF Types, RowTypes, toss, hooks
      <3> QED BY <1>0, <2>2, <3>1, <3>2, <3>3, ChargesTypes
    <2>4. CASE ActiveCharges = {}
      <3> DEFINE c == req[r].c + 1
      <3>1. charge' = [charge EXCEPT ![c] = NewCharge("TOSS", Payable - PointsPart)]
            /\ req' = [req EXCEPT ![r].at = "primary", ![r].c = c, ![r].legs = {req[r].c}]
        BY <1>3, <2>4 DEF MakePrimary
      <3>2. c \in Charges /\ c \in 1 .. made /\ req[r].c \in Charges
        BY <2>1, AttemptFacts
      <3>3. /\ req'[r].op = "confirm" /\ req'[r].c = c /\ req'[r].pay = None
            /\ req'[r].at = "primary"
        BY <1>0, <2>1, <3>1, AttemptFacts DEF Work
      <3>4. RequestOK(r)'
        <4>1. Owned(r)' = {c} /\ lock' # r
          BY <2>1, <2>2, <3>3, AttemptFacts DEF Owned, Composite
        <4> QED BY <2>2, <3>2, <3>3, <4>1 DEF RequestOK, OfItsKind, Confirming, Deciding, Releasers
      <3>5. Payable - PointsPart \in 0 .. Payable
        BY PaymentsAssumption
      <3>6. charge' \in [Charges -> Charged]
            /\ \A d \in Charges : charge'[d].staged \in {None, charge[d].staged}
        BY <1>0, <3>1, <3>2, <3>5, NewChargeFacts
      <3>7. RowTypes'
        BY <2>2, <3>6 DEF Types, RowTypes, toss, hooks
      <3> QED BY <1>0, <2>2, <3>4, <3>6, <3>7, ChargesTypes
    <2> QED BY <2>3, <2>4
  <1>4. CASE PointsPrimary(r)
    <2>1. req[r].at = "primary" /\ charge[req[r].c].method = "POINTS"
      BY <1>4 DEF PointsPrimary
    <2>2. UNCHANGED <<intent, toss, rows, lock, hooks, deferred>>
      BY <1>4 DEF PointsPrimary
    <2>3. Goes(r, "refused") \/ req' = [req EXCEPT ![r].at = "finish", ![r].ok = TRUE]
      BY <1>4 DEF PointsPrimary
    <2>4. /\ req'[r].op = req[r].op /\ req'[r].c = req[r].c /\ req'[r].pay = req[r].pay
          /\ req'[r].legs = req[r].legs /\ req'[r].at \in {"refused", "finish"}
      <3>1. CASE Goes(r, "refused")
        BY <1>0, <3>1, GoesMoves DEF Work, Places
      <3>2. CASE req' = [req EXCEPT ![r].at = "finish", ![r].ok = TRUE]
        <4>1. req'[r] = [req[r] EXCEPT !.at = "finish", !.ok = TRUE]
          BY <1>0, <3>2, SettlesMoves
        <4> QED BY <1>0, <4>1 DEF Work
      <3> QED BY <2>3, <3>1, <3>2
    <2>5. req[r].legs = {}
      BY <2>1, AttemptFacts DEF Written, AttemptOK
    <2>6. RequestOK(r)'
      BY <2>1, <2>2, <2>4, <2>5, GoesOn, AttemptFacts DEF rows
    <2>7. hold' \in [Charges -> {"none", "AUTHORIZED", "CAPTURED", "CANCELLED"}]
      BY <1>4 DEF PointsPrimary, Types, RowTypes
    <2>8. RowTypes' /\ \A c \in Charges : charge'[c].staged \in {None, charge[c].staged}
      BY <2>2, <2>7 DEF Types, RowTypes, toss, hooks, rows
    <2> QED BY <1>0, <2>2, <2>6, <2>8, ChargesTypes DEF rows
  <1>5. CASE TossPrimary(r)
    <2>1. req[r].at = "primary"
      BY <1>5 DEF TossPrimary
    <2>2. UNCHANGED <<intent, toss, made, lock, captured, hooks, deferred, hold>>
      BY <1>5 DEF TossPrimary, ledger
    <2>3. \/ Ends(r) /\ charge' = charge
          \/ Goes(r, "acting") /\ charge' = Status({req[r].c}, "REQUIRES_ACTION")
      BY <1>5 DEF TossPrimary
    <2>6. RequestOK(r)'
      <3>1. Ends(r) => RequestOK(r)'
        BY <1>0, <2>1, <2>2, EndsMoves, IdleOK, AttemptFacts
      <3>2. ASSUME Goes(r, "acting") PROVE RequestOK(r)'
        <4>1. /\ req'[r].op = req[r].op /\ req'[r].c = req[r].c /\ req'[r].pay = req[r].pay
              /\ req'[r].legs = req[r].legs /\ req'[r].at = "acting"
          BY <1>0, <3>2, GoesMoves DEF Work, Places
        <4> QED BY <2>1, <2>2, <4>1, GoesOn, AttemptFacts
      <3> QED BY <2>3, <3>1, <3>2
    <2>7. charge' \in [Charges -> Charged]
          /\ \A c \in Charges : charge'[c].staged \in {None, charge[c].staged}
      BY <1>0, <2>3, StatusTypes, StatusKeeps
    <2>8. RowTypes'
      BY <2>2, <2>7 DEF Types, RowTypes, toss, hooks
    <2> QED BY <1>0, <2>2, <2>6, <2>7, <2>8, ChargesTypes
  <1>6. CASE AskCustomer(r)
    <2>1. req[r].at = "acting" /\ Ends(r)
      BY <1>6 DEF AskCustomer
    <2>2. UNCHANGED <<deferred, rows, ledger, notices, hooks, lock>>
      BY <1>6 DEF AskCustomer
    <2>3. \/ UNCHANGED <<intent, payment>>
          \/ /\ Allowed(intent, "REQUIRES_ACTION") /\ intent' = "REQUIRES_ACTION"
             /\ payment' = [payment EXCEPT ![req[r].c] = "ready"]
      BY <1>6 DEF AskCustomer
    <2>4. req[r].c \in Charges /\ payment[req[r].c] = "none" /\ lock # r
      BY <2>1, AttemptFacts DEF Written, AttemptOK
    <2>5. intent' = intent \/ intent \in Unpaid
      BY <2>3 DEF Allowed, Unpaid
    <2>6. \A o \in Charges : /\ payment[o] # "none" => payment'[o] # "none"
                             /\ payment[o] \in Settled => payment'[o] = payment[o]
      BY <2>3, <2>4 DEF Types, RowTypes, Settled
    <2>7. RequestOK(r)'
      BY <1>0, <2>1, <2>2, <2>4, EndsMoves, IdleOK
    <2>8. Keeps(r)
      BY <1>0, <2>2, <2>5, <2>6, PaymentsAssumption DEF Keeps, rows, Types, RowTypes
    <2>9. RowTypes'
      BY <2>2, <2>3 DEF Types, RowTypes, rows, ledger, hooks, Unpaid
    <2>10. /\ \A o \in notices' : payment'[o] \in Settled
           /\ \A c \in Charges : charge'[c].staged # None => payment'[charge'[c].staged] # "none"
      BY <2>2, <2>6, <2>8, <2>9, StagedKept DEF rows, Types, RowTypes
    <2> QED BY <1>0, <2>7, <2>8, <2>9, <2>10, StepTypes
  <1>7. CASE Refused(r)
    <2>1. CASE req[r].at = "refused"
      <3>1. /\ charge' = Status({req[r].c}, "FAILED") /\ Goes(r, "back")
            /\ UNCHANGED <<intent, toss, made, lock, captured, hooks, deferred, hold>>
        BY <1>7, <2>1 DEF Refused, ledger
      <3>2. /\ req'[r].op = req[r].op /\ req'[r].c = req[r].c /\ req'[r].pay = req[r].pay
            /\ req'[r].legs = req[r].legs /\ req'[r].at = "back"
        BY <1>0, <3>1, GoesMoves DEF Work, Places
      <3>3. RequestOK(r)'
        BY <2>1, <3>1, <3>2, GoesOn, AttemptFacts
      <3>4. charge' \in [Charges -> Charged]
            /\ \A c \in Charges : charge'[c].staged \in {None, charge[c].staged}
        BY <1>0, <3>1, StatusTypes, StatusKeeps
      <3>5. RowTypes'
        BY <3>1, <3>4 DEF Types, RowTypes, toss, hooks
      <3> QED BY <1>0, <3>1, <3>3, <3>4, <3>5, ChargesTypes
    <2>2. CASE req[r].at = "back"
      <3>1. /\ Ends(r) /\ UNCHANGED <<deferred, rows, ledger, toss, hooks, lock>>
            /\ intent' = IF Allowed(intent, "CREATED") THEN "CREATED" ELSE intent
        BY <1>7, <2>2 DEF Refused
      <3>2. intent' = intent \/ (intent \in Unpaid /\ intent' = "CREATED")
        BY <3>1 DEF Allowed, Unpaid
      <3>3. lock # r
        BY <2>2 DEF Types, RequestOK, OfItsKind
      <3>4. RequestOK(r)'
        BY <1>0, <3>1, <3>3, EndsMoves, IdleOK
      <3>5. RowTypes' /\ \A c \in Charges : charge'[c].staged \in {None, charge[c].staged}
        BY <3>1, <3>2 DEF Types, RowTypes, toss, hooks, rows, ledger, Unpaid
      <3> QED BY <1>0, <3>1, <3>2, <3>4, <3>5, ChargesTypes DEF rows
    <2> QED BY <1>7, <2>1, <2>2 DEF Refused
  <1> QED BY <1>1, <1>2, <1>3, <1>4, <1>5, <1>6, <1>7 DEF Confirmation

\* Who decides has a charge and an order; who settles is one of the two.
LEMMA DecisionFacts ==
  ASSUME Types, NEW r \in Requests,
         req[r].at \in {"stage", "pay", "query", "finish", "waiting"}
  PROVE  /\ Confirming(r) \/ Deciding(r)
         /\ req[r].op \in {"confirm", "approve", "webhook"} /\ lock # r
         /\ Confirming(r) <=> req[r].op = "confirm"
         /\ Deciding(r) <=> req[r].op \in {"approve", "webhook"}
         /\ req[r].c \in Charges /\ req[r].pay \in Charges \cup {None}
         /\ Deciding(r) => req[r].pay \in Charges
         /\ Confirming(r) => req[r].pay = None
  BY DEF Types, RequestOK, OfItsKind, Confirming, Deciding

LEMMA CompletionTypes ==
  ASSUME Types, NEW r \in Requests, Completion(r), OtherTypes'
  PROVE  Types'
  <1>0. /\ req' \in [Requests -> Work] /\ \A q \in Requests \ {r} : req'[q] = req[q]
        /\ req \in [Requests -> Work] /\ req[r] \in Work /\ charge \in [Charges -> Charged]
        /\ RequestOK(r)
    BY RequestMoves DEF Step, Types, RowTypes
  <1>1. CASE Finish(r)
    <2> DEFINE c == req[r].c
               to == IF req[r].ok THEN "AUTHORIZED" ELSE "CREATED"
               done == IF req[r].ok THEN "SUCCEEDED" ELSE "FAILED"
    <2>1. Settles(r) /\ c \in Charges /\ req[r].pay \in Charges \cup {None} /\ lock # r
      BY <1>1, DecisionFacts DEF Finish, Settles
    <2>2. UNCHANGED <<deferred, made, captured, ledger, toss, hooks, lock>>
      BY <1>1 DEF Finish
    <2>3. CASE Allowed(intent, to)
      <3>1. /\ intent' = to /\ intent \in Unpaid
            /\ charge' = [charge EXCEPT ![c].status = done,
                            ![c].key = IF req[r].ok THEN req[r].pay ELSE @]
        BY <1>1, <2>3 DEF Finish, Allowed, Unpaid
      <3>2. charge' \in [Charges -> Charged]
            /\ \A d \in Charges : charge'[d].staged \in {None, charge[d].staged}
        BY <1>0, <2>1, <3>1 DEF Charged, Statuses
      <3>3. RequestOK(r)'
        <4>1. CASE req[r].ok
          <5>1. req' = [req EXCEPT ![r] = [IdleRequest EXCEPT !.op = req[r].op, !.at = "capture"]]
            BY <1>1, <2>3, <4>1 DEF Finish
          <5>2. req'[r].at = "capture" /\ req'[r].op = req[r].op /\ intent' = "AUTHORIZED"
            BY <1>0, <3>1, <4>1, <5>1 DEF IdleRequest
          <5> QED BY <1>0, <2>1, <2>2, <5>2 DEF RequestOK, OfItsKind, Settles, Confirming, Deciding, Releasers, Unpaid
        <4>2. CASE ~req[r].ok
          BY <1>0, <1>1, <2>1, <2>2, <2>3, <4>2, EndsMoves, IdleOK DEF Finish
        <4> QED BY <4>1, <4>2
      <3>4. RowTypes'
        BY <2>2, <3>1, <3>2 DEF Types, RowTypes, toss, hooks, ledger, Unpaid
      <3> QED BY <1>0, <2>2, <3>1, <3>2, <3>3, <3>4, ChargesTypes
    <2>4. CASE ~Allowed(intent, to)
      <3>1. Ends(r) /\ UNCHANGED <<intent, charge>>
        BY <1>1, <2>4 DEF Finish
      <3>2. RequestOK(r)' /\ UNCHANGED Rows
        BY <1>0, <2>1, <2>2, <3>1, EndsMoves, IdleOK DEF Rows, rows
      <3> QED BY <1>0, <2>2, <3>2, QuietTypes
    <2> QED BY <2>3, <2>4
  <1>2. CASE Wait(r)
    <2>1. req[r].at = "finish" /\ Goes(r, "waiting") /\ UNCHANGED Rows /\ lock' = lock
      BY <1>2 DEF Wait, Rows, history
    <2>2. req'[r] = [req[r] EXCEPT !.at = "waiting"]
      BY <1>0, <2>1, GoesMoves DEF Places
    <2>3. /\ req'[r].at = "waiting" /\ req'[r].op = req[r].op /\ req'[r].c = req[r].c
          /\ req'[r].pay = req[r].pay /\ req'[r].legs = req[r].legs
      BY <1>0, <2>2 DEF Work
    <2>4. RequestOK(r)'
      <3>1. UNCHANGED <<intent, lock, payment, made>>
        BY <2>1 DEF Rows, toss, rows
      <3>2. (Confirming(r)' <=> Confirming(r)) /\ (Deciding(r)' <=> Deciding(r)) /\ Owned(r)' = Owned(r)
        BY <2>1, <2>3 DEF Confirming, Deciding, Owned, Composite
      <3> QED BY <1>0, <2>1, <2>3, <3>1, <3>2 DEF RequestOK, OfItsKind, Releasers
    <2> QED BY <1>0, <2>1, <2>4, QuietTypes
  <1>3. CASE ListLegs(r)
    <2>1. req[r].at = "capture" /\ UNCHANGED Rows /\ lock' = lock /\ lock # r /\ intent \notin Unpaid
      BY <1>0, <1>3 DEF ListLegs, Rows, history, RequestOK, OfItsKind, Releasers
    <2>2. RequestOK(r)'
      <3>1. CASE Ends(r)
        BY <1>0, <2>1, <3>1, EndsMoves, IdleOK
      <3>2. CASE req' = [req EXCEPT ![r].at = "legs", ![r].legs = Succeeded]
        <4>1. req'[r].at = "legs" /\ req'[r].op = req[r].op
          BY <1>0, <3>2 DEF Work
        <4> QED BY <1>0, <2>1, <4>1 DEF RequestOK, OfItsKind, Confirming, Deciding, Releasers, Rows
      <3> QED BY <1>3, <3>1, <3>2 DEF ListLegs
    <2> QED BY <1>0, <2>1, <2>2, QuietTypes
  <1>4. CASE CaptureLeg(r)
    <2>1. req[r].at = "legs" /\ UNCHANGED <<intent, deferred, charge, made, toss, hooks, lock>>
      BY <1>4 DEF CaptureLeg
    <2>2. lock # r /\ intent \notin Unpaid
      BY <1>0, <2>1 DEF RequestOK, OfItsKind, Releasers
    <2>3. req'[r].at = "legs" /\ req'[r].op = req[r].op
      BY <1>0, <1>4 DEF CaptureLeg, Work
    <2>4. RequestOK(r)'
      BY <1>0, <2>1, <2>2, <2>3 DEF RequestOK, OfItsKind, Confirming, Deciding, Releasers
    <2>5. captured' \in [Charges -> {"none", "SUCCEEDED", "FAILED"}]
          /\ hold' \in [Charges -> {"none", "AUTHORIZED", "CAPTURED", "CANCELLED"}]
      <3>1. /\ captured \in [Charges -> {"none", "SUCCEEDED", "FAILED"}]
            /\ hold \in [Charges -> {"none", "AUTHORIZED", "CAPTURED", "CANCELLED"}]
        BY DEF Types, RowTypes
      <3>2. hold' = [hold EXCEPT ![Min(req[r].legs)] = IF @ = "AUTHORIZED" THEN "CAPTURED" ELSE @]
        BY <1>4 DEF CaptureLeg
      <3>3. \E x \in {"SUCCEEDED", "FAILED"} : captured' = [captured EXCEPT ![Min(req[r].legs)] = x]
        BY <1>4 DEF CaptureLeg
      <3> QED BY <3>1, <3>2, <3>3
    <2>6. RowTypes' /\ \A d \in Charges : charge'[d].staged \in {None, charge[d].staged}
      BY <2>1, <2>5 DEF Types, RowTypes, toss, hooks
    <2> QED BY <1>0, <2>1, <2>4, <2>6, ChargesTypes
  <1>5. CASE Capture(r)
    <2> DEFINE to == IF req[r].missed = {} THEN "CAPTURED" ELSE "PARTIALLY_CAPTURED"
    <2>1. req[r].at = "legs" /\ Ends(r) /\ UNCHANGED <<deferred, rows, ledger, toss, hooks, lock>>
          /\ intent' \in {intent, to}
      BY <1>5 DEF Capture
    <2>2. lock # r /\ intent \notin Unpaid
      BY <1>0, <2>1 DEF RequestOK, OfItsKind, Releasers
    <2>3. RequestOK(r)'
      BY <1>0, <2>1, <2>2, EndsMoves, IdleOK
    <2>4. RowTypes' /\ \A d \in Charges : charge'[d].staged \in {None, charge[d].staged}
      BY <2>1 DEF Types, RowTypes, toss, hooks, rows, ledger
    <2> QED BY <1>0, <2>1, <2>2, <2>3, <2>4, ChargesTypes DEF rows, Unpaid
  <1> QED BY <1>1, <1>2, <1>3, <1>4, <1>5 DEF Completion

LEMMA DecidingTypes ==
  ASSUME Types, NEW r \in Requests, Stage(r) \/ Pay(r) \/ Query(r), OtherTypes'
  PROVE  Types'
  <1>0. /\ req' \in [Requests -> Work] /\ \A q \in Requests \ {r} : req'[q] = req[q]
        /\ req \in [Requests -> Work] /\ req[r] \in Work /\ charge \in [Charges -> Charged]
        /\ RequestOK(r) /\ payment \in [Charges -> {"none", "ready"} \cup Settled]
        /\ made \in Nat
    BY RequestMoves, PaymentsAssumption DEF Step, Types, RowTypes
  <1>1. CASE Stage(r)
    <2>1. req[r].at = "stage" /\ Ends(r) /\ lock # r /\ req[r].c \in Charges
          /\ req[r].pay \in Charges /\ payment[req[r].pay] # "none"
          /\ UNCHANGED <<intent, deferred, made, captured, ledger, toss, hooks, lock>>
      BY <1>1, DecisionFacts DEF Stage, Types, RequestOK, OfItsKind, Deciding
    <2>2. RequestOK(r)'
      BY <1>0, <2>1, EndsMoves, IdleOK
    <2>3. \/ charge' = charge
          \/ charge' = [charge EXCEPT ![req[r].c].status = "REQUIRES_ACTION",
                                      ![req[r].c].staged = req[r].pay]
      BY <1>1 DEF Stage
    <2>4. charge' \in [Charges -> Charged]
      BY <1>0, <2>1, <2>3 DEF Charged, Statuses
    <2>5. \A d \in Charges : charge'[d].staged \in {charge[d].staged, req[r].pay}
      BY <1>0, <2>1, <2>3 DEF Charged
    <2>6. RowTypes' /\ Keeps(r)
      BY <1>0, <2>1, <2>4 DEF Types, RowTypes, toss, hooks, ledger, Keeps
    <2>7. /\ \A o \in notices' : payment'[o] \in Settled
          /\ \A d \in Charges : charge'[d].staged # None => payment'[charge'[d].staged] # "none"
      BY <2>1, <2>5 DEF Types, toss
    <2> QED BY <1>0, <2>2, <2>6, <2>7, StepTypes
  <1>2. CASE Pay(r)
    <2> DEFINE o == req[r].pay
    <2>1. req[r].at = "pay" /\ lock # r /\ req[r].op = "approve" /\ o \in Charges
          /\ req[r].c \in Charges
          /\ UNCHANGED <<intent, deferred, rows, ledger, hooks, lock>>
      BY <1>2, DecisionFacts DEF Pay, Types, RequestOK, OfItsKind, Deciding
    <2>2. PICK ok \in BOOLEAN : req' = [req EXCEPT ![r].at = "finish", ![r].ok = ok]
      BY <1>2 DEF Pay
    <2>3. /\ req'[r].op = "approve" /\ req'[r].at = "finish" /\ req'[r].c = req[r].c
          /\ req'[r].pay = o
      <3>1. req'[r] = [req[r] EXCEPT !.at = "finish", !.ok = ok]
        BY <1>0, <2>2, SettlesMoves
      <3> QED BY <1>0, <2>1, <3>1 DEF Work
    <2>4. \/ UNCHANGED toss
          \/ /\ notices' = notices \cup {o}
             /\ payment[o] = "ready" /\ \E x \in Settled : payment' = [payment EXCEPT ![o] = x]
      BY <1>2 DEF Pay, Settled
    <2>5. \A d \in Charges : /\ payment[d] # "none" => payment'[d] # "none"
                             /\ payment[d] \in Settled => payment'[d] \in Settled
      BY <1>0, <2>1, <2>4 DEF toss, Settled
    <2>6. Keeps(r)
      BY <1>0, <2>1, <2>5 DEF Keeps, rows
    <2>7. RowTypes'
      BY <1>0, <2>1, <2>4 DEF Types, RowTypes, rows, toss, ledger, hooks
    <2>8. RequestOK(r)'
      <3>1. payment[o] # "none" /\ payment'[o] # "none"
        BY <2>1, <2>5 DEF Types, RequestOK, Deciding
      <3> QED BY <2>1, <2>3, <3>1 DEF RequestOK, OfItsKind, Confirming, Deciding, Releasers
    <2>9. /\ \A d \in notices' : payment'[d] \in Settled
          /\ \A d \in Charges : charge'[d].staged # None => payment'[charge'[d].staged] # "none"
      <3>1. \A d \in notices' : payment'[d] \in Settled
        BY <1>0, <2>1, <2>4, <2>5 DEF Types, RowTypes, toss
      <3>2. \A d \in Charges : charge'[d].staged = charge[d].staged
        BY <2>1 DEF rows
      <3> QED BY <2>6, <2>7, <3>1, <3>2, StagedKept
    <2> QED BY <1>0, <2>6, <2>7, <2>8, <2>9, StepTypes
  <1>3. CASE Query(r)
    <2> DEFINE o == req[r].pay
    <2>1. /\ req[r].at = "query" /\ lock # r /\ req[r].op = "webhook" /\ o \in Charges
          /\ req[r].c = o /\ payment[o] \in Settled
          /\ UNCHANGED <<intent, deferred, rows, ledger, payment, lock>>
      BY <1>3, DecisionFacts DEF Query, Types, RequestOK, OfItsKind, Deciding
    <2>2. /\ notices' \subseteq notices /\ receipts' = receipts \cup {<<o, payment[o]>>}
          /\ flagged' \subseteq flagged \cup {o}
      BY <1>3 DEF Query
    <2>3. RequestOK(r)'
      <3>1. CASE Ends(r)
        BY <1>0, <2>1, <3>1, EndsMoves, IdleOK
      <3>2. CASE ~Ends(r)
        <4>1. PICK ok \in BOOLEAN : req' = [req EXCEPT ![r].at = "finish", ![r].ok = ok]
          BY <1>3, <3>2 DEF Query
        <4>2. /\ req'[r].op = "webhook" /\ req'[r].at = "finish" /\ req'[r].c = req[r].c
              /\ req'[r].pay = o
          <5>1. req'[r] = [req[r] EXCEPT !.at = "finish", !.ok = ok]
            BY <1>0, <4>1, SettlesMoves
          <5> QED BY <1>0, <2>1, <5>1 DEF Work
        <4> QED BY <2>1, <4>2 DEF RequestOK, OfItsKind, Confirming, Deciding, Releasers, Settled
      <3> QED BY <3>1, <3>2
    <2>4. Keeps(r)
      BY <1>0, <2>1 DEF Keeps, rows
    <2>5. RowTypes'
      BY <1>0, <2>1, <2>2 DEF Types, RowTypes, rows, ledger
    <2>6. /\ \A d \in notices' : payment'[d] \in Settled
          /\ \A d \in Charges : charge'[d].staged # None => payment'[charge'[d].staged] # "none"
      BY <2>1, <2>2 DEF Types, rows
    <2> QED BY <1>0, <2>3, <2>4, <2>5, <2>6, StepTypes
  <1> QED BY <1>1, <1>2, <1>3

LEMMA ReleaseTypes ==
  ASSUME Types, NEW r \in Requests, Release(r), OtherTypes'
  PROVE  Types'
  <1>0. /\ req' \in [Requests -> Work] /\ \A q \in Requests \ {r} : req'[q] = req[q]
        /\ req \in [Requests -> Work] /\ req[r] \in Work /\ charge \in [Charges -> Charged]
        /\ RequestOK(r) /\ Nobody \notin Requests
        /\ ActiveCharges \subseteq Charges /\ Succeeded \subseteq Charges
    BY RequestMoves, PaymentsAssumption, Picked DEF Step, Types, RowTypes
  \* A release goes on.
  <1>1. ASSUME req[r].op \in Releasers, req'[r].op = req[r].op,
               req'[r].at \in {"release", "list", "undo"} \/ (req'[r].at = "drop" /\ req'[r].c \in Charges),
               lock' = lock
        PROVE  RequestOK(r)'
    BY <1>0, <1>1 DEF RequestOK, OfItsKind, Confirming, Deciding, Releasers
  <1>2. CASE FindActive(r)
    <2>1. req[r].at = "release" /\ req[r].op \in Releasers /\ UNCHANGED Rows /\ lock' = lock
      BY <1>0, <1>2 DEF FindActive, Rows, history, RequestOK, OfItsKind
    <2>2. \/ Goes(r, "list")
          \/ \E c \in ActiveCharges : req' = [req EXCEPT ![r].at = "drop", ![r].c = c]
      BY <1>2 DEF FindActive
    <2>3. /\ req'[r].op = req[r].op
          /\ req'[r].at = "list" \/ (req'[r].at = "drop" /\ req'[r].c \in Charges)
      BY <1>0, <2>2, GoesMoves DEF Work, Places
    <2>4. RequestOK(r)'
      BY <1>1, <2>1, <2>3
    <2> QED BY <1>0, <2>1, <2>4, QuietTypes
  <1>3. CASE DropActive(r)
    <2>1. /\ req[r].at = "drop" /\ req[r].op \in Releasers /\ lock' = lock
          /\ charge' = Status({req[r].c}, "CANCELED")
          /\ UNCHANGED <<intent, deferred, made, captured, ledger, toss, hooks>>
      BY <1>0, <1>3 DEF DropActive, RequestOK, OfItsKind
    <2>2. req'[r].op = req[r].op /\ req'[r].at = "list"
      BY <1>0, <1>3 DEF DropActive, Work
    <2>3. RequestOK(r)'
      BY <1>1, <2>1, <2>2
    <2>4. charge' \in [Charges -> Charged]
          /\ \A c \in Charges : charge'[c].staged \in {None, charge[c].staged}
      BY <1>0, <2>1, StatusTypes, StatusKeeps DEF Statuses
    <2>5. RowTypes'
      BY <2>1, <2>4 DEF Types, RowTypes, toss, hooks, ledger
    <2> QED BY <1>0, <2>1, <2>3, <2>4, <2>5, ChargesTypes
  <1>4. CASE ListSucceeded(r)
    <2>1. req[r].at = "list" /\ req[r].op \in Releasers /\ UNCHANGED Rows /\ lock' = lock
      BY <1>0, <1>4 DEF ListSucceeded, Rows, history, RequestOK, OfItsKind
    <2>2. req'[r].op = req[r].op /\ req'[r].at = "undo"
      BY <1>0, <1>4 DEF ListSucceeded, Work
    <2>3. RequestOK(r)'
      BY <1>1, <2>1, <2>2
    <2> QED BY <1>0, <2>1, <2>3, QuietTypes
  \* A release ends, and the lock with it.
  <1>5. ASSUME Ends(r), Unlock(r)
        PROVE  /\ RequestOK(r)'
               /\ \A q \in Requests \ {r} : lock' = q <=> lock = q
    <2>1. lock' # r /\ \A q \in Requests \ {r} : lock' = q <=> lock = q
      BY <1>0, <1>5 DEF Unlock
    <2> QED BY <1>0, <1>5, <2>1, EndsMoves, IdleOK
  <1>6. CASE UndoLeg(r)
    <2> DEFINE c == Min(req[r].legs)
               k == charge[c].key
    <2>1. /\ req[r].at = "undo" /\ req[r].op \in Releasers /\ c \in Charges
          /\ k \in Charges \cup {None}
          /\ UNCHANGED <<intent, deferred, made, captured, hooks>>
      BY <1>0, <1>6, MinIn DEF UndoLeg, RequestOK, OfItsKind, Work, Charged
    <2>2. \/ /\ Ends(r) /\ Unlock(r) /\ UNCHANGED <<charge, hold, toss>>
          \/ /\ \/ Unheld({c}) /\ UNCHANGED toss
                \/ /\ k # None /\ payment[k] = "done"
                   /\ payment' = [payment EXCEPT ![k] = "returned"]
                   /\ notices' = notices \cup {k} /\ UNCHANGED hold
             /\ charge' = Status({c}, "CANCELED") /\ lock' = lock
             /\ req' = [req EXCEPT ![r].legs = @ \ {c}, ![r].got = @ \cup {c}]
      BY <1>6 DEF UndoLeg
    <2>3. RequestOK(r)' /\ \A q \in Requests \ {r} : lock' = q <=> lock = q
      <3>1. CASE Ends(r) /\ Unlock(r)
        BY <1>5, <3>1
      <3>2. CASE lock' = lock /\ req' = [req EXCEPT ![r].legs = @ \ {c}, ![r].got = @ \cup {c}]
        <4>1. req'[r].op = req[r].op /\ req'[r].at = "undo"
          BY <1>0, <2>1, <3>2 DEF Work
        <4> QED BY <1>1, <2>1, <3>2, <4>1
      <3> QED BY <2>2, <3>1, <3>2
    <2>4. charge' \in [Charges -> Charged]
          /\ \A d \in Charges : charge'[d].staged \in {None, charge[d].staged}
      BY <1>0, <2>2, StatusTypes, StatusKeeps DEF Statuses
    <2>5. hold' \in [Charges -> {"none", "AUTHORIZED", "CAPTURED", "CANCELLED"}]
      BY <2>2, UnheldTypes DEF Types, RowTypes
    <2>6. /\ payment' \in [Charges -> {"none", "ready"} \cup Settled] /\ notices' \subseteq Charges
          /\ \A o \in Charges : /\ payment[o] # "none" => payment'[o] # "none"
                                /\ payment[o] \in Settled => payment'[o] \in Settled
          /\ \A o \in notices' : payment'[o] \in Settled
      BY <2>1, <2>2 DEF Types, RowTypes, toss, Settled
    <2>7. RowTypes'
      BY <2>1, <2>4, <2>5, <2>6 DEF Types, RowTypes, hooks
    <2>8. Keeps(r)
      BY <1>0, <2>1, <2>3, <2>6, PaymentsAssumption DEF Keeps, Types, RowTypes
    <2> QED BY <1>0, <2>3, <2>4, <2>6, <2>7, <2>8, StagedKept, StepTypes
  <1>7. CASE CloseIntent(r)
    <2>1. /\ Ends(r) /\ Unlock(r)
          /\ \/ intent' = intent
             \/ intent' \in {"CREATED", "CANCELED"} /\ Allowed(intent, intent')
          /\ UNCHANGED <<deferred, rows, ledger, toss, hooks>>
      BY <1>7 DEF CloseIntent
    <2>2. intent' = "CREATED" /\ intent' # intent => intent \in Unpaid
      BY <2>1 DEF Allowed, Unpaid
    <2>3. RowTypes' /\ \A d \in Charges : charge'[d].staged \in {None, charge[d].staged}
      BY <2>1 DEF Types, RowTypes, toss, hooks, rows, ledger, Unpaid
    <2>4. intent \notin Unpaid => intent' \notin Unpaid
      BY <2>1, <2>2 DEF Unpaid
    <2> QED BY <1>0, <1>5, <2>1, <2>3, <2>4, ChargesTypes DEF rows
  <1> QED BY <1>2, <1>3, <1>4, <1>6, <1>7 DEF Release

LEMMA DiesTypes ==
  ASSUME Types, NEW r \in Requests, Dies(r), starts' \in 0 .. MaxStarts
  PROVE  Types' /\ OtherTypes'
  <1>0. /\ req' \in [Requests -> Work] /\ \A q \in Requests \ {r} : req'[q] = req[q]
        /\ req \in [Requests -> Work] /\ req[r] \in Work /\ Nobody \notin Requests
    BY RequestMoves, PaymentsAssumption DEF Types
  <1>1. Ends(r) /\ Unlock(r) /\ UNCHANGED Rows
    BY DEF Dies, Rows, rows, ledger, toss, hooks
  <1>2. lock' # r /\ \A q \in Requests \ {r} : lock' = q <=> lock = q
    BY <1>0, <1>1 DEF Unlock
  <1>3. RequestOK(r)'
    BY <1>0, <1>1, <1>2, EndsMoves, IdleOK
  <1>4. dead' \subseteq Charges
    BY <1>0 DEF Dies, Types, OtherTypes, Work
  <1>5. faults' \in 0 .. MaxFaults /\ raced' \in BOOLEAN /\ lock' \in Requests \cup {Nobody}
    BY <1>1, PaymentsAssumption DEF Dies, Fault, Unlock, Types, OtherTypes
  <1>6. OtherTypes'
    BY <1>4, <1>5 DEF OtherTypes
  <1> QED BY <1>0, <1>1, <1>2, <1>3, <1>6, QuietTypes

\* The window of an order closes by itself.
LEMMA ExpiryTypes ==
  ASSUME Types, NEW o \in Charges, WindowExpires(o), starts' \in 0 .. MaxStarts
  PROVE  Types'
  <1>1. /\ payment[o] = "ready" /\ payment' = [payment EXCEPT ![o] = "expired"]
        /\ notices' = notices \cup {o}
        /\ UNCHANGED <<intent, deferred, rows, ledger, hooks, req, lock, history>>
    BY DEF WindowExpires
  <1>2. RowTypes' /\ OtherTypes' /\ req' \in [Requests -> Work]
    BY <1>1 DEF Types, RowTypes, OtherTypes, rows, ledger, hooks, history, Settled
  <1>3. \A d \in Charges : /\ payment[d] # "none" => payment'[d] # "none"
                           /\ payment[d] \in Settled => payment'[d] = payment[d]
    BY <1>1 DEF Types, RowTypes, Settled
  <1>4. ASSUME NEW r \in Requests PROVE RequestOK(r)'
    <2>1. RequestOK(r) /\ req'[r] = req[r] /\ UNCHANGED <<intent, lock, made>>
      BY <1>1 DEF Types, rows
    <2>2. /\ OfItsKind(r)' = OfItsKind(r) /\ Confirming(r)' = Confirming(r)
          /\ Deciding(r)' = Deciding(r) /\ Owned(r)' = Owned(r)
      BY <2>1 DEF OfItsKind, Confirming, Deciding, Owned, Composite
    <2>3. req[r].at = "query" => Deciding(r)
      BY <2>1 DEF RequestOK, OfItsKind, Deciding
    <2> QED BY <1>3, <2>1, <2>2, <2>3 DEF RequestOK
  <1>5. \A d \in notices' : payment'[d] \in Settled
    BY <1>1, <1>3 DEF Types, RowTypes, Settled
  <1>6. \A c \in Charges : charge'[c].staged # None => payment'[charge'[c].staged] # "none"
    BY <1>1, <1>3 DEF Types, RowTypes, rows, Charged
  <1> QED BY <1>2, <1>4, <1>5, <1>6 DEF Types

LEMMA InitTypes == Init => Types
  <1> SUFFICES ASSUME Init PROVE Types
    OBVIOUS
  <1>1. RowTypes /\ OtherTypes
    <2>1. NoCharge \in Charged
      BY PaymentsAssumption DEF NoCharge, Charged, Statuses
    <2>2. 0 \in 0 .. MaxCharges /\ 0 \in 0 .. MaxStarts /\ 0 \in 0 .. MaxFaults
      BY PaymentsAssumption
    <2>3. OtherTypes
      BY <2>2 DEF Init, OtherTypes
    <2>4. RowTypes
      BY <2>1, <2>2 DEF Init, RowTypes, Unpaid, Settled
    <2> QED BY <2>3, <2>4
  <1>2. req \in [Requests -> Work]
    BY IdleWork DEF Init
  <1>3. \A r \in Requests : RequestOK(r)
    BY PaymentsAssumption
       DEF Init, RequestOK, OfItsKind, Confirming, Deciding, Releasers, IdleRequest
  <1> QED BY <1>1, <1>2, <1>3 DEF Init, Types, NoCharge

LEMMA NextTypes ==
  ASSUME Types, Written, Next PROVE Types'
  <1>1. starts \in 0 .. MaxStarts
    BY DEF Types, OtherTypes
  <1>2. ASSUME starts < MaxStarts, starts' = starts + 1, NEW r \in Requests, Start(r)
        PROVE  Types'
    <2>0. starts + 1 \in 0 .. MaxStarts
      BY <1>1, <1>2, PaymentsAssumption
    <2>1. starts' \in 0 .. MaxStarts
      BY <1>2, <2>0
    <2> QED BY <1>2, <2>1, HistoryTypes, StartsTypes
  <1>3. ASSUME UNCHANGED starts, NEW r \in Requests, Step(r) PROVE Types'
    <2>1. OtherTypes'
      BY <1>1, <1>3, HistoryTypes
    <2> QED BY <1>3, <2>1, ConfirmationTypes, CompletionTypes, DecidingTypes, ReleaseTypes DEF Step
  <1>4. ASSUME UNCHANGED starts, NEW r \in Requests, Dies(r) PROVE Types'
    BY <1>1, <1>4, DiesTypes
  <1>5. ASSUME UNCHANGED starts, NEW o \in Charges, WindowExpires(o) PROVE Types'
    BY <1>1, <1>5, ExpiryTypes
  <1> QED BY <1>2, <1>3, <1>4, <1>5 DEF Next

-----------------------------------------------------------------------------
(* What the tables say of a charge *)

\* A charge that no other request can have to do with.
Fresh(r, c) == c > made \/ (Confirming(r) /\ c \in Owned(r))

Leaves(r) ==
  /\ \A q \in Requests \ {r} : req'[q] = req[q]
  /\ lost \subseteq lost'
  /\ Confirming(r)' => \A c \in Owned(r)' : Fresh(r, c)
  /\ \A c \in Charges :
       /\ charge[c].status # "none" => charge'[c].status # "none"
       /\ charge[c].status \notin {"none", "CREATED"} =>
            charge'[c].method = charge[c].method /\ charge'[c].status \notin {"none", "CREATED"}
       /\ payment[c] \in {"aborted", "expired", "returned"} =>
            payment'[c] \in {"aborted", "expired", "returned"}
       /\ ~Fresh(r, c) =>
            /\ payment[c] = "none" => payment'[c] = "none"
            /\ hold[c] = "none" => hold'[c] = "none"
            /\ charge[c].status = "none" => charge'[c].status = "none"
            /\ charge'[c].method = charge[c].method

LEMMA OthersWritten ==
  ASSUME Types, Written, NEW r \in Requests, Leaves(r), NEW q \in Requests \ {r}
  PROVE  /\ Confirming(q)' => Apart(q)' /\ AttemptOK(q)'
         /\ Confirming(r)' => Apart(r)'
         /\ Deciding(q)' => DecisionOK(q)'
         /\ ListOK(q)'
  <1> DEFINE Same(p) == /\ req'[p] = req[p] /\ (Confirming(p)' <=> Confirming(p))
                        /\ (Deciding(p)' <=> Deciding(p)) /\ Owned(p)' = Owned(p)
  <1>1. \A p \in Requests \ {r} : Same(p)
    BY DEF Leaves, Confirming, Deciding, Owned, Composite
  <1>2. \A p \in Requests \ {r} : Confirming(p) =>
          Owned(p) \subseteq 1 .. made /\ \A c \in Owned(p) : ~Fresh(r, c)
    <2> SUFFICES ASSUME NEW p \in Requests \ {r}, Confirming(p)
                 PROVE  Owned(p) \subseteq 1 .. made /\ \A c \in Owned(p) : ~Fresh(r, c)
      OBVIOUS
    <2>1. Owned(p) \subseteq 1 .. made /\ Apart(p) /\ made \in Nat
      BY PaymentsAssumption DEF Types, RowTypes, RequestOK, Written
    <2>2. \A c \in Owned(p) : ~(c > made)
      BY <2>1
    <2> QED BY <2>1, <2>2 DEF Fresh, Apart
  <1>3. ASSUME Confirming(r)' PROVE Apart(r)'
    <2>1. \A p \in Requests \ {r} : Confirming(p) => Owned(p) \cap Owned(r)' = {}
      BY <1>2, <1>3 DEF Leaves
    <2> QED BY <1>1, <2>1 DEF Apart
  <1>4. ASSUME Confirming(q) PROVE Apart(q)' /\ AttemptOK(q)'
    <2>1. Apart(q)'
      <3> SUFFICES ASSUME NEW p \in Requests \ {q}, Confirming(p)'
                   PROVE  Owned(p)' \cap Owned(q)' = {}
        BY DEF Apart
      <3>1. CASE p = r
        BY <1>1, <1>2, <1>4, <3>1 DEF Leaves
      <3>2. CASE p # r
        BY <1>1, <1>4, <3>2 DEF Written, Apart
      <3> QED BY <3>1, <3>2
    <2>2. AttemptOK(q) /\ Same(q) /\ \A c \in Owned(q) : ~Fresh(r, c) /\ c \in Charges
      BY <1>1, <1>2, <1>4, PaymentsAssumption DEF Written, Charges, Types, RowTypes
    <2>3. req[q].c \in Owned(q) /\ (Composite(q) => req[q].c + 1 \in Owned(q))
          /\ (Composite(q)' <=> Composite(q)) /\ (Settles(q)' <=> Settles(q))
      BY <2>2 DEF Owned, Composite, Settles
    <2> HIDE DEF Same
    <2>4. LET c == req[q].c IN
          /\ charge[c].status # "none" => charge'[c].status # "none"
          /\ charge[c].status \notin {"none", "CREATED"} => charge'[c].status \notin {"none", "CREATED"}
          /\ payment[c] = "none" => payment'[c] = "none"
          /\ hold[c] = "none" => hold'[c] = "none"
          /\ charge'[c].method = charge[c].method
      BY <2>2, <2>3 DEF Leaves
    <2>5. Composite(q) /\ charge[req[q].c + 1].status = "none" => charge'[req[q].c + 1].status = "none"
      BY <2>2, <2>3 DEF Leaves
    <2> QED BY <2>1, <2>2, <2>3, <2>4, <2>5 DEF Same, AttemptOK
  <1>5. ASSUME Deciding(q) PROVE DecisionOK(q)'
    <2>1. DecisionOK(q) /\ Same(q) /\ req[q].c \in Charges /\ req[q].pay \in Charges
      BY <1>1, <1>5 DEF Written, Types, RequestOK
    <2> QED BY <2>1 DEF DecisionOK, Leaves, Settles
  <1>6. ListOK(q)'
    <2>1. ListOK(q) /\ req'[q] = req[q] /\ req[q].legs \subseteq Charges
          /\ (req[q].at = "drop" => req[q].c \in Charges)
      BY <1>1 DEF Written, Types, RequestOK, Work
    <2> QED BY <2>1 DEF ListOK, Leaves
  <1> QED BY <1>1, <1>3, <1>4, <1>5, <1>6

LEMMA WrittenStep ==
  ASSUME Types, Written, NEW r \in Requests, Leaves(r),
         \A c \in Charges : ChargeOK(c)', OneActive',
         Confirming(r)' => AttemptOK(r)', Deciding(r)' => DecisionOK(r)', ListOK(r)'
  PROVE  Written'
  <1>1. \A q \in Requests \ {r} : Confirming(r)' => Apart(r)'
    BY OthersWritten
  <1>2. Confirming(r)' => Apart(r)'
    BY <1>1 DEF Apart
  <1> QED BY <1>2, OthersWritten DEF Written

\* No charge, hold or payment changes.
LEMMA QuietWritten ==
  ASSUME Types, Written, NEW r \in Requests, UNCHANGED <<charge, hold, payment, made>>,
         intent \notin Unpaid => intent' \notin Unpaid, lost \subseteq lost',
         \A c \in Charges : <<c, "done">> \in receipts' => payment[c] \in {"done", "returned"},
         \A q \in Requests \ {r} : req'[q] = req[q],
         Confirming(r)' => Confirming(r) /\ Owned(r)' \subseteq Owned(r),
         Confirming(r)' => AttemptOK(r)', Deciding(r)' => DecisionOK(r)', ListOK(r)'
  PROVE  Written'
  <1>1. Leaves(r)
    BY DEF Leaves, Fresh
  <1>2. ASSUME NEW c \in Charges PROVE ChargeOK(c)'
    BY DEF Written, ChargeOK
  <1>3. OneActive'
    BY DEF Written, OneActive, ActiveCharges, Active
  <1> QED BY <1>1, <1>2, <1>3, WrittenStep

\* A request that has ended, or that captures, rests on nothing.
LEMMA RestWritten ==
  ASSUME NEW r \in Requests, req'[r].legs = {}, req'[r].at \in {"idle", "capture"}
  PROVE  ~Confirming(r)' /\ ~Deciding(r)' /\ ListOK(r)'
  BY DEF Confirming, Deciding, ListOK

\* Some charges get another status, by which they are not made anew.
LEMMA StatusWritten ==
  ASSUME Types, Written, NEW cs \in SUBSET Charges,
         NEW status \in {"REQUIRES_ACTION", "SUCCEEDED", "FAILED", "CANCELED"},
         charge' = Status(cs, status), made' = made,
         \A c \in cs : charge[c].status # "none",
         intent \notin Unpaid => intent' \notin Unpaid, lost \subseteq lost',
         \A c \in cs : status = "REQUIRES_ACTION" => charge[c].method = "TOSS",
         \A c \in cs : status = "SUCCEEDED" => charge[c].method # "TOSS",
         status = "REQUIRES_ACTION" => \E c \in Charges : ActiveCharges \subseteq {c} /\ cs = {c},
         NEW c \in Charges,
         payment'[c] = payment[c] \/ (payment[c] # "none" /\ payment'[c] = "returned"),
         hold'[c] = hold[c] \/ (charge[c].method = "POINTS" /\ charge[c].status # "none"),
         receipts' = receipts
  PROVE  ChargeOK(c)' /\ OneActive'
  <1>1. /\ charge'[c] = IF c \in cs THEN [charge[c] EXCEPT !.status = status] ELSE charge[c]
        /\ charge[c] \in Charged /\ ChargeOK(c)
    BY DEF Status, Types, RowTypes, Written
  <1>2. /\ charge'[c].method = charge[c].method /\ charge'[c].key = charge[c].key
        /\ charge'[c].status = IF c \in cs THEN status ELSE charge[c].status
    BY <1>1 DEF Charged
  <1>3. c > made => charge'[c] = NoCharge
    BY <1>1 DEF ChargeOK, NoCharge
  <1>4. ChargeOK(c)'
    BY <1>1, <1>2, <1>3 DEF ChargeOK
  <1>5. OneActive'
    <2>1. \A d \in Charges : charge'[d].status = IF d \in cs THEN status ELSE charge[d].status
      BY DEF Status, Types, RowTypes, Charged
    <2>2. CASE status = "REQUIRES_ACTION"
      BY <2>1, <2>2 DEF OneActive, ActiveCharges, Active
    <2>3. CASE status # "REQUIRES_ACTION"
      BY <2>1, <2>3 DEF Written, OneActive, ActiveCharges, Active
    <2> QED BY <2>2, <2>3
  <1> QED BY <1>4, <1>5

LEMMA StatusLeaves ==
  ASSUME Types, NEW r \in Requests, NEW cs \in SUBSET Charges,
         NEW status \in {"REQUIRES_ACTION", "SUCCEEDED", "FAILED", "CANCELED"},
         charge' = Status(cs, status), made' = made, lost \subseteq lost',
         \A c \in cs : charge[c].status # "none",
         \A q \in Requests \ {r} : req'[q] = req[q],
         Confirming(r)' => Confirming(r) /\ Owned(r)' \subseteq Owned(r),
         \A c \in Charges : \/ payment'[c] = payment[c]
                            \/ payment[c] = "done" /\ payment'[c] = "returned",
         \A c \in Charges : hold[c] = "none" => \/ hold'[c] = "none"
                                                \/ Confirming(r) /\ c \in Owned(r)
  PROVE  Leaves(r)
  <1>1. \A c \in Charges : /\ charge'[c].method = charge[c].method
                           /\ charge'[c].status = IF c \in cs THEN status ELSE charge[c].status
    BY DEF Status, Types, RowTypes, Charged
  <1> QED BY <1>1 DEF Leaves, Fresh

LEMMA ConfirmationWritten ==
  ASSUME Types, Written, NEW r \in Requests, Confirmation(r)
  PROVE  Written'
  <1>0. /\ req' \in [Requests -> Work] /\ \A q \in Requests \ {r} : req'[q] = req[q]
        /\ req \in [Requests -> Work] /\ req[r] \in Work /\ charge \in [Charges -> Charged]
        /\ made \in Nat /\ IdleRequest.at = "idle" /\ IdleRequest.legs = {}
        /\ hold \in [Charges -> {"none", "AUTHORIZED", "CAPTURED", "CANCELLED"}]
        /\ payment \in [Charges -> {"none", "ready"} \cup Settled]
    BY RequestMoves, PaymentsAssumption DEF Step, Types, RowTypes, IdleRequest
  <1>1. CASE HoldPoints(r)
    <2> DEFINE c == req[r].c
    <2>1. req[r].at = "discount" /\ Composite(r)
      BY <1>1 DEF HoldPoints, Composite
    <2>2. /\ Confirming(r) /\ AttemptOK(r) /\ ListOK(r) /\ c \in Charges /\ c + 1 \in Charges
          /\ req[r].legs = {} /\ c \in Owned(r) /\ c + 1 # c
      BY <2>1, AttemptFacts, PaymentsAssumption DEF Written, Owned, Charges
    <2>3. /\ UNCHANGED <<intent, payment, made, receipts, lost>>
          /\ charge' = Status(StaleHold, "CANCELED")
      BY <1>1 DEF HoldPoints, toss, hooks
    <2>4. \A d \in StaleHold : d \in Charges /\ charge[d].status = "SUCCEEDED" /\ charge[d].method = "POINTS"
      BY Picked DEF PointsHeld, Succeeded
    <2>5. /\ charge[c].status # "none" /\ charge[c + 1].status = "none" /\ hold[c] = "none"
          /\ charge[c].method = "POINTS"
      BY <2>1, <2>2 DEF AttemptOK
    <2>6. /\ req'[r].op = "confirm" /\ req'[r].c = c /\ req'[r].legs = {}
          /\ \/ req'[r].at = "held"
             \/ req'[r].at = "finish" /\ hold'[c] = "none"
      <3>1. CASE Goes(r, "held")
        <4>1. "held" \in Places
          BY DEF Places
        <4>2. req'[r] = [req[r] EXCEPT !.at = "held"]
          BY <1>0, <3>1, <4>1, GoesMoves
        <4>3. req[r].op = "confirm" /\ req[r].legs = {}
          BY <2>2 DEF Confirming
        <4> QED BY <1>0, <4>2, <4>3 DEF Work
      <3>2. CASE ~Goes(r, "held")
        <4>1. Unheld(StaleHold) /\ req' = [req EXCEPT ![r].at = "finish", ![r].ok = FALSE]
          BY <1>1, <3>2 DEF HoldPoints
        <4>2. req'[r] = [req[r] EXCEPT !.at = "finish", !.ok = FALSE]
          BY <1>0, <4>1, SettlesMoves
        <4>3. hold'[c] = "none"
          BY <2>2, <2>5, <4>1 DEF Unheld
        <4> QED BY <1>0, <2>1, <2>2, <4>2, <4>3, AttemptFacts DEF Work
      <3> QED BY <3>1, <3>2
    <2>7. \A d \in Charges : \/ hold'[d] = hold[d] \/ d = c
                             \/ d \in StaleHold /\ hold[d] = "AUTHORIZED"
      BY <1>1 DEF HoldPoints, Unheld
    <2>8. Confirming(r)' => Owned(r)' \subseteq Owned(r)
      BY <2>1, <2>6 DEF Owned, Composite
    <2>9. Leaves(r)
      BY <1>0, <2>2, <2>3, <2>4, <2>7, <2>8, StatusLeaves
    <2>10. ASSUME NEW d \in Charges PROVE ChargeOK(d)' /\ OneActive'
      <3>1. hold'[d] = hold[d] \/ (charge[d].method = "POINTS" /\ charge[d].status # "none")
        BY <2>4, <2>5, <2>7
      <3> QED BY <2>3, <2>4, <3>1, StatusWritten
    <2>11. /\ charge'[c].status # "none" /\ charge'[c].method = "POINTS"
           /\ charge'[c + 1].status = "none"
      BY <1>0, <2>2, <2>3, <2>4, <2>5 DEF Status, Charged
    <2>12. AttemptOK(r)' /\ ListOK(r)' /\ ~Deciding(r)'
      BY <2>6, <2>11 DEF AttemptOK, Composite, Settles, ListOK, Deciding
    <2> QED BY <2>2, <2>9, <2>10, <2>12, WrittenStep
  <1>2. CASE MarkHeld(r)
    <2> DEFINE c == req[r].c
    <2>1. req[r].at = "held" /\ Composite(r)
      BY <1>2 DEF MarkHeld, Composite
    <2>2. /\ Confirming(r) /\ AttemptOK(r) /\ c \in Charges /\ c + 1 \in Charges
          /\ req[r].legs = {} /\ c \in Owned(r) /\ c + 1 # c
      BY <2>1, AttemptFacts, PaymentsAssumption DEF Written, Owned, Charges
    <2>3. /\ UNCHANGED <<intent, payment, made, receipts, lost, hold>>
          /\ charge' = Status({c}, "SUCCEEDED")
      BY <1>2 DEF MarkHeld, toss, hooks, ledger
    <2>4. /\ charge[c].status # "none" /\ charge[c + 1].status = "none"
          /\ charge[c].method = "POINTS"
      BY <2>1, <2>2 DEF AttemptOK
    <2>5. req'[r].op = "confirm" /\ req'[r].c = c /\ req'[r].legs = {} /\ req'[r].at = "split"
      BY <1>0, <1>2, <2>1, <2>2, AttemptFacts, GoesMoves DEF MarkHeld, Work, Places
    <2>6. Owned(r)' \subseteq Owned(r)
      BY <2>1, <2>5 DEF Owned, Composite
    <2>7. Leaves(r)
      BY <1>0, <2>2, <2>3, <2>4, <2>6, StatusLeaves
    <2>8. ASSUME NEW d \in Charges PROVE ChargeOK(d)' /\ OneActive'
      BY <2>2, <2>3, <2>4, StatusWritten
    <2>9. /\ charge'[c].status = "SUCCEEDED" /\ charge'[c].method = "POINTS"
          /\ charge'[c + 1].status = "none"
      BY <1>0, <2>2, <2>3, <2>4 DEF Status, Charged
    <2>10. AttemptOK(r)' /\ ListOK(r)' /\ ~Deciding(r)'
      BY <2>5, <2>9 DEF AttemptOK, Composite, Settles, ListOK, Deciding
    <2> QED BY <2>2, <2>7, <2>8, <2>10, WrittenStep
  <1>3. CASE MakePrimary(r)
    <2> DEFINE c == req[r].c + 1
    <2>1. req[r].at = "split" /\ Composite(r)
      BY <1>3 DEF MakePrimary, Composite
    <2>2. /\ Confirming(r) /\ AttemptOK(r) /\ req[r].c \in Charges /\ c \in Charges
          /\ c \in Owned(r) /\ c # req[r].c /\ c \in 1 .. made /\ req[r].legs = {}
      BY <2>1, AttemptFacts, PaymentsAssumption DEF Written, Owned, Charges
    <2>3. UNCHANGED <<intent, payment, made, receipts, lost, hold>>
      BY <1>3 DEF MakePrimary, toss, hooks, ledger
    <2>4. CASE ActiveCharges # {}
      BY <1>0, <1>3, <2>3, <2>4, EndsMoves, RestWritten, QuietWritten DEF MakePrimary, Written, ChargeOK
    <2>5. CASE ActiveCharges = {}
      <3>1. charge' = [charge EXCEPT ![c] = NewCharge("TOSS", Payable - PointsPart)]
            /\ req' = [req EXCEPT ![r].at = "primary", ![r].c = c, ![r].legs = {req[r].c}]
        BY <1>3, <2>5 DEF MakePrimary
      <3>2. Payable - PointsPart \in 0 .. Payable
        BY PaymentsAssumption
      <3>3. /\ \A d \in Charges \ {c} : charge'[d] = charge[d]
            /\ charge'[c].status = "CREATED" /\ charge'[c].method = "TOSS"
            /\ charge'[c].key = None
        BY <1>0, <2>2, <3>1, <3>2, NewChargeFacts
      <3>4. /\ req'[r].op = "confirm" /\ req'[r].c = c
            /\ req'[r].at = "primary" /\ req'[r].legs = {req[r].c}
        BY <1>0, <2>1, <3>1, AttemptFacts DEF Work
      <3>5. /\ charge[c].status = "none" /\ charge[req[r].c].status \notin {"none", "CREATED"}
            /\ ChargeOK(c)
        BY <2>1, <2>2 DEF AttemptOK, Written
      <3>6. payment[c] = "none" /\ hold[c] = "none" /\ <<c, "done">> \notin receipts
        BY <3>5 DEF ChargeOK
      <3>7. Owned(r)' = {c}
        BY <3>4 DEF Owned, Composite
      <3>8. Fresh(r, c) /\ (Confirming(r)' => \A d \in Owned(r)' : Fresh(r, d))
        BY <2>2, <3>7 DEF Fresh
      <3>9. Leaves(r)
        BY <1>0, <2>3, <3>3, <3>5, <3>8 DEF Leaves
      <3>10. ASSUME NEW d \in Charges PROVE ChargeOK(d)'
        <4>1. CASE d = c
          BY <1>0, <2>2, <2>3, <3>3, <3>6, <4>1 DEF ChargeOK
        <4>2. CASE d # c
          BY <2>3, <3>3, <4>2 DEF Written, ChargeOK
        <4> QED BY <4>1, <4>2
      <3>11. OneActive'
        <4>1. \A d \in Charges \ {c} : ~Active(d)'
          BY <2>5, <3>3 DEF ActiveCharges, Active
        <4> QED BY <4>1 DEF OneActive, ActiveCharges
      <3>12. AttemptOK(r)' /\ ListOK(r)' /\ ~Deciding(r)'
        BY <2>2, <2>3, <3>3, <3>4, <3>5, <3>6 DEF AttemptOK, Composite, Settles, ListOK, Deciding
      <3> QED BY <3>9, <3>10, <3>11, <3>12, WrittenStep
    <2> QED BY <2>4, <2>5
  <1>4. CASE PointsPrimary(r)
    <2> DEFINE c == req[r].c
    <2>1. req[r].at = "primary" /\ charge[c].method = "POINTS"
          /\ UNCHANGED <<intent, payment, made, receipts, lost, charge>>
      BY <1>4 DEF PointsPrimary, rows, toss, hooks, history
    <2>2. Confirming(r) /\ AttemptOK(r) /\ c \in Charges /\ Owned(r) = {c}
      BY <2>1, AttemptFacts DEF Written, Owned, Composite
    <2>3. req[r].legs = {} /\ charge[c].status # "none" /\ hold[c] = "none"
      BY <2>1, <2>2 DEF AttemptOK
    <2>4. /\ req'[r].op = "confirm" /\ req'[r].c = c /\ req'[r].legs = {}
          /\ \/ req'[r].at = "finish" /\ req'[r].ok
             \/ req'[r].at = "refused" /\ hold' = hold
          /\ \A d \in Charges \ {c} : hold'[d] = hold[d]
      <3>1. CASE UNCHANGED hold /\ Goes(r, "refused")
        BY <1>0, <2>1, <2>3, <3>1, AttemptFacts, GoesMoves DEF Work, Places
      <3>2. CASE ~(UNCHANGED hold /\ Goes(r, "refused"))
        <4>1. /\ hold' = [hold EXCEPT ![c] = "AUTHORIZED"]
              /\ req' = [req EXCEPT ![r].at = "finish", ![r].ok = TRUE]
          BY <1>4, <3>2 DEF PointsPrimary
        <4>2. req'[r] = [req[r] EXCEPT !.at = "finish", !.ok = TRUE]
          BY <1>0, <4>1, SettlesMoves
        <4>3. req'[r].at = "finish" /\ req'[r].ok
          BY <1>0, <4>2 DEF Work
        <4> QED BY <1>0, <2>1, <2>3, <4>1, <4>2, <4>3, AttemptFacts DEF Work
      <3> QED BY <3>1, <3>2
    <2>5. Owned(r)' = {c} /\ Confirming(r)'
      BY <2>4 DEF Owned, Composite, Confirming
    <2>6. Leaves(r)
      BY <1>0, <2>1, <2>2, <2>4, <2>5 DEF Leaves, Fresh
    <2>7. ASSUME NEW d \in Charges PROVE ChargeOK(d)'
      BY <2>1, <2>3, <2>4 DEF Written, ChargeOK
    <2>8. OneActive'
      BY <2>1 DEF Written, OneActive, ActiveCharges, Active
    <2>9. AttemptOK(r)' /\ ListOK(r)' /\ ~Deciding(r)'
      BY <2>1, <2>3, <2>4 DEF AttemptOK, Composite, Settles, ListOK, Deciding
    <2> QED BY <2>6, <2>7, <2>8, <2>9, WrittenStep
  <1>5. CASE TossPrimary(r)
    <2> DEFINE c == req[r].c
    <2>1. /\ req[r].at = "primary" /\ charge[c].method = "TOSS"
          /\ UNCHANGED <<intent, payment, made, receipts, lost, hold>>
      BY <1>5 DEF TossPrimary, ledger, toss, hooks
    <2>2. Confirming(r) /\ AttemptOK(r) /\ ListOK(r) /\ c \in Charges /\ Owned(r) = {c}
          /\ req[r].legs \subseteq Charges
      BY <1>0, <2>1, AttemptFacts DEF Written, Owned, Composite, Work
    <2>3. CASE ActiveCharges \ {c} # {}
      BY <1>0, <1>5, <2>1, <2>3, EndsMoves, RestWritten, QuietWritten DEF TossPrimary, Written, ChargeOK
    <2>4. CASE ActiveCharges \ {c} = {}
      <3>1. charge' = Status({c}, "REQUIRES_ACTION") /\ Goes(r, "acting")
        BY <1>5, <2>4 DEF TossPrimary
      <3>2. /\ req'[r].op = "confirm" /\ req'[r].c = c /\ req'[r].legs = req[r].legs
            /\ req'[r].at = "acting"
        BY <1>0, <2>1, <3>1, AttemptFacts, GoesMoves DEF Work, Places
      <3>3. charge[c].status # "none" /\ payment[c] = "none" /\ hold[c] = "none"
        BY <2>1, <2>2 DEF AttemptOK
      <3>4. Owned(r)' = {c}
        BY <3>2 DEF Owned, Composite
      <3>5. Leaves(r)
        BY <1>0, <2>1, <2>2, <3>1, <3>3, <3>4, StatusLeaves
      <3>6. ASSUME NEW d \in Charges PROVE ChargeOK(d)' /\ OneActive'
        <4>1. ActiveCharges \subseteq {c}
          BY <2>4
        <4> QED BY <2>1, <2>2, <3>1, <3>3, <4>1, StatusWritten
      <3>7. \A d \in Charges : /\ charge'[d].status = IF d = c THEN "REQUIRES_ACTION" ELSE charge[d].status
                               /\ charge'[d].method = charge[d].method
        BY <1>0, <3>1 DEF Status, Charged
      <3>8. AttemptOK(r)' /\ ListOK(r)' /\ ~Deciding(r)'
        BY <2>1, <2>2, <3>2, <3>3, <3>7 DEF AttemptOK, Composite, Settles, ListOK, Deciding
      <3> QED BY <2>2, <3>5, <3>6, <3>8, WrittenStep
    <2> QED BY <2>3, <2>4
  <1>6. CASE AskCustomer(r)
    <2> DEFINE c == req[r].c
    <2>1. /\ req[r].at = "acting" /\ Ends(r)
          /\ UNCHANGED <<charge, made, hold, receipts, lost>>
          /\ \/ UNCHANGED <<intent, payment>>
             \/ /\ intent \in Unpaid /\ payment' = [payment EXCEPT ![c] = "ready"]
      BY <1>6 DEF AskCustomer, Allowed, Unpaid, rows, ledger, hooks, history
    <2>2. Confirming(r) /\ AttemptOK(r) /\ c \in Charges /\ c \in Owned(r)
      BY <2>1, AttemptFacts DEF Written, Owned
    <2>3. /\ charge[c].status \notin {"none", "CREATED"} /\ payment[c] = "none"
          /\ charge[c].method = "TOSS" /\ <<c, "done">> \notin receipts
      BY <2>1, <2>2 DEF AttemptOK, Written, ChargeOK
    <2>4. ~Confirming(r)' /\ ~Deciding(r)' /\ ListOK(r)'
      BY <1>0, <2>1, EndsMoves, RestWritten
    <2>5. \A d \in Charges : payment'[d] = payment[d] \/ d = c
      BY <1>0, <2>1
    <2>6. intent \notin Unpaid => intent' \notin Unpaid
      BY <2>1
    <2>7. Leaves(r)
      BY <1>0, <2>1, <2>2, <2>3, <2>4, <2>5 DEF Leaves, Fresh
    <2>8. ASSUME NEW d \in Charges PROVE ChargeOK(d)'
      <3>1. CASE d = c
        BY <2>1, <2>2, <2>3, <2>6, <3>1 DEF Written, ChargeOK
      <3>2. CASE d # c
        BY <2>1, <2>5, <2>6, <3>2 DEF Written, ChargeOK
      <3> QED BY <3>1, <3>2
    <2>9. OneActive'
      BY <2>1 DEF Written, OneActive, ActiveCharges, Active
    <2> QED BY <2>4, <2>7, <2>8, <2>9, WrittenStep
  <1>7. CASE Refused(r)
    <2>1. CASE req[r].at = "refused"
      <3> DEFINE c == req[r].c
      <3>1. /\ charge' = Status({c}, "FAILED") /\ Goes(r, "back")
            /\ UNCHANGED <<intent, payment, made, receipts, lost, hold>>
        BY <1>7, <2>1 DEF Refused, ledger, toss, hooks
      <3>2. req'[r].at = "back" /\ req'[r].legs = {} /\ req'[r].op = "confirm"
        BY <1>0, <2>1, <3>1, AttemptFacts, GoesMoves DEF Work, Places
      <3>3. c \in Charges /\ charge[c].status # "none"
        BY <2>1, AttemptFacts DEF Written, AttemptOK
      <3>4. ~Confirming(r)' /\ ~Deciding(r)' /\ ListOK(r)'
        BY <3>2 DEF Confirming, Deciding, ListOK
      <3>5. Leaves(r)
        BY <1>0, <3>1, <3>3, <3>4, StatusLeaves
      <3>6. ASSUME NEW d \in Charges PROVE ChargeOK(d)' /\ OneActive'
        BY <3>1, <3>3, StatusWritten
      <3> QED BY <3>3, <3>4, <3>5, <3>6, WrittenStep
    <2>2. CASE req[r].at = "back"
      <3>1. /\ Ends(r) /\ UNCHANGED <<charge, made, hold, payment, receipts, lost>>
            /\ intent \notin Unpaid => intent' \notin Unpaid
        BY <1>7, <2>2 DEF Refused, rows, ledger, toss, hooks, Allowed, Unpaid
      <3> QED BY <1>0, <3>1, EndsMoves, RestWritten, QuietWritten DEF Written, ChargeOK
    <2> QED BY <1>7, <2>1, <2>2 DEF Refused
  <1> QED BY <1>1, <1>2, <1>3, <1>4, <1>5, <1>6, <1>7 DEF Confirmation

\* What a confirmation does to the charges.
LEMMA ConfirmFacts ==
  ASSUME Types, Written, NEW r \in Requests, NEW plan \in Plans, Confirm(r, plan)
  PROVE  LET c == made + 1
             old == ActiveCharges \cup StaleHold
         IN
         /\ c \in Charges /\ c > made /\ made \in Nat /\ made' \in Nat /\ made < made'
         /\ made' = made + (IF plan = "both" THEN 2 ELSE 1) /\ made' <= MaxCharges
         /\ \A q \in Requests \ {r} : req'[q] = req[q]
         /\ UNCHANGED <<payment, notices, receipts, flagged, lost, dead>>
         /\ Unheld(StaleHold) /\ intent \in Unpaid
         /\ \A d \in old : d \in Charges /\ charge[d].status # "none"
         /\ \A d \in Charges : d > made => charge[d] = NoCharge /\ d \notin old
         /\ \A d \in Charges \ {c} :
              /\ charge'[d].method = charge[d].method /\ charge'[d].key = charge[d].key
              /\ charge'[d].status = IF d \in old THEN "CANCELED" ELSE charge[d].status
              /\ d \notin old => charge'[d] = charge[d]
         /\ charge'[c].status = "CREATED" /\ charge'[c].key = None
         /\ charge'[c].method = IF plan = "toss" THEN "TOSS" ELSE "POINTS"
         /\ payment[c] = "none" /\ hold[c] = "none" /\ charge[c].status = "none"
         /\ \A d \in Charges : hold[d] = "none" => hold'[d] = "none"
         /\ req'[r].op = "confirm" /\ req'[r].c = c /\ req'[r].legs = {}
         /\ req'[r].at = IF plan = "both" THEN "discount" ELSE "primary"
         /\ Idle(r) /\ ~Confirming(r)
  <1> DEFINE c == made + 1
             old == ActiveCharges \cup StaleHold
             cancelled == Status(old, "CANCELED")
  <1>0. /\ \A q \in Requests \ {r} : req'[q] = req[q]
        /\ req \in [Requests -> Work] /\ req[r] = IdleRequest /\ charge \in [Charges -> Charged]
        /\ made \in Nat /\ made' \in Nat /\ c \in Charges /\ c > made /\ made < made'
        /\ made' = made + (IF plan = "both" THEN 2 ELSE 1) /\ made' <= MaxCharges
    <2>1. /\ \A q \in Requests \ {r} : req'[q] = req[q]
          /\ req \in [Requests -> Work] /\ req[r] = IdleRequest /\ charge \in [Charges -> Charged]
      BY RequestMoves, Idles DEF Start, Types, RowTypes, Confirm
    <2>2. made \in Nat
      BY PaymentsAssumption DEF Types, RowTypes
    <2>3. /\ made' = made + (IF plan = "both" THEN 2 ELSE 1)
          /\ made + (IF plan = "both" THEN 2 ELSE 1) <= MaxCharges
      BY DEF Confirm
    <2>4. /\ made' \in Nat /\ c > made /\ made < made' /\ made' <= MaxCharges /\ c \in Charges
      BY <2>2, <2>3, PaymentsAssumption DEF Charges
    <2> QED BY <2>1, <2>2, <2>3, <2>4
  <1>1. UNCHANGED <<payment, notices, receipts, flagged, lost, dead>> /\ Unheld(StaleHold) /\ intent \in Unpaid
        /\ charge' = [cancelled EXCEPT ![c] = FirstCharge(plan)]
    BY DEF Confirm, toss, hooks, Unpaid
  <1>2. \A d \in old : d \in Charges /\ charge[d].status # "none"
    BY Picked DEF ActiveCharges, Active, PointsHeld, Succeeded
  <1>3. \A d \in Charges : d > made => charge[d] = NoCharge /\ ChargeOK(d) /\ d \notin old
    BY <1>2 DEF Written, ChargeOK, NoCharge
  <1>4. cancelled \in [Charges -> Charged] /\ FirstCharge(plan) \in Charged
    BY <1>0, StatusTypes, FirstChargeFacts DEF Statuses
  <1> HIDE DEF cancelled
  <1>5. \A d \in Charges \ {c} : charge'[d] = cancelled[d]
    BY <1>0, <1>1, <1>4
  <1>6. \A d \in Charges : /\ cancelled[d].method = charge[d].method
                           /\ cancelled[d].key = charge[d].key
                           /\ cancelled[d].status = IF d \in old THEN "CANCELED" ELSE charge[d].status
                           /\ d \notin old => cancelled[d] = charge[d]
    BY <1>0 DEF cancelled, Status, Charged
  <1>7. /\ charge'[c].status = "CREATED" /\ charge'[c].key = None
        /\ charge'[c].method = IF plan = "toss" THEN "TOSS" ELSE "POINTS"
    BY <1>0, <1>1, <1>4, FirstChargeFacts
  <1>8. payment[c] = "none" /\ hold[c] = "none" /\ charge[c].status = "none"
    <2>1. charge[c] = NoCharge /\ ChargeOK(c)
      BY <1>0, <1>3
    <2> QED BY <2>1 DEF ChargeOK, NoCharge
  <1>9. \A d \in Charges : hold[d] = "none" => hold'[d] = "none"
    BY <1>1 DEF Unheld
  <1>10. /\ req'[r].op = "confirm" /\ req'[r].c = c /\ req'[r].legs = {}
         /\ req'[r].at = IF plan = "both" THEN "discount" ELSE "primary"
    BY <1>0 DEF Confirm, IdleRequest, Work
  <1>11. Idle(r) /\ ~Confirming(r)
    BY Idles DEF Confirm
  <1>12. \A d \in Charges \ {c} :
           /\ charge'[d].method = charge[d].method /\ charge'[d].key = charge[d].key
           /\ charge'[d].status = IF d \in old THEN "CANCELED" ELSE charge[d].status
           /\ d \notin old => charge'[d] = charge[d]
    BY <1>5, <1>6
  <1> HIDE DEF Confirming
  <1> QED BY <1>0, <1>1, <1>2, <1>3, <1>7, <1>8, <1>9, <1>10, <1>11, <1>12

LEMMA ConfirmWritten ==
  ASSUME Types, Written, NEW r \in Requests, NEW plan \in Plans, Confirm(r, plan)
  PROVE  Written'
  <1> DEFINE c == made + 1
             old == ActiveCharges \cup StaleHold
  <1>1. /\ c \in Charges /\ c > made /\ made \in Nat /\ made' \in Nat /\ made < made'
        /\ made' = made + (IF plan = "both" THEN 2 ELSE 1) /\ made' <= MaxCharges
        /\ \A q \in Requests \ {r} : req'[q] = req[q]
        /\ UNCHANGED <<payment, receipts, lost>> /\ intent \in Unpaid
        /\ charge'[c].status = "CREATED" /\ charge'[c].key = None
        /\ charge'[c].method = IF plan = "toss" THEN "TOSS" ELSE "POINTS"
        /\ payment[c] = "none" /\ hold[c] = "none" /\ charge[c].status = "none"
        /\ \A d \in Charges : hold[d] = "none" => hold'[d] = "none"
    BY ConfirmFacts
  <1>2. /\ \A d \in old : d \in Charges /\ charge[d].status # "none"
        /\ \A d \in Charges : d > made => charge[d] = NoCharge /\ d \notin old
        /\ \A d \in Charges \ {c} :
             /\ charge'[d].method = charge[d].method /\ charge'[d].key = charge[d].key
             /\ charge'[d].status = IF d \in old THEN "CANCELED" ELSE charge[d].status
             /\ d \notin old => charge'[d] = charge[d]
    BY ConfirmFacts
  <1>3. /\ req'[r].op = "confirm" /\ req'[r].c = c /\ req'[r].legs = {}
        /\ req'[r].at = IF plan = "both" THEN "discount" ELSE "primary"
    BY ConfirmFacts
  <1>4. \A d \in Owned(r)' : d > made
    BY <1>1, <1>3 DEF Owned, Composite
  <1>5. Leaves(r)
    <2>1. \A d \in Charges :
            /\ charge[d].status # "none" => charge'[d].status # "none"
            /\ charge[d].status \notin {"none", "CREATED"} =>
                 charge'[d].method = charge[d].method /\ charge'[d].status \notin {"none", "CREATED"}
            /\ d # c => /\ charge[d].status = "none" => charge'[d].status = "none"
                        /\ charge'[d].method = charge[d].method
      BY <1>1, <1>2
    <2>2. Fresh(r, c)
      BY <1>1 DEF Fresh
    <2> QED BY <1>1, <1>4, <2>1, <2>2 DEF Leaves, Fresh
  <1>6. ASSUME NEW d \in Charges PROVE ChargeOK(d)'
    <2>0. ChargeOK(d) /\ ChargeOK(c)
      BY <1>1 DEF Written
    <2>1. CASE d = c
      BY <1>1, <2>0, <2>1 DEF ChargeOK
    <2>2. CASE d # c
      <3>1. d > made' => charge'[d] = NoCharge
        <4>1. d > made' => d > made
          BY <1>1 DEF Charges
        <4> QED BY <1>2, <2>2, <4>1
      <3>2. hold'[d] # "none" => hold[d] # "none"
        BY <1>1
      <3> QED BY <1>1, <1>2, <2>0, <2>2, <3>1, <3>2 DEF ChargeOK
    <2> QED BY <2>1, <2>2
  <1>7. OneActive'
    <2>1. \A d \in Charges \ {c} : ~Active(d)'
      BY <1>2 DEF ActiveCharges, Active
    <2> QED BY <2>1 DEF OneActive, ActiveCharges
  <1>8. Composite(r)' => charge'[c + 1].status = "none"
    <2> SUFFICES ASSUME Composite(r)' PROVE charge'[c + 1].status = "none"
      OBVIOUS
    <2>1. c + 1 \in Charges /\ c + 1 > made /\ c + 1 # c
      BY <1>1, <1>3, PaymentsAssumption DEF Composite, Charges
    <2> QED BY <1>2, <2>1 DEF NoCharge
  <1>9. AttemptOK(r)' /\ ListOK(r)' /\ ~Deciding(r)'
    <2>1. hold'[c] = "none" /\ payment'[c] = "none" /\ charge'[c].method \in {"POINTS", "TOSS"}
          /\ (plan = "both" => charge'[c].method = "POINTS")
      BY <1>1
    <2>2. AttemptOK(r)'
      <3>1. CASE plan = "both"
        BY <1>1, <1>3, <1>8, <2>1, <3>1 DEF AttemptOK, Composite, Settles
      <3>2. CASE plan # "both"
        BY <1>1, <1>3, <1>8, <2>1, <3>2 DEF AttemptOK, Composite, Settles
      <3> QED BY <3>1, <3>2
    <2>3. ListOK(r)' /\ ~Deciding(r)'
      BY <1>3 DEF ListOK, Deciding
    <2> QED BY <2>2, <2>3
  <1> QED BY <1>5, <1>6, <1>7, <1>9, WrittenStep

LEMMA StartsWritten ==
  ASSUME Types, Written, NEW r \in Requests, Start(r)
  PROVE  Written'
  <1>0. /\ req' \in [Requests -> Work] /\ \A q \in Requests \ {r} : req'[q] = req[q]
        /\ req \in [Requests -> Work] /\ charge \in [Charges -> Charged]
        /\ Idle(r) => /\ req[r].legs = {} /\ ~Confirming(r) /\ ~Deciding(r) /\ ListOK(r)
                      /\ req[r] = IdleRequest
        /\ \A c \in Charges : <<c, "done">> \in receipts => payment[c] \in {"done", "returned"}
    BY RequestMoves, Idles DEF Types, RowTypes, IdleRequest, Written, ChargeOK
  <1>1. ASSUME NEW plan \in Plans, Confirm(r, plan) PROVE Written'
    BY <1>1, ConfirmWritten
  <1>2. CASE ConfirmAgain(r)
    <2>1. /\ charge' = Status(StaleHold, "CANCELED") /\ Unheld(StaleHold) /\ Idle(r)
          /\ UNCHANGED <<req, intent, made, payment, receipts, lost>>
      BY <1>2 DEF ConfirmAgain, toss, hooks
    <2>2. \A d \in StaleHold : d \in Charges /\ charge[d].status = "SUCCEEDED" /\ charge[d].method = "POINTS"
      BY Picked DEF PointsHeld, Succeeded
    <2>3. \A d \in Charges : hold'[d] = hold[d] \/ (d \in StaleHold /\ hold[d] # "none")
      BY <2>1 DEF Unheld
    <2>4. ~Confirming(r)' /\ ~Deciding(r)' /\ ListOK(r)'
      BY <1>0, <2>1, RestWritten DEF IdleRequest
    <2>5. Leaves(r)
      BY <1>0, <2>1, <2>2, <2>3, <2>4, StatusLeaves
    <2>6. ASSUME NEW d \in Charges PROVE ChargeOK(d)' /\ OneActive'
      <3>1. hold'[d] = hold[d] \/ (charge[d].method = "POINTS" /\ charge[d].status # "none")
        BY <2>2, <2>3
      <3> QED BY <2>1, <2>2, <3>1, StatusWritten
    <2>7. OneActive'
      <3>1. \A d \in Charges : charge'[d].status = IF d \in StaleHold THEN "CANCELED" ELSE charge[d].status
        BY <1>0, <2>1 DEF Status, Charged
      <3> QED BY <3>1 DEF Written, OneActive, ActiveCharges, Active
    <2> QED BY <2>4, <2>5, <2>6, <2>7, WrittenStep
  <1> DEFINE Quiet == /\ UNCHANGED <<charge, hold, payment, made, intent, receipts, lost>>
                      /\ Idle(r)
  \* A request that begins with nothing but, perhaps, a charge to decide.
  <1>3. ASSUME Quiet, ~Confirming(r)', Deciding(r)' => DecisionOK(r)',
               req'[r].legs = {}, req'[r].at # "drop"
        PROVE  Written'
    <2>1. ListOK(r)'
      BY <1>3 DEF ListOK
    <2> QED BY <1>0, <1>3, <2>1, QuietWritten
  <1>4. CASE CaptureStarts(r)
    <2>1. Quiet
      BY <1>4 DEF CaptureStarts, rows, ledger, toss, hooks, history
    <2>2. req'[r].at = "capture" /\ req'[r].legs = {}
      BY <1>0, <1>4 DEF CaptureStarts, Work
    <2> QED BY <1>3, <2>1, <2>2 DEF Confirming, Deciding
  <1>5. CASE FinalizeDeferred(r)
    <2>1. Quiet
      BY <1>5 DEF FinalizeDeferred, rows, ledger, toss, hooks, history
    <2>2. PICK c \in ActiveCharges :
             /\ charge[c].status = "REQUIRES_ACTION"
             /\ req' = [req EXCEPT ![r].op = "approve", ![r].c = c, ![r].pay = charge[c].staged,
                                   ![r].at = "pay"]
      BY <1>5 DEF FinalizeDeferred
    <2>3. req'[r].op = "approve" /\ req'[r].at = "pay" /\ req'[r].c = c /\ req'[r].legs = {}
      BY <1>0, <2>1, <2>2 DEF Work
    <2>4. c \in Charges /\ charge[c].method = "TOSS"
      BY <2>2, Picked DEF Written, ChargeOK
    <2>5. DecisionOK(r)'
      BY <2>1, <2>2, <2>3, <2>4 DEF DecisionOK, Settles
    <2> QED BY <1>3, <2>1, <2>3, <2>5 DEF Confirming
  <1>6. CASE Abandon(r)
    <2>1. Quiet
      BY <1>6 DEF Abandon, rows, ledger, toss, hooks, history
    <2>2. req'[r].at = "release" /\ req'[r].legs = {} /\ req'[r].op = "abandon"
      BY <1>0, <1>6 DEF Abandon, Work
    <2> QED BY <1>3, <2>1, <2>2 DEF Confirming, Deciding
  <1>7. CASE Cancel(r)
    <2>1. Quiet
      BY <1>7 DEF Cancel, rows, ledger, toss, hooks, history
    <2>2. req'[r].at = "release" /\ req'[r].legs = {} /\ req'[r].op = "cancel"
      BY <1>0, <1>7 DEF Cancel, Work
    <2> QED BY <1>3, <2>1, <2>2 DEF Confirming, Deciding
  <1>8. ASSUME NEW o \in Charges, Approve(r, o) PROVE Written'
    <2>1. Quiet
      BY <1>8 DEF Approve, rows, ledger, toss, hooks, history
    <2>2. PICK c \in ActiveCharges :
             /\ charge[c].status = "REQUIRES_ACTION"
             /\ req' = [req EXCEPT ![r].op = "approve", ![r].c = c, ![r].pay = o,
                                ![r].at = IF deferred THEN "stage" ELSE "pay"]
      BY <1>8 DEF Approve
    <2>3. req'[r].op = "approve" /\ req'[r].at \in {"stage", "pay"} /\ req'[r].c = c /\ req'[r].legs = {}
      BY <1>0, <2>1, <2>2 DEF Work
    <2>4. c \in Charges /\ charge[c].method = "TOSS"
      BY <2>2, Picked DEF Written, ChargeOK
    <2>5. DecisionOK(r)'
      BY <2>1, <2>2, <2>3, <2>4 DEF DecisionOK, Settles
    <2> QED BY <1>3, <2>1, <2>3, <2>5 DEF Confirming
  <1>9. ASSUME NEW o \in Charges, NoticeComes(r, o) PROVE Written'
    <2>1. Quiet
      BY <1>9 DEF NoticeComes, rows, ledger, toss, hooks, history
    <2>2. req'[r].op = "webhook" /\ req'[r].at = "query" /\ req'[r].legs = {}
      BY <1>0, <1>9, <2>1 DEF NoticeComes, Work
    <2>3. DecisionOK(r)'
      BY <2>2 DEF DecisionOK, Settles
    <2> QED BY <1>3, <2>1, <2>2, <2>3 DEF Confirming
  <1> QED BY <1>1, <1>2, <1>4, <1>5, <1>6, <1>7, <1>8, <1>9 DEF Start

LEMMA CompletionWritten ==
  ASSUME Types, Written, NEW r \in Requests, Completion(r)
  PROVE  Written'
  <1>0. /\ req' \in [Requests -> Work] /\ \A q \in Requests \ {r} : req'[q] = req[q]
        /\ req \in [Requests -> Work] /\ req[r] \in Work /\ charge \in [Charges -> Charged]
        /\ IdleRequest.at = "idle" /\ IdleRequest.legs = {} /\ req[r].legs \subseteq Charges
        /\ \A c \in Charges : <<c, "done">> \in receipts => payment[c] \in {"done", "returned"}
        /\ RequestOK(r) /\ ListOK(r)
    BY RequestMoves DEF Step, Types, RowTypes, IdleRequest, Work, Written, ChargeOK
  <1>1. CASE Finish(r)
    <2> DEFINE c == req[r].c
               to == IF req[r].ok THEN "AUTHORIZED" ELSE "CREATED"
               done == IF req[r].ok THEN "SUCCEEDED" ELSE "FAILED"
    <2>1. /\ req[r].at \in {"finish", "waiting"} /\ Settles(r)
          /\ UNCHANGED <<made, hold, payment, receipts>> /\ lost \subseteq lost'
      BY <1>1 DEF Finish, Settles, ledger, toss, hooks
    <2>2. /\ c \in Charges /\ req[r].pay \in Charges \cup {None}
          /\ charge[c].status # "none"
          /\ req[r].pay # None => charge[c].method = "TOSS" /\ charge[c].status # "CREATED"
          /\ req[r].pay = None => charge[c].method = "POINTS"
      <3>1. CASE Confirming(r)
        <4>1. AttemptOK(r) /\ req[r].pay = None
          BY <2>1, <3>1, DecisionFacts DEF Written
        <4> QED BY <2>1, <4>1, DecisionFacts DEF AttemptOK
      <3>2. CASE Deciding(r)
        <4>1. DecisionOK(r) /\ req[r].pay \in Charges /\ None \notin Charges
          BY <2>1, <3>2, DecisionFacts DEF Written, Charges, None
        <4> QED BY <2>1, <4>1, DecisionFacts DEF DecisionOK
      <3> QED BY <2>1, <3>1, <3>2, DecisionFacts
    <2>3. ~Confirming(r)' /\ ~Deciding(r)' /\ ListOK(r)'
      <3>1. CASE Ends(r)
        BY <1>0, <3>1, EndsMoves, RestWritten
      <3>2. CASE ~Ends(r)
        <4>1. req' = [req EXCEPT ![r] = [IdleRequest EXCEPT !.op = req[r].op, !.at = "capture"]]
          BY <1>1, <3>2 DEF Finish
        <4>2. req'[r].at = "capture" /\ req'[r].legs = {}
          BY <1>0, <4>1 DEF IdleRequest
        <4> QED BY <4>2, RestWritten
      <3> QED BY <3>1, <3>2
    <2>4. CASE ~Allowed(intent, to)
      BY <1>0, <1>1, <2>1, <2>3, <2>4, QuietWritten DEF Finish
    <2>5. CASE Allowed(intent, to)
      <3>1. /\ intent' = to /\ intent \in Unpaid
            /\ charge' = [charge EXCEPT ![c].status = done,
                            ![c].key = IF req[r].ok THEN req[r].pay ELSE @]
            /\ req[r].pay \notin {None, c} => c \in lost'
        BY <1>1, <2>5 DEF Finish, Allowed, Unpaid
      <3>2. /\ \A d \in Charges \ {c} : charge'[d] = charge[d]
            /\ charge'[c].status = done /\ charge'[c].method = charge[c].method
            /\ charge'[c].key = IF req[r].ok THEN req[r].pay ELSE charge[c].key
        BY <1>0, <2>2, <3>1 DEF Charged
      <3>3. Leaves(r)
        BY <1>0, <2>1, <2>2, <2>3, <3>2 DEF Leaves
      <3>4. ASSUME NEW d \in Charges PROVE ChargeOK(d)'
        <4> HIDE DEF c, to, done
        <4>1. ChargeOK(d) /\ intent \in Unpaid
          BY <3>1 DEF Written
        <4>2. UNCHANGED <<made, hold[d], payment[d], receipts>>
          BY <2>1
        <4>3. CASE d # c
          <5>1. charge'[d] = charge[d]
            BY <3>2, <4>3
          <5> QED BY <4>1, <4>2, <5>1 DEF ChargeOK
        <4>4. CASE d = c
          <5>1. done \in {"SUCCEEDED", "FAILED"} /\ (done = "SUCCEEDED" => req[r].ok)
            BY DEF done
          <5>2. charge[d].status # "none" /\ ~(d > made)
            BY <2>2, <4>1, <4>4 DEF ChargeOK, NoCharge
          <5>3. req[r].ok => intent' \notin Unpaid
            BY <3>1 DEF Unpaid, to
          <5>4. /\ charge'[d].status = done /\ charge'[d].method = charge[d].method
                /\ charge'[d].key = IF req[r].ok THEN req[r].pay ELSE charge[d].key
            BY <3>2, <4>4
          <5>5. /\ req[r].pay = None => charge[d].method = "POINTS"
                /\ req[r].pay \notin {None, d} => d \in lost'
                /\ req[r].pay # None => charge[d].method = "TOSS"
            BY <2>2, <3>1, <4>4
          <5>6. charge'[d].status = "SUCCEEDED" /\ charge'[d].method = "TOSS" =>
                  intent' \notin Unpaid /\ (charge'[d].key = d \/ d \in lost')
            BY <5>1, <5>3, <5>4, <5>5
          <5>7. charge'[d].key # None => charge'[d].method = "TOSS"
            BY <4>1, <5>4, <5>5 DEF ChargeOK
          <5>8. payment'[d] # "none" => charge'[d].method = "TOSS"
            BY <4>1, <4>2, <5>4 DEF ChargeOK
          <5>9. hold'[d] # "none" => charge'[d].method = "POINTS"
            BY <4>1, <4>2, <5>4 DEF ChargeOK
          <5>10. /\ ~(d > made') /\ charge'[d].status \in {"SUCCEEDED", "FAILED"}
                 /\ <<d, "done">> \in receipts' => payment'[d] \in {"done", "returned"}
            BY <4>1, <4>2, <5>1, <5>2, <5>4 DEF ChargeOK
          <5> QED BY <5>6, <5>7, <5>8, <5>9, <5>10 DEF ChargeOK
        <4> QED BY <4>3, <4>4
      <3>5. OneActive'
        BY <3>2 DEF Written, OneActive, ActiveCharges, Active
      <3> QED BY <2>3, <3>3, <3>4, <3>5, WrittenStep
    <2> QED BY <2>4, <2>5
  <1>2. CASE Wait(r)
    <2>1. /\ req[r].at = "finish" /\ Goes(r, "waiting")
          /\ UNCHANGED <<intent, charge, made, hold, payment, receipts, lost>>
      BY <1>2 DEF Wait, rows, ledger, toss, hooks, history
    <2>2. req'[r] = [req[r] EXCEPT !.at = "waiting"]
      BY <1>0, <2>1, GoesMoves DEF Places
    <2>3. /\ req'[r].at = "waiting" /\ req'[r].op = req[r].op /\ req'[r].c = req[r].c
          /\ req'[r].pay = req[r].pay /\ req'[r].legs = req[r].legs /\ req'[r].ok = req[r].ok
      BY <1>0, <2>2 DEF Work
    <2>4. /\ Confirming(r)' <=> Confirming(r) /\ Owned(r)' = Owned(r)
          /\ Deciding(r)' <=> Deciding(r)
      BY <2>1, <2>3 DEF Confirming, Deciding, Owned, Composite
    <2>5. Confirming(r) => AttemptOK(r)'
      <3> SUFFICES ASSUME Confirming(r) PROVE AttemptOK(r)'
        OBVIOUS
      <3>1. AttemptOK(r)
        BY DEF Written
      <3> QED BY <2>1, <2>3, <3>1 DEF AttemptOK, Composite, Settles
    <2>6. Deciding(r) => DecisionOK(r)'
      <3> SUFFICES ASSUME Deciding(r) PROVE DecisionOK(r)'
        OBVIOUS
      <3>1. DecisionOK(r)
        BY DEF Written
      <3> QED BY <2>1, <2>3, <3>1 DEF DecisionOK, Settles
    <2>7. ListOK(r)'
      BY <1>0, <2>1, <2>3 DEF ListOK
    <2> QED BY <1>0, <2>1, <2>4, <2>5, <2>6, <2>7, QuietWritten
  <1>3. CASE ListLegs(r)
    <2>1. /\ req[r].at = "capture"
          /\ UNCHANGED <<intent, charge, made, hold, payment, receipts, lost>>
      BY <1>3 DEF ListLegs, rows, ledger, toss, hooks, history
    <2>2. CASE Ends(r)
      BY <1>0, <2>1, <2>2, EndsMoves, RestWritten, QuietWritten
    <2>3. CASE req' = [req EXCEPT ![r].at = "legs", ![r].legs = Succeeded]
      <3>1. req'[r].at = "legs" /\ req'[r].legs = Succeeded
        BY <1>0, <2>3 DEF Work
      <3>2. ~Confirming(r)' /\ ~Deciding(r)' /\ ListOK(r)'
        BY <2>1, <3>1 DEF Confirming, Deciding, ListOK, Succeeded
      <3> QED BY <1>0, <2>1, <3>2, QuietWritten
    <2> QED BY <1>3, <2>2, <2>3 DEF ListLegs
  <1>4. CASE CaptureLeg(r)
    <2> DEFINE c == Min(req[r].legs)
    <2>1. /\ req[r].at = "legs" /\ c \in Charges
          /\ UNCHANGED <<intent, charge, made, payment, receipts, lost>>
          /\ hold' = [hold EXCEPT ![c] = IF @ = "AUTHORIZED" THEN "CAPTURED" ELSE @]
      BY <1>0, <1>4, MinIn DEF CaptureLeg, toss, hooks
    <2>2. req'[r].at = "legs" /\ req'[r].legs \subseteq req[r].legs
      BY <1>0, <1>4 DEF CaptureLeg, Work
    <2>3. \A d \in Charges : hold'[d] = hold[d] \/ hold[d] # "none"
      BY <2>1 DEF Types, RowTypes
    <2>4. ~Confirming(r)' /\ ~Deciding(r)' /\ ListOK(r)'
      BY <1>0, <2>1, <2>2 DEF Confirming, Deciding, ListOK
    <2>5. Leaves(r)
      BY <1>0, <2>1, <2>3, <2>4 DEF Leaves
    <2>6. ASSUME NEW d \in Charges PROVE ChargeOK(d)'
      BY <2>1, <2>3 DEF Written, ChargeOK
    <2>7. OneActive'
      BY <2>1 DEF Written, OneActive, ActiveCharges, Active
    <2> QED BY <2>4, <2>5, <2>6, <2>7, WrittenStep
  <1>5. CASE Capture(r)
    <2>1. /\ req[r].at = "legs" /\ Ends(r)
          /\ UNCHANGED <<charge, made, hold, payment, receipts, lost>>
          /\ intent' \in {intent, "CAPTURED", "PARTIALLY_CAPTURED"}
      BY <1>5 DEF Capture, rows, ledger, toss, hooks, history
    <2>2. intent \notin Unpaid => intent' \notin Unpaid
      BY <2>1 DEF Unpaid
    <2> QED BY <1>0, <2>1, <2>2, EndsMoves, RestWritten, QuietWritten
  <1> QED BY <1>1, <1>2, <1>3, <1>4, <1>5 DEF Completion

LEMMA DecidingWritten ==
  ASSUME Types, Written, NEW r \in Requests, Stage(r) \/ Pay(r) \/ Query(r)
  PROVE  Written'
  <1>0. /\ req' \in [Requests -> Work] /\ \A q \in Requests \ {r} : req'[q] = req[q]
        /\ req \in [Requests -> Work] /\ req[r] \in Work /\ charge \in [Charges -> Charged]
        /\ IdleRequest.at = "idle" /\ IdleRequest.legs = {} /\ req[r].legs \subseteq Charges
        /\ \A c \in Charges : <<c, "done">> \in receipts => payment[c] \in {"done", "returned"}
        /\ RequestOK(r) /\ ListOK(r) /\ payment \in [Charges -> {"none", "ready"} \cup Settled]
    BY RequestMoves DEF Step, Types, RowTypes, IdleRequest, Work, Written, ChargeOK
  <1>1. CASE Stage(r)
    <2> DEFINE c == req[r].c
    <2>1. /\ req[r].at = "stage" /\ Ends(r)
          /\ UNCHANGED <<intent, made, hold, payment, receipts, lost>>
          /\ \/ charge' = charge
             \/ /\ ActiveCharges \subseteq {c}
                /\ charge' = [charge EXCEPT ![c].status = "REQUIRES_ACTION", ![c].staged = req[r].pay]
      BY <1>1 DEF Stage, ledger, toss, hooks
    <2>2. c \in Charges /\ charge[c].method = "TOSS" /\ charge[c].status \notin {"none", "CREATED"}
      <3>1. Deciding(r) /\ c \in Charges
        BY <1>0, <2>1, DecisionFacts DEF RequestOK, OfItsKind, Deciding
      <3> QED BY <2>1, <3>1 DEF Written, DecisionOK
    <2>3. ~Confirming(r)' /\ ~Deciding(r)' /\ ListOK(r)'
      BY <1>0, <2>1, EndsMoves, RestWritten
    <2>4. \A d \in Charges : /\ charge'[d].method = charge[d].method /\ charge'[d].key = charge[d].key
                             /\ d # c => charge'[d] = charge[d]
                             /\ charge'[d].status = charge[d].status \/
                                (d = c /\ charge'[d].status = "REQUIRES_ACTION")
      BY <1>0, <2>1, <2>2 DEF Charged
    <2>5. Leaves(r)
      BY <1>0, <2>1, <2>2, <2>3, <2>4 DEF Leaves
    <2>6. ASSUME NEW d \in Charges PROVE ChargeOK(d)'
      <3>1. d > made => charge'[d] = NoCharge
        <4>0. ChargeOK(d) /\ NoCharge.status = "none"
          BY DEF Written, NoCharge
        <4>1. d > made => charge[d].status = "none" /\ charge[d] = NoCharge
          BY <4>0 DEF ChargeOK
        <4> QED BY <2>2, <2>4, <4>1
      <3> QED BY <2>1, <2>2, <2>4, <3>1 DEF Written, ChargeOK
    <2>7. OneActive'
      <3>1. CASE charge' = charge
        BY <3>1 DEF Written, OneActive, ActiveCharges, Active
      <3>2. CASE ActiveCharges \subseteq {c}
        BY <2>4, <3>2 DEF OneActive, ActiveCharges, Active
      <3> QED BY <2>1, <3>1, <3>2
    <2> QED BY <2>3, <2>5, <2>6, <2>7, WrittenStep
  <1>2. CASE Pay(r)
    <2> DEFINE o == req[r].pay
    <2>1. /\ req[r].at = "pay" /\ lost \subseteq lost'
          /\ UNCHANGED <<intent, made, charge, hold, receipts>>
          /\ payment[o] = "done" => o \in lost'
      BY <1>2 DEF Pay, rows, ledger, hooks
    <2>2. /\ Deciding(r) /\ DecisionOK(r) /\ o \in Charges /\ req[r].c \in Charges
          /\ payment[o] # "none" /\ req[r].op = "approve"
      BY <1>0, <2>1, DecisionFacts DEF RequestOK, OfItsKind, Deciding, Written
    <2>3. PICK ok \in BOOLEAN : /\ req' = [req EXCEPT ![r].at = "finish", ![r].ok = ok]
                                /\ \/ payment' = payment /\ payment[o] # "ready"
                                   \/ payment[o] = "ready" /\ payment' = [payment EXCEPT ![o] = "done"] /\ ok
                                   \/ payment[o] = "ready" /\ payment' = [payment EXCEPT ![o] = "aborted"]
      BY <1>2 DEF Pay, toss
    <2>4. /\ req'[r].at = "finish" /\ req'[r].op = "approve" /\ req'[r].c = req[r].c
          /\ req'[r].pay = o /\ req'[r].legs = req[r].legs /\ req'[r].ok = ok
      <3>1. req'[r] = [req[r] EXCEPT !.at = "finish", !.ok = ok]
        BY <1>0, <2>3, SettlesMoves
      <3> QED BY <1>0, <2>2, <3>1 DEF Work
    <2>5. \A d \in Charges : payment'[d] = payment[d] \/ (d = o /\ payment[o] = "ready")
      BY <1>0, <2>3
    <2>6. Leaves(r)
      <3>1. ~Confirming(r)'
        BY <2>4 DEF Confirming
      <3> QED BY <1>0, <2>1, <2>5, <3>1 DEF Leaves
    <2>7. ASSUME NEW d \in Charges PROVE ChargeOK(d)'
      BY <2>1, <2>5 DEF Written, ChargeOK
    <2>8. OneActive'
      BY <2>1 DEF Written, OneActive, ActiveCharges, Active
    <2>9. ok \/ payment'[o] \in {"aborted", "expired", "returned"} \/ o \in lost'
      <3>1. payment[o] \in {"ready", "done", "aborted", "expired", "returned"}
        BY <1>0, <2>2 DEF Settled
      <3> QED BY <1>0, <2>1, <2>2, <2>3, <3>1
    <2>10. DecisionOK(r)' /\ ListOK(r)' /\ ~Confirming(r)'
      BY <1>0, <2>1, <2>2, <2>4, <2>9 DEF DecisionOK, ListOK, Settles, Confirming
    <2> QED BY <2>6, <2>7, <2>8, <2>10, WrittenStep
  <1>3. CASE Query(r)
    <2> DEFINE o == req[r].pay
    <2>1. /\ req[r].at = "query" /\ UNCHANGED <<intent, made, charge, hold, payment, lost>>
          /\ receipts' = receipts \cup {<<o, payment[o]>>}
      BY <1>3 DEF Query, rows, ledger, history
    <2>2. /\ o \in Charges /\ req[r].c = o /\ req[r].op = "webhook" /\ payment[o] \in Settled
      BY <1>0, <2>1, DecisionFacts DEF RequestOK, OfItsKind, Deciding
    <2>3. charge[o].method = "TOSS" /\ charge[o].status \notin {"none", "CREATED"}
      BY <2>2 DEF Written, ChargeOK, Settled
    <2>4. \A c \in Charges : <<c, "done">> \in receipts' => payment[c] \in {"done", "returned"}
      BY <1>0, <2>1
    <2>5. CASE Ends(r)
      BY <1>0, <2>1, <2>4, <2>5, EndsMoves, RestWritten, QuietWritten
    <2>6. CASE ~Ends(r)
      <3>1. req' = [req EXCEPT ![r].at = "finish", ![r].ok = (payment[o] = "done")]
        BY <1>3, <2>6 DEF Query
      <3>2. req'[r] = [req[r] EXCEPT !.at = "finish", !.ok = (payment[o] = "done")]
        BY <1>0, <3>1, SettlesMoves
      <3>3. /\ req'[r].at = "finish" /\ req'[r].op = "webhook" /\ req'[r].c = o
            /\ req'[r].pay = o /\ req'[r].legs = req[r].legs
            /\ req'[r].ok <=> payment[o] = "done"
        BY <1>0, <2>2, <3>2 DEF Work
      <3>4. DecisionOK(r)' /\ ListOK(r)' /\ ~Confirming(r)'
        BY <1>0, <2>1, <2>2, <2>3, <3>3 DEF DecisionOK, ListOK, Settles, Confirming, Settled
      <3> QED BY <1>0, <2>1, <2>4, <3>4, QuietWritten
    <2> QED BY <2>5, <2>6
  <1> QED BY <1>1, <1>2, <1>3

LEMMA ReleaseWritten ==
  ASSUME Types, Written, NEW r \in Requests, Release(r)
  PROVE  Written'
  <1>0. /\ req' \in [Requests -> Work] /\ \A q \in Requests \ {r} : req'[q] = req[q]
        /\ req \in [Requests -> Work] /\ req[r] \in Work /\ charge \in [Charges -> Charged]
        /\ IdleRequest.at = "idle" /\ IdleRequest.legs = {} /\ req[r].legs \subseteq Charges
        /\ \A c \in Charges : <<c, "done">> \in receipts => payment[c] \in {"done", "returned"}
        /\ RequestOK(r) /\ ListOK(r) /\ payment \in [Charges -> {"none", "ready"} \cup Settled]
    BY RequestMoves DEF Step, Types, RowTypes, IdleRequest, Work, Written, ChargeOK
  <1>1. CASE FindActive(r)
    <2>1. /\ req[r].at = "release"
          /\ UNCHANGED <<intent, charge, made, hold, payment, receipts, lost>>
      BY <1>1 DEF FindActive, rows, ledger, toss, hooks, history
    <2>2. /\ req'[r].at \in {"drop", "list"} /\ req'[r].legs = req[r].legs
          /\ req'[r].at = "drop" => req'[r].c \in ActiveCharges
      <3>1. CASE Goes(r, "list")
        BY <1>0, <3>1, GoesMoves DEF Work, Places
      <3>2. CASE \E c \in ActiveCharges : req' = [req EXCEPT ![r].at = "drop", ![r].c = c]
        BY <1>0, <3>2 DEF Work
      <3> QED BY <1>1, <3>1, <3>2 DEF FindActive
    <2>3. ~Confirming(r)' /\ ~Deciding(r)' /\ ListOK(r)'
      BY <1>0, <2>1, <2>2 DEF Confirming, Deciding, ListOK, ActiveCharges, Active
    <2> QED BY <1>0, <2>1, <2>3, QuietWritten
  <1>2. CASE DropActive(r)
    <2> DEFINE c == req[r].c
    <2>1. /\ req[r].at = "drop" /\ UNCHANGED <<intent, made, hold, payment, receipts, lost>>
          /\ charge' = Status({c}, "CANCELED")
      BY <1>2 DEF DropActive, ledger, toss, hooks
    <2>2. c \in Charges /\ charge[c].status # "none"
      BY <1>0, <2>1 DEF RequestOK, ListOK
    <2>3. req'[r].at = "list" /\ req'[r].legs = req[r].legs
      BY <1>0, <1>2 DEF DropActive, Work
    <2>4. \A d \in Charges : charge'[d].status = IF d = c THEN "CANCELED" ELSE charge[d].status
      BY <1>0, <2>1 DEF Status, Charged
    <2>5. ~Confirming(r)' /\ ~Deciding(r)' /\ ListOK(r)'
      BY <1>0, <2>3, <2>4 DEF Confirming, Deciding, ListOK
    <2>6. Leaves(r)
      BY <1>0, <2>1, <2>2, <2>5, StatusLeaves
    <2>7. ASSUME NEW d \in Charges PROVE ChargeOK(d)' /\ OneActive'
      BY <2>1, <2>2, StatusWritten
    <2> QED BY <2>2, <2>5, <2>6, <2>7, WrittenStep
  <1>3. CASE ListSucceeded(r)
    <2>1. /\ req[r].at = "list"
          /\ UNCHANGED <<intent, charge, made, hold, payment, receipts, lost>>
      BY <1>3 DEF ListSucceeded, rows, ledger, toss, hooks, history
    <2>2. req'[r].at = "undo" /\ req'[r].legs = Succeeded
      BY <1>0, <1>3 DEF ListSucceeded, Work
    <2>3. ~Confirming(r)' /\ ~Deciding(r)' /\ ListOK(r)'
      BY <2>1, <2>2 DEF Confirming, Deciding, ListOK, Succeeded
    <2> QED BY <1>0, <2>1, <2>3, QuietWritten
  <1>4. CASE UndoLeg(r)
    <2> DEFINE c == Min(req[r].legs)
               k == charge[c].key
    <2>1. /\ req[r].at = "undo" /\ c \in req[r].legs /\ c \in Charges /\ k \in Charges \cup {None}
          /\ UNCHANGED <<intent, made, receipts, lost>>
      BY <1>0, <1>4, MinIn DEF UndoLeg, Charged, hooks
    <2>2. charge[c].status \notin {"none", "CREATED"}
      BY <1>0, <2>1 DEF ListOK
    <2>3. CASE Ends(r) /\ UNCHANGED <<charge, hold, toss>>
      BY <1>0, <2>1, <2>3, EndsMoves, RestWritten, QuietWritten DEF toss
    <2>4. CASE /\ \/ /\ charge[c].method = "POINTS" /\ Unheld({c}) /\ UNCHANGED toss
                  \/ /\ k # None /\ payment[k] = "done"
                     /\ payment' = [payment EXCEPT ![k] = "returned"] /\ UNCHANGED hold
               /\ charge' = Status({c}, "CANCELED")
               /\ req' = [req EXCEPT ![r].legs = @ \ {c}, ![r].got = @ \cup {c}]
      <3>1. \A d \in Charges : \/ payment'[d] = payment[d]
                               \/ payment[d] = "done" /\ payment'[d] = "returned"
        BY <1>0, <2>1, <2>4 DEF toss
      <3>2. \A d \in Charges : \/ hold'[d] = hold[d]
                               \/ d = c /\ charge[c].method = "POINTS" /\ hold[d] # "none"
        BY <2>4 DEF Unheld
      <3>3. req'[r].at = "undo" /\ req'[r].legs \subseteq req[r].legs
        BY <1>0, <2>1, <2>4 DEF Work
      <3>4. \A d \in Charges : charge'[d].status = IF d = c THEN "CANCELED" ELSE charge[d].status
        BY <1>0, <2>4 DEF Status, Charged
      <3>5. ~Confirming(r)' /\ ~Deciding(r)' /\ ListOK(r)'
        BY <1>0, <3>3, <3>4 DEF Confirming, Deciding, ListOK
      <3>6. Leaves(r)
        BY <1>0, <2>1, <2>2, <2>4, <3>1, <3>2, <3>5, StatusLeaves
      <3>7. ASSUME NEW d \in Charges PROVE ChargeOK(d)' /\ OneActive'
        <4>1. hold'[d] = hold[d] \/ (charge[d].method = "POINTS" /\ charge[d].status # "none")
          BY <2>2, <3>2
        <4>2. payment'[d] = payment[d] \/ (payment[d] # "none" /\ payment'[d] = "returned")
          BY <3>1
        <4> QED BY <2>1, <2>2, <2>4, <4>1, <4>2, StatusWritten
      <3> QED BY <2>1, <3>5, <3>6, <3>7, WrittenStep
    <2> QED BY <1>4, <2>3, <2>4 DEF UndoLeg
  <1>5. CASE CloseIntent(r)
    <2>1. /\ Ends(r) /\ UNCHANGED <<charge, made, hold, payment, receipts, lost>>
          /\ intent' \in {intent, "CANCELED"} \/ (intent \in Unpaid /\ intent' = "CREATED")
      BY <1>5 DEF CloseIntent, Allowed, Unpaid, rows, ledger, toss, hooks
    <2>2. intent \notin Unpaid => intent' \notin Unpaid
      BY <2>1 DEF Unpaid
    <2> QED BY <1>0, <2>1, <2>2, EndsMoves, RestWritten, QuietWritten
  <1> QED BY <1>1, <1>2, <1>3, <1>4, <1>5 DEF Release

LEMMA DiesWritten ==
  ASSUME Types, Written, NEW r \in Requests, Dies(r)
  PROVE  Written'
  <1>1. /\ \A q \in Requests \ {r} : req'[q] = req[q]
        /\ req \in [Requests -> Work]
        /\ IdleRequest.at = "idle" /\ IdleRequest.legs = {}
        /\ \A c \in Charges : <<c, "done">> \in receipts => payment[c] \in {"done", "returned"}
    BY RequestMoves DEF Types, IdleRequest, Written, ChargeOK
  <1>2. /\ Ends(r) /\ lost \subseteq lost'
        /\ UNCHANGED <<intent, charge, made, hold, payment, receipts>>
    BY DEF Dies, rows, ledger, toss, hooks
  <1> QED BY <1>1, <1>2, EndsMoves, RestWritten, QuietWritten

LEMMA ExpiryWritten ==
  ASSUME Types, Written, NEW o \in Charges, WindowExpires(o)
  PROVE  Written'
  <1>1. /\ payment[o] = "ready" /\ payment' = [payment EXCEPT ![o] = "expired"]
        /\ UNCHANGED <<intent, charge, made, hold, receipts, req, lost>>
    BY DEF WindowExpires, rows, ledger, hooks, history
  <1>2. \A d \in Charges : \/ payment'[d] = payment[d]
                           \/ payment[d] = "ready" /\ payment'[d] = "expired"
    BY <1>1 DEF Types, RowTypes
  <1>3. ASSUME NEW d \in Charges PROVE ChargeOK(d)'
    BY <1>1, <1>2 DEF Written, ChargeOK
  <1>4. OneActive'
    BY <1>1 DEF Written, OneActive, ActiveCharges, Active
  <1>5. ASSUME NEW r \in Requests, Confirming(r)' PROVE Apart(r)' /\ AttemptOK(r)'
    <2>1. /\ \A q \in Requests : (Confirming(q)' <=> Confirming(q)) /\ Owned(q)' = Owned(q)
          /\ (Composite(r)' <=> Composite(r)) /\ (Settles(r)' <=> Settles(r))
      BY <1>1 DEF Confirming, Owned, Composite, Settles
    <2>2. Apart(r) /\ AttemptOK(r) /\ req[r].c \in Charges
      BY <1>5, <2>1 DEF Written, Types, RequestOK
    <2> QED BY <1>1, <1>2, <2>1, <2>2 DEF Apart, AttemptOK
  <1>6. ASSUME NEW r \in Requests, Deciding(r)' PROVE DecisionOK(r)'
    <2>1. DecisionOK(r) /\ req[r].pay \in Charges
      BY <1>1, <1>6 DEF Written, Types, RequestOK, Deciding
    <2> QED BY <1>1, <1>2, <2>1 DEF DecisionOK, Settles
  <1>7. \A r \in Requests : ListOK(r)'
    BY <1>1 DEF Written, ListOK
  <1> QED BY <1>3, <1>4, <1>5, <1>6, <1>7 DEF Written

LEMMA InitWritten == Init => Written
  BY DEF Init, Written, ChargeOK, NoCharge, OneActive, ActiveCharges, Active, Confirming,
         Deciding, ListOK, IdleRequest

LEMMA NextWritten ==
  ASSUME Types, Written, Next PROVE Written'
  BY StartsWritten, ConfirmationWritten, CompletionWritten, DecidingWritten, ReleaseWritten,
     DiesWritten, ExpiryWritten DEF Next, Step

-----------------------------------------------------------------------------
(* What is settled does not come back *)

\* An intent that has been authorized or cancelled is not unpaid again, points are
\* redeemed by a capture only, and what has been raced stays raced.
LEMMA StepKeeps ==
  ASSUME Types, NEW r \in Requests, Start(r) \/ Step(r) \/ Dies(r)
  PROVE  /\ intent \notin Unpaid => intent' \notin Unpaid
         /\ raced => raced' /\ dead \subseteq dead' /\ lost \subseteq lost'
         /\ \A c \in Charges : hold'[c] = "CAPTURED" => hold[c] = "CAPTURED" \/ req[r].at = "legs"
  <1> DEFINE Goal == /\ intent \notin Unpaid => intent' \notin Unpaid
                     /\ raced => raced' /\ dead \subseteq dead' /\ lost \subseteq lost'
                     /\ \A c \in Charges : hold'[c] = "CAPTURED" => hold[c] = "CAPTURED" \/ req[r].at = "legs"
  <1>1. /\ \A cs : Releases(r, cs) => (raced => raced')
        /\ \A cs : Writes(r, cs) => (raced => raced')
    BY DEF Releases, Writes
  <1>2. \A cs, c : c \in Charges /\ Unheld(cs) /\ hold'[c] = "CAPTURED" => hold[c] = "CAPTURED"
    BY DEF Unheld
  <1>3. hold \in [Charges -> {"none", "AUTHORIZED", "CAPTURED", "CANCELLED"}]
    BY DEF Types, RowTypes
  <1>4. CASE \E plan \in Plans : Confirm(r, plan)
    BY <1>1, <1>2, <1>4 DEF Confirm, Unpaid
  <1>5. CASE ConfirmAgain(r)
    BY <1>2, <1>5 DEF ConfirmAgain
  <1>6. CASE \/ CaptureStarts(r) \/ FinalizeDeferred(r) \/ Abandon(r) \/ Cancel(r)
             \/ \E o \in Charges : Approve(r, o) \/ NoticeComes(r, o)
    <2>1. UNCHANGED <<intent, hold, raced, dead, lost>>
      BY <1>6 DEF CaptureStarts, FinalizeDeferred, Abandon, Cancel, Approve, NoticeComes,
                  ledger, history
    <2> QED BY <2>1
  <1>7. CASE HoldPoints(r)
    <2>1. \A c \in Charges : hold'[c] = "CAPTURED" => hold[c] = "CAPTURED"
      BY <1>2, <1>7 DEF HoldPoints
    <2> QED BY <1>1, <1>7, <2>1 DEF HoldPoints
  <1>8. CASE MarkHeld(r) \/ MakePrimary(r) \/ TossPrimary(r)
    BY <1>1, <1>8 DEF MarkHeld, MakePrimary, TossPrimary, ledger
  <1>9. CASE PointsPrimary(r) \/ AskCustomer(r)
    BY <1>3, <1>9 DEF PointsPrimary, AskCustomer, Allowed, Unpaid, ledger, history
  <1>10. CASE Refused(r)
    BY <1>1, <1>10 DEF Refused, Allowed, Unpaid, ledger
  <1>11. CASE Finish(r)
    BY <1>1, <1>11 DEF Finish, Allowed, Unpaid, ledger
  <1>12. CASE Wait(r) \/ ListLegs(r)
    BY <1>12 DEF Wait, ListLegs, ledger, history
  <1>13. CASE CaptureLeg(r)
    BY <1>1, <1>13 DEF CaptureLeg
  <1>14. CASE Capture(r)
    BY <1>14 DEF Capture, Unpaid, ledger, history
  <1>15. CASE Stage(r) \/ Pay(r) \/ Query(r)
    <2>1. UNCHANGED <<intent, hold, dead>> /\ lost \subseteq lost' /\ (raced => raced')
      <3>1. CASE Stage(r)
        BY <3>1 DEF Stage, ledger
      <3>2. CASE Pay(r)
        BY <3>2 DEF Pay, ledger
      <3>3. CASE Query(r)
        BY <3>3 DEF Query, ledger, history
      <3> QED BY <1>15, <3>1, <3>2, <3>3
    <2> QED BY <2>1
  <1>16. CASE FindActive(r) \/ DropActive(r) \/ ListSucceeded(r)
    BY <1>1, <1>16 DEF FindActive, DropActive, ListSucceeded, ledger, history
  <1>17. CASE UndoLeg(r)
    BY <1>1, <1>2, <1>17 DEF UndoLeg
  <1>18. CASE CloseIntent(r)
    BY <1>18 DEF CloseIntent, Allowed, Unpaid, ledger
  <1>19. CASE Dies(r)
    BY <1>19 DEF Dies, ledger
  <1> QED BY <1>4, <1>5, <1>6, <1>7, <1>8, <1>9, <1>10, <1>11, <1>12, <1>13, <1>14, <1>15,
             <1>16, <1>17, <1>18, <1>19 DEF Start, Step, Confirmation, Completion, Release

LEMMA NextKeeps ==
  ASSUME Types, Redeemed, Next
  PROVE  Redeemed' /\ (raced => raced')
  <1>1. ASSUME NEW r \in Requests, Start(r) \/ Step(r) \/ Dies(r)
        PROVE  Redeemed' /\ (raced => raced')
    <2>1. req[r].at = "legs" => intent \notin Unpaid
      BY <1>1 DEF Types, RequestOK
    <2> QED BY <1>1, <2>1, StepKeeps DEF Redeemed
  <1>2. ASSUME NEW o \in Charges, WindowExpires(o)
        PROVE  Redeemed' /\ (raced => raced')
    BY <1>2 DEF WindowExpires, Redeemed, ledger, history
  <1> QED BY <1>1, <1>2 DEF Next

-----------------------------------------------------------------------------
(* What a step leaves to the others when nothing is raced *)

\* A charge stays, is released when no other request has it in hand, is moved by the
\* attempt that made it, or is paid when no other request is about to release it.
Moved(r, c) ==
  \/ charge'[c].status = charge[c].status
  \/ /\ charge'[c].status \in {"CANCELED", "FAILED"}
     /\ \A q \in Requests \ {r} : ~InHand(q, c)
  \/ /\ charge[c].status \in {"none", "CREATED"} /\ (Confirming(r) \/ Confirming(r)')
     /\ \A q \in Requests \ {r} : ~Releasing(q, c)
  \/ /\ charge[c].status = "REQUIRES_ACTION" /\ charge'[c].status = "SUCCEEDED"
     /\ \A q \in Requests \ {r} : ~Releasing(q, c)

Gently(r) ==
  /\ \A q \in Requests \ {r} : req'[q] = req[q]
  /\ lost \subseteq lost'
  /\ \A c \in Charges : Moved(r, c)
  /\ \A c \in Charges : payment[c] \in Settled /\ payment'[c] = "done" => payment[c] = "done"
  /\ \A q \in Requests \ {r} :
       Confirming(q) => intent' = intent \/ (req[q].at = "acting" /\ intent' \notin Unpaid)
  /\ Confirming(r)' /\ ~Confirming(r) =>
       \A q \in Requests \ {r} : ~Confirming(q) /\ req[q].at \notin {"list", "undo"}
  /\ Confirming(r)' /\ Confirming(r) =>
       /\ Stakes(r) \subseteq Stakes(r)'
       /\ \A c \in Stakes(r) : charge[c].status = "SUCCEEDED" => charge'[c].status = "SUCCEEDED"

LEMMA OthersStand ==
  ASSUME Types, Written, Calm, NEW r \in Requests, Gently(r), NEW q \in Requests \ {r}
  PROVE  Stands(q)'
  <1> DEFINE Same(p) == /\ req'[p] = req[p] /\ (Confirming(p)' <=> Confirming(p))
                        /\ (Deciding(p)' <=> Deciding(p)) /\ Stakes(p)' = Stakes(p)
  <1>1. \A p \in Requests \ {r} : Same(p)
    BY DEF Gently, Confirming, Deciding, Stakes
  <1>2. /\ Stands(q) /\ RequestOK(q) /\ req[q] \in Work
        /\ \A c \in Charges : Moved(r, c)
    BY DEF Calm, Types, Gently
  <1>3. req[q].at # "idle" => \A c \in Stakes(q) : InHand(q, c)
    BY DEF InHand, Stakes
  <1>4. \A c \in Charges : Releasing(q, c) => InHand(q, c)
    BY DEF Releasing, InHand
  <1>5. \A c \in Charges : Releasing(q, c) => charge'[c].status = charge[c].status
    BY <1>2, <1>4 DEF Moved
  \* The attempts that are under way afterwards were before, if q is to see them.
  <1>6. ASSUME Confirming(q) \/ req[q].at \in {"list", "undo"}, NEW p \in Requests, Confirming(p)'
        PROVE  Confirming(p)
    BY <1>1, <1>6 DEF Gently
  <1>7. ASSUME Confirming(q) PROVE AttemptStands(q)'
    <2>1. /\ AttemptStands(q) /\ req[q].at # "idle" /\ req[q].c \in Charges
          /\ req[q].legs \subseteq Charges /\ Same(q)
      BY <1>1, <1>2, <1>7 DEF Stands, RequestOK, Confirming, Work
    <2>2. \A p \in Requests : Confirming(p)' => p = q
      BY <1>6, <1>7, <2>1 DEF AttemptStands
    <2>3. ~Confirming(r) /\ ~Confirming(r)'
      BY <1>7, <2>1, <2>2 DEF AttemptStands
    <2>4. ASSUME NEW c \in Charges
          PROVE  \/ charge'[c].status = charge[c].status
                 \/ charge[c].status = "REQUIRES_ACTION" /\ charge'[c].status = "SUCCEEDED"
                 \/ ~InHand(q, c) /\ charge'[c].status \in {"CANCELED", "FAILED"}
      BY <1>2, <2>3 DEF Moved
    <2>5. \A c \in Stakes(q) : /\ charge[c].status = "CREATED" => charge'[c].status = "CREATED"
                               /\ charge[c].status = "SUCCEEDED" => charge'[c].status = "SUCCEEDED"
                               /\ charge[c].status = "REQUIRES_ACTION" =>
                                    charge'[c].status \in {"REQUIRES_ACTION", "SUCCEEDED"}
      <3>1. Stakes(q) \subseteq Charges
        BY <2>1 DEF Stakes
      <3> QED BY <1>3, <2>1, <2>4, <3>1
    <2>6. intent' = intent \/ (req[q].at = "acting" /\ intent' \notin Unpaid)
      BY <1>7 DEF Gently
    <2>7. req[q].legs \subseteq Succeeded => (req[q].legs \subseteq Succeeded)'
      <3>1. (req[q].legs)' = req[q].legs /\ req[q].legs \subseteq Stakes(q)
        BY <2>1 DEF Stakes
      <3> QED BY <2>5, <3>1 DEF Succeeded
    <2>8. ActiveCharges = {} => (ActiveCharges = {})'
      <3>1. ASSUME ActiveCharges = {}, NEW c \in Charges PROVE ~Active(c)'
        BY <2>4, <3>1 DEF ActiveCharges, Active
      <3> QED BY <3>1 DEF ActiveCharges
    <2>9. /\ (req[q].at)' = req[q].at /\ (req[q].c)' = req[q].c /\ req[q].c \in Stakes(q)
      BY <2>1 DEF Stakes
    <2>10. CASE req[q].at = "acting"
      BY <2>1, <2>2, <2>5, <2>6, <2>7, <2>9, <2>10 DEF AttemptStands, Unpaid
    <2>11. CASE req[q].at # "acting"
      BY <2>1, <2>2, <2>5, <2>6, <2>7, <2>8, <2>9, <2>11 DEF AttemptStands
    <2> QED BY <2>10, <2>11
  <1>8. ASSUME Deciding(q) PROVE DecisionStands(q)'
    <2>1. /\ DecisionStands(q) /\ req[q].at # "idle" /\ req[q].c \in Charges
          /\ Same(q) /\ InHand(q, req[q].c)
          /\ req[q].at = "query" => req[q].pay = req[q].c /\ payment[req[q].c] \in Settled
      BY <1>1, <1>2, <1>8 DEF Stands, RequestOK, Deciding, OfItsKind, InHand
    <2>2. LET s == charge[req[q].c].status
              t == charge'[req[q].c].status
          IN  s \notin {"none", "CREATED"} =>
                s = t \/ (s = "REQUIRES_ACTION" /\ t = "SUCCEEDED")
      BY <1>2, <2>1 DEF Moved
    <2>3. req[q].at = "query" /\ payment'[req[q].c] = "done" => payment[req[q].c] = "done"
      BY <2>1 DEF Gently
    <2>4. lost \subseteq lost' /\ req'[q] = req[q]
      BY <2>1 DEF Gently
    <2> QED BY <2>1, <2>2, <2>3, <2>4 DEF DecisionStands
  <1>9. ASSUME req[q].op \in Releasers PROVE ReleaseStands(q)'
    <2>1. /\ ReleaseStands(q) /\ Same(q) /\ req[q].legs \subseteq Charges
          /\ req[q].at # "idle" /\ (req[q].at = "drop" => req[q].c \in Charges)
      BY <1>1, <1>2, <1>9 DEF Stands, RequestOK, OfItsKind, Work, Releasers
    <2>2. req[q].at = "drop" => (Active(req[q].c))'
      <3>1. req[q].at = "drop" => Releasing(q, req[q].c)
        BY DEF Releasing
      <3> QED BY <1>5, <2>1, <3>1 DEF ReleaseStands, Active
    <2>3. ASSUME req[q].at \in {"list", "undo"}, NEW p \in Requests, Confirming(p)'
          PROVE  /\ Confirming(p) /\ Stakes(p) \subseteq Stakes(p)'
                 /\ Stakes(p) \subseteq Charges
                 /\ \A c \in Stakes(p) : charge[c].status = "SUCCEEDED" => charge'[c].status = "SUCCEEDED"
      <3>1. Confirming(p) /\ Stakes(p) \subseteq Charges
        BY <1>6, <2>3 DEF Types, RequestOK, Stakes, Work
      <3>2. CASE p = r
        BY <2>3, <3>1, <3>2 DEF Gently
      <3>3. CASE p # r
        <4>1. \A c \in Stakes(p) : InHand(p, c)
          BY <3>1 DEF InHand, Stakes, Confirming
        <4>2. \A c \in Stakes(p) : charge[c].status = "SUCCEEDED" => charge'[c].status = "SUCCEEDED"
          BY <1>2, <3>1, <3>3, <4>1 DEF Moved
        <4> QED BY <1>1, <3>1, <3>3, <4>2
      <3> QED BY <3>2, <3>3
    <2>4. req[q].at = "list" => \A p \in Requests : Confirming(p)' => (Stakes(p) \cap Succeeded # {})'
      BY <2>1, <2>3 DEF ReleaseStands, Succeeded
    <2>5. req[q].at = "undo" => \A p \in Requests : Confirming(p)' => (Stakes(p) \cap req[q].legs # {})'
      BY <2>1, <2>3 DEF ReleaseStands
    <2>6. req[q].op = "cancel" => (ActiveCharges = ActiveCharges' /\ Succeeded = Succeeded')
      <3>1. req[q].op = "cancel" => \A c \in Charges : Releasing(q, c)
        BY <2>1 DEF Releasing
      <3> QED BY <1>5, <3>1 DEF ActiveCharges, Active, Succeeded
    <2> QED BY <2>1, <2>2, <2>4, <2>5, <2>6 DEF ReleaseStands
  <1> QED BY <1>1, <1>7, <1>8, <1>9 DEF Stands

\* Whose step makes the points of a charge be held for it still.
Vouches(r, c) ==
  Confirming(r) /\ req[r].c = c /\ (req[r].at = "held" \/ (Settles(r) /\ req[r].ok))
\* Whose webhook carries the payment of an order.
Carries(r, o) == req[r].op = "webhook" /\ Settles(r) /\ req[r].ok /\ req[r].pay = o

LEMMA BackedStep ==
  ASSUME Types, Calm, NEW r \in Requests, Gently(r),
         \A q \in Requests \ {r} : Stands(q)', NEW c \in Charges \ dead,
         hold'[c] \in {"AUTHORIZED", "CAPTURED"} =>
           /\ hold[c] \in {"AUTHORIZED", "CAPTURED"}
           /\ hold'[c] = hold[c] \/ charge[c].status = "SUCCEEDED"
           /\ charge[c].status = "SUCCEEDED" => charge'[c].status = "SUCCEEDED",
         Vouches(r, c) => \/ charge'[c].status = "SUCCEEDED"
                          \/ charge'[c].status = "CREATED" /\ Vouches(r, c)'
  PROVE  Backed(c)'
  <1> SUFFICES ASSUME hold'[c] \in {"AUTHORIZED", "CAPTURED"}, charge'[c].status # "SUCCEEDED"
               PROVE  /\ charge'[c].status = "CREATED" /\ hold'[c] = "AUTHORIZED"
                      /\ \E q \in Requests : Vouches(q, c)'
    BY DEF Backed, Vouches
  <1>1. /\ hold[c] = "AUTHORIZED" /\ hold'[c] = "AUTHORIZED"
        /\ charge[c].status = "CREATED" /\ \E q \in Requests : Vouches(q, c)
    BY DEF Calm, Backed, Vouches
  <1>2. PICK q \in Requests : Vouches(q, c)
    BY <1>1
  <1>3. CASE q = r
    BY <1>1, <1>2, <1>3
  <1>4. CASE q # r
    <2>1. req'[q] = req[q] /\ Vouches(q, c)' /\ Confirming(q)'
      BY <1>2, <1>4 DEF Gently, Vouches, Confirming, Settles
    <2>2. AttemptStands(q)' /\ req'[q].at \notin {"acting", "split"} /\ req'[q].c = c
      BY <1>2, <1>4, <2>1 DEF Stands, Vouches, Settles
    <2> QED BY <1>1, <2>1, <2>2 DEF AttemptStands
  <1> QED BY <1>3, <1>4

LEMMA KnownStep ==
  ASSUME Calm, NEW r \in Requests, \A q \in Requests \ {r} : req'[q] = req[q],
         NEW o \in Charges \ lost, flagged \subseteq flagged',
         payment'[o] = "done" =>
           /\ payment[o] = "done"
           /\ \A c \in Charges : charge[c].status = "SUCCEEDED" /\ charge[c].key = o =>
                charge'[c].status = "SUCCEEDED" /\ charge'[c].key = o
           /\ o \in notices /\ <<o, "done">> \notin receipts =>
                (o \in notices' /\ <<o, "done">> \notin receipts') \/ Known(o)'
           /\ Carries(r, o) => Known(o)'
  PROVE  Known(o)'
  <1> SUFFICES ASSUME payment'[o] = "done" PROVE Known(o)'
    BY DEF Known
  <1>1. Known(o) /\ payment[o] = "done"
    BY DEF Calm
  <1>2. CASE \E c \in Succeeded : charge[c].key = o
    BY <1>2 DEF Known, Succeeded
  <1>3. CASE o \in flagged
    BY <1>3 DEF Known
  <1>4. CASE o \in notices /\ <<o, "done">> \notin receipts
    BY <1>4 DEF Known
  <1>5. CASE \E q \in Requests : Carries(q, o)
    <2>1. PICK q \in Requests : Carries(q, o)
      BY <1>5
    <2>2. CASE q = r
      BY <2>1, <2>2
    <2>3. CASE q # r
      <3>1. Carries(q, o)'
        BY <2>1, <2>3 DEF Carries, Settles
      <3> QED BY <3>1 DEF Known, Carries
    <2> QED BY <2>2, <2>3
  <1> QED BY <1>1, <1>2, <1>3, <1>4, <1>5 DEF Known, Carries

LEMMA CalmStep ==
  ASSUME Types, Written, Calm, NEW r \in Requests, Gently(r), dead \subseteq dead', Stands(r)',
         (\A q \in Requests \ {r} : Stands(q)') => \A c \in Charges \ dead' : Backed(c)',
         \A o \in Charges \ lost' : Known(o)' /\ Failed(o)',
         (intent = "CANCELED" => ActiveCharges = {} /\ Succeeded = {})'
  PROVE  Calm'
  <1>1. \A q \in Requests \ {r} : Stands(q)'
    BY OthersStand
  <1> QED BY <1>1 DEF Calm

\* No charge changes its status; what the request vouched for it still does.
LEMMA QuietCalm ==
  ASSUME Types, Written, Calm, NEW r \in Requests,
         UNCHANGED <<payment, notices, receipts, flagged>>,
         \A c \in Charges : charge'[c].status = charge[c].status /\ charge'[c].key = charge[c].key,
         \A c \in Charges \ dead : hold'[c] = hold[c] \/ (hold[c] = "AUTHORIZED" /\ charge[c].status = "SUCCEEDED"),
         \A q \in Requests \ {r} :
           Confirming(q) => intent' = intent \/ (req[q].at = "acting" /\ intent' \notin Unpaid),
         intent' = "CANCELED" => intent = "CANCELED" \/ (ActiveCharges = {} /\ Succeeded = {}),
         \A q \in Requests \ {r} : req'[q] = req[q],
         dead \subseteq dead', lost \subseteq lost', Stands(r)',
         Confirming(r)' => Confirming(r) /\ Stakes(r)' = Stakes(r),
         \A c \in Charges \ dead' : Vouches(r, c) => Vouches(r, c)',
         \A o \in Charges \ lost' : Carries(r, o) => Carries(r, o)'
  PROVE  Calm'
  <1>1. Gently(r)
    <2>1. \A c \in Charges : Moved(r, c)
      BY DEF Moved
    <2>2. Confirming(r) => Stakes(r) \subseteq Charges
      BY DEF Types, RequestOK, Work, Stakes
    <2> QED BY <2>1, <2>2 DEF Gently
  <1>2. ASSUME \A q \in Requests \ {r} : Stands(q)', NEW c \in Charges \ dead'
        PROVE  Backed(c)'
    <2>1. c \in Charges \ dead
      OBVIOUS
    <2>2. Vouches(r, c) => charge[c].status \in {"SUCCEEDED", "CREATED"}
      BY DEF Calm, Stands, AttemptStands, Vouches, Settles
    <2>3. Vouches(r, c) => Vouches(r, c)'
      OBVIOUS
    <2>4. /\ hold'[c] = hold[c] \/ (hold[c] = "AUTHORIZED" /\ charge[c].status = "SUCCEEDED")
          /\ charge'[c].status = charge[c].status
      BY <2>1
    <2>5. hold'[c] \in {"AUTHORIZED", "CAPTURED"} =>
            /\ hold[c] \in {"AUTHORIZED", "CAPTURED"}
            /\ hold'[c] = hold[c] \/ charge[c].status = "SUCCEEDED"
            /\ charge[c].status = "SUCCEEDED" => charge'[c].status = "SUCCEEDED"
      BY <2>4
    <2>6. Vouches(r, c) => \/ charge'[c].status = "SUCCEEDED"
                           \/ charge'[c].status = "CREATED" /\ Vouches(r, c)'
      BY <2>2, <2>3, <2>4
    <2> HIDE DEF Vouches
    <2> QED BY <1>1, <1>2, <2>1, <2>5, <2>6, BackedStep
  <1>3. ASSUME NEW o \in Charges \ lost' PROVE Known(o)' /\ Failed(o)'
    <2>1. o \in Charges \ lost /\ (Carries(r, o) => Known(o)')
      BY DEF Known, Carries
    <2>2. Known(o)'
      BY <2>1, KnownStep
    <2>3. Failed(o)'
      BY <2>1 DEF Calm, Failed
    <2> QED BY <2>2, <2>3
  <1>4. (intent = "CANCELED" => ActiveCharges = {} /\ Succeeded = {})'
    BY DEF Calm, ActiveCharges, Active, Succeeded
  <1> QED BY <1>1, <1>2, <1>3, <1>4, CalmStep

-----------------------------------------------------------------------------
(* Calm, step by step *)

LEMMA Unraced ==
  ASSUME NEW r \in Requests, NEW cs, ~raced'
  PROVE  /\ Releases(r, cs) => \A q \in Requests \ {r}, c \in cs : ~InHand(q, c)
         /\ Writes(r, cs) => \A q \in Requests \ {r}, c \in cs : ~Releasing(q, c)
  BY DEF Releases, Writes

LEMMA HandsReleasing ==
  ASSUME NEW q, NEW c, Releasing(q, c) PROVE InHand(q, c)
  BY DEF Releasing, InHand

\* An attempt is alone and has the intent.
LEMMA AttemptHas ==
  ASSUME Types, Calm, NEW r \in Requests, Confirming(r)
  PROVE  /\ AttemptStands(r) /\ \A q \in Requests : Confirming(q) => q = r
         /\ intent \notin {"CREATED", "REQUIRES_ACTION", "CANCELED"} \/ req[r].at = "acting"
         /\ intent \notin {"CREATED", "REQUIRES_ACTION"}
         /\ req[r].at # "acting" => intent = "PROCESSING"
  BY DEF Calm, Stands, AttemptStands, Unpaid

LEMMA ConfirmCalm ==
  ASSUME Types, Written, Redeemed, Calm, ~raced',
         NEW r \in Requests, NEW plan \in Plans, Confirm(r, plan)
  PROVE  Calm'
  <1> DEFINE c == made + 1
             old == ActiveCharges \cup StaleHold
  <1>1. /\ c \in Charges
        /\ \A q \in Requests \ {r} : req'[q] = req[q]
        /\ UNCHANGED <<payment, notices, receipts, flagged, lost, dead>> /\ Unheld(StaleHold)
        /\ charge'[c].status = "CREATED" /\ charge[c].status = "none"
    BY ConfirmFacts
  <1>2. /\ \A d \in old : d \in Charges /\ charge[d].status # "none"
        /\ \A d \in Charges \ {c} :
             /\ charge'[d].key = charge[d].key
             /\ charge'[d].status = IF d \in old THEN "CANCELED" ELSE charge[d].status
    BY ConfirmFacts
  <1>3. /\ req'[r].op = "confirm" /\ req'[r].c = c /\ req'[r].legs = {}
        /\ req'[r].at \in {"discount", "primary"} /\ Idle(r) /\ ~Confirming(r)
    BY ConfirmFacts
  <1>4. /\ intent \in {"CREATED", "REQUIRES_ACTION"} /\ intent' = "PROCESSING"
        /\ lock = Nobody /\ Releases(r, old \cup {c})
    BY DEF Confirm, Unlocked
  <1>5. \A q \in Requests \ {r}, d \in old \cup {c} : ~InHand(q, d)
    BY <1>4, Unraced
  <1>6. \A q \in Requests : ~Confirming(q)
    BY <1>4, AttemptHas
  <1>7. \A q \in Requests \ {r} : req[q].at \notin {"list", "undo"}
    <2> SUFFICES ASSUME NEW q \in Requests \ {r}, req[q].at \in {"list", "undo"} PROVE FALSE
      OBVIOUS
    <2>1. req[q].op \in Releasers /\ (req[q].op = "abandon" <=> lock = q) /\ lock # q
      BY <1>4, PaymentsAssumption DEF Types, RequestOK, OfItsKind
    <2>2. InHand(q, c)
      BY <2>1 DEF InHand, Releasers
    <2> QED BY <1>5, <2>2
  <1>8. \A d \in Charges : Moved(r, d)
    <2> SUFFICES ASSUME NEW d \in Charges PROVE Moved(r, d)
      OBVIOUS
    <2>1. CASE d = c
      <3>1. Confirming(r)' /\ \A q \in Requests \ {r} : ~Releasing(q, c)
        BY <1>3, <1>5, HandsReleasing DEF Confirming
      <3> QED BY <1>1, <2>1, <3>1 DEF Moved
    <2>2. CASE d # c
      BY <1>2, <1>5, <2>2 DEF Moved
    <2> QED BY <2>1, <2>2
  <1>9. Gently(r)
    BY <1>1, <1>3, <1>6, <1>7, <1>8 DEF Gently
  <1>10. Stands(r)'
    <2>1. \A q \in Requests : Confirming(q)' => q = r
      BY <1>1, <1>6 DEF Confirming
    <2>2. AttemptStands(r)'
      BY <1>1, <1>3, <1>4, <2>1 DEF AttemptStands
    <2> QED BY <1>3, <2>2 DEF Stands, Deciding, Releasers
  <1>11. ASSUME \A q \in Requests \ {r} : Stands(q)', NEW d \in Charges \ dead' PROVE Backed(d)'
    <2>1. d \in Charges \ dead
      BY <1>1
    <2>2. hold'[d] \in {"AUTHORIZED", "CAPTURED"} =>
            hold[d] = "AUTHORIZED" /\ hold'[d] = hold[d] /\ d \notin StaleHold
      BY <1>1, <1>4 DEF Unheld, Redeemed, Unpaid
    <2>3. hold'[d] \in {"AUTHORIZED", "CAPTURED"} /\ charge[d].status = "SUCCEEDED" =>
            charge'[d].status = "SUCCEEDED"
      <3>1. charge[d].status = "SUCCEEDED" => d \notin ActiveCharges /\ d # c
        BY <1>1 DEF ActiveCharges, Active
      <3> QED BY <1>2, <2>2, <3>1
    <2>4. ~Vouches(r, d)
      BY <1>3 DEF Vouches
    <2> QED BY <1>9, <1>11, <2>1, <2>2, <2>3, <2>4, BackedStep
  <1>12. ASSUME NEW o \in Charges \ lost' PROVE Known(o)' /\ Failed(o)'
    <2>1. o \in Charges \ lost /\ ~Carries(r, o)
      BY <1>1, <1>3 DEF Carries, Settles, Idle
    <2>2. \A d \in Charges : charge[d].status = "SUCCEEDED" /\ charge[d].key = o =>
             charge'[d].status = "SUCCEEDED" /\ charge'[d].key = o
      <3> SUFFICES ASSUME NEW d \in Charges, charge[d].status = "SUCCEEDED", charge[d].key = o
                   PROVE  charge'[d].status = "SUCCEEDED" /\ charge'[d].key = o
        OBVIOUS
      <3>1. charge[d].method = "TOSS" /\ d # c /\ d \notin ActiveCharges
        <4>1. ChargeOK(d) /\ o # None
          BY DEF Written, Charges, None
        <4>2. d # c /\ d \notin ActiveCharges
          BY <1>1 DEF ActiveCharges, Active
        <4> QED BY <4>1, <4>2 DEF ChargeOK
      <3>2. d \notin StaleHold
        BY <3>1, Picked DEF PointsHeld
      <3> QED BY <1>2, <3>1, <3>2
    <2>3. Known(o)'
      BY <1>1, <2>1, <2>2, KnownStep
    <2>4. Failed(o)'
      BY <1>1, <1>2, <2>1 DEF Calm, Failed
    <2> QED BY <2>3, <2>4
  <1>13. (intent = "CANCELED" => ActiveCharges = {} /\ Succeeded = {})'
    BY <1>4
  <1> QED BY <1>1, <1>9, <1>10, <1>11, <1>12, <1>13, CalmStep

LEMMA StartsCalm ==
  ASSUME Types, Written, Redeemed, Calm, ~raced', NEW r \in Requests, Start(r)
  PROVE  Calm'
  <1>0. /\ req' \in [Requests -> Work] /\ \A q \in Requests \ {r} : req'[q] = req[q]
        /\ req \in [Requests -> Work] /\ charge \in [Charges -> Charged]
        /\ Idle(r) => /\ req[r] = IdleRequest
                      /\ \A c : ~Vouches(r, c) /\ ~Carries(r, c)
    BY RequestMoves, Idles DEF Types, RowTypes, IdleRequest, Vouches, Carries, Settles, Idle
  <1> DEFINE Quiet == /\ UNCHANGED <<charge, hold, payment, intent, notices, receipts, flagged, lost, dead>>
                      /\ Idle(r)
  <1>1. ASSUME Quiet, ~Confirming(r)', Stands(r)' PROVE Calm'
    BY <1>0, <1>1, QuietCalm
  <1>2. ASSUME NEW plan \in Plans, Confirm(r, plan) PROVE Calm'
    BY <1>2, ConfirmCalm
  <1>3. CASE ConfirmAgain(r)
    BY <1>3 DEF ConfirmAgain
  <1>4. CASE CaptureStarts(r)
    <2>1. Quiet
      BY <1>4 DEF CaptureStarts, rows, ledger, toss, hooks, history
    <2>2. req'[r].at = "capture" /\ req'[r].op = "capture"
      BY <1>0, <1>4 DEF CaptureStarts, Work
    <2> QED BY <1>1, <2>1, <2>2 DEF Confirming, Deciding, Stands, Releasers
  <1>5. CASE FinalizeDeferred(r)
    <2>1. Quiet
      BY <1>5 DEF FinalizeDeferred, rows, ledger, toss, hooks, history
    <2>2. PICK c \in ActiveCharges :
             /\ charge[c].status = "REQUIRES_ACTION"
             /\ req' = [req EXCEPT ![r].op = "approve", ![r].c = c, ![r].pay = charge[c].staged,
                                   ![r].at = "pay"]
      BY <1>5 DEF FinalizeDeferred
    <2>3. req'[r].op = "approve" /\ req'[r].at = "pay" /\ req'[r].c = c
      BY <1>0, <2>1, <2>2 DEF Work
    <2>4. DecisionStands(r)'
      BY <2>1, <2>2, <2>3 DEF DecisionStands
    <2> QED BY <1>1, <2>1, <2>3, <2>4 DEF Confirming, Stands, Releasers
  <1>6. CASE Abandon(r)
    <2>1. Quiet
      BY <1>6 DEF Abandon, rows, ledger, toss, hooks, history
    <2>2. req'[r].at = "release" /\ req'[r].op = "abandon"
      BY <1>0, <1>6 DEF Abandon, Work
    <2> QED BY <1>1, <2>1, <2>2 DEF Confirming, Deciding, Stands, ReleaseStands
  <1>7. CASE Cancel(r)
    <2>1. Quiet
      BY <1>7 DEF Cancel, rows, ledger, toss, hooks, history
    <2>2. req'[r].at = "release" /\ req'[r].op = "cancel"
      BY <1>0, <1>7 DEF Cancel, Work
    <2> QED BY <1>1, <2>1, <2>2 DEF Confirming, Deciding, Stands, ReleaseStands
  <1>8. ASSUME NEW o \in Charges, Approve(r, o) PROVE Calm'
    <2>1. Quiet
      BY <1>8 DEF Approve, rows, ledger, toss, hooks, history
    <2>2. PICK c \in ActiveCharges :
             /\ charge[c].status = "REQUIRES_ACTION"
             /\ req' = [req EXCEPT ![r].op = "approve", ![r].c = c, ![r].pay = o,
                                ![r].at = IF deferred THEN "stage" ELSE "pay"]
      BY <1>8 DEF Approve
    <2>3. req'[r].op = "approve" /\ req'[r].at \in {"stage", "pay"} /\ req'[r].c = c
      BY <1>0, <2>1, <2>2 DEF Work
    <2>4. DecisionStands(r)'
      BY <2>1, <2>2, <2>3 DEF DecisionStands
    <2> QED BY <1>1, <2>1, <2>3, <2>4 DEF Confirming, Stands, Releasers
  <1>9. ASSUME NEW o \in Charges, NoticeComes(r, o) PROVE Calm'
    <2>1. Quiet
      BY <1>9 DEF NoticeComes, rows, ledger, toss, hooks, history
    <2>2. /\ req'[r].op = "webhook" /\ req'[r].at = "query" /\ req'[r].c = o
          /\ req'[r].was = charge[o].status
      BY <1>0, <1>9, <2>1 DEF NoticeComes, Work
    <2>3. payment[o] \in Settled
      BY <1>9 DEF NoticeComes, Types
    <2>4. charge[o].status \notin {"none", "CREATED"}
      BY <2>3 DEF Written, ChargeOK, Settled
    <2>5. charge[o].status = "FAILED" /\ payment[o] = "done" => o \in lost
      BY DEF Calm, Failed
    <2>6. DecisionStands(r)'
      BY <2>1, <2>2, <2>4, <2>5 DEF DecisionStands
    <2> QED BY <1>1, <2>1, <2>2, <2>6 DEF Confirming, Stands, Releasers
  <1> QED BY <1>2, <1>3, <1>4, <1>5, <1>6, <1>7, <1>8, <1>9 DEF Start

LEMMA RestStands ==
  ASSUME NEW r \in Requests, req'[r] = IdleRequest
  PROVE  Stands(r)' /\ ~Confirming(r)'
  BY DEF Stands, Confirming, Deciding, Releasers, IdleRequest

LEMMA ConfirmationCalm ==
  ASSUME Types, Written, Redeemed, Calm, ~raced', NEW r \in Requests, Confirmation(r)
  PROVE  Calm'
  <1> DEFINE c == req[r].c
  <1>0. /\ req' \in [Requests -> Work] /\ \A q \in Requests \ {r} : req'[q] = req[q]
        /\ req \in [Requests -> Work] /\ req[r] \in Work /\ charge \in [Charges -> Charged]
        /\ hold \in [Charges -> {"none", "AUTHORIZED", "CAPTURED", "CANCELLED"}]
        /\ payment \in [Charges -> {"none", "ready"} \cup Settled]
    BY RequestMoves DEF Step, Types, RowTypes
  <1>1. \A o \in Charges : ~Carries(r, o)
    BY DEF Confirmation, HoldPoints, MarkHeld, MakePrimary, PointsPrimary, TossPrimary,
           AskCustomer, Refused, Carries, Settles
  \* What holds of an attempt at each of these steps.
  <1>2. ASSUME req[r].at \in {"discount", "held", "split", "primary", "acting", "refused"}
        PROVE  /\ req[r].op = "confirm" /\ Confirming(r) /\ c \in Charges /\ AttemptStands(r)
               /\ \A q \in Requests \ {r} : ~Confirming(q)
               /\ req[r].at # "acting" => intent = "PROCESSING"
               /\ AttemptOK(r) /\ req[r].legs \subseteq Charges
    BY <1>0, <1>2, AttemptFacts, AttemptHas DEF Written, Work
  \* The end of a step of an attempt, by what it does to charges and holds.
  <1>3. ASSUME req[r].at \in {"discount", "held", "split", "primary", "refused"},
               UNCHANGED <<intent, payment, notices, receipts, flagged, lost, dead>>,
               \A d \in Charges : Moved(r, d),
               Confirming(r)' => /\ Stakes(r) \subseteq Stakes(r)'
                                 /\ \A d \in Stakes(r) : charge[d].status = "SUCCEEDED" =>
                                                           charge'[d].status = "SUCCEEDED",
               Confirming(r)' /\ req'[r].at # "acting" =>
                 IF req'[r].at = "split"
                 THEN charge'[req'[r].c].status = "SUCCEEDED" /\ ActiveCharges' = {}
                 ELSE charge'[req'[r].c].status = "CREATED",
               Confirming(r)' /\ req'[r].at = "acting" =>
                 charge'[req'[r].c].status \in {"REQUIRES_ACTION", "SUCCEEDED"},
               Confirming(r)' => req'[r].legs \subseteq Succeeded',
               req'[r].op \in {"confirm", "none"},
               \A d \in Charges \ dead :
                 \/ Backed(d)'
                 \/ /\ hold'[d] \in {"AUTHORIZED", "CAPTURED"} =>
                         /\ hold[d] \in {"AUTHORIZED", "CAPTURED"}
                         /\ hold'[d] = hold[d] \/ charge[d].status = "SUCCEEDED"
                         /\ charge[d].status = "SUCCEEDED" => charge'[d].status = "SUCCEEDED"
                    /\ ~Vouches(r, d),
               \A d \in Charges : charge[d].status = "SUCCEEDED" /\ charge[d].method = "TOSS" =>
                 charge'[d].status = "SUCCEEDED" /\ charge'[d].key = charge[d].key,
               \A d \in Charges : charge'[d].status = "FAILED" =>
                 charge[d].status = "FAILED" \/ payment[d] = "none"
        PROVE  Calm'
    <2>1. /\ Confirming(r) /\ intent = "PROCESSING" /\ \A q \in Requests \ {r} : ~Confirming(q)
      BY <1>2, <1>3
    <2>2. Gently(r)
      BY <1>0, <1>3, <2>1 DEF Gently
    <2>3. \A q \in Requests : Confirming(q)' => q = r
      BY <1>0, <2>1 DEF Confirming
    <2>4. Stands(r)'
      <3>1. Confirming(r)' => AttemptStands(r)'
        BY <1>3, <2>1, <2>3 DEF AttemptStands, Unpaid
      <3> QED BY <1>3, <3>1 DEF Stands, Deciding, Releasers
    <2>5. ASSUME \A q \in Requests \ {r} : Stands(q)', NEW d \in Charges \ dead' PROVE Backed(d)'
      <3>1. d \in Charges \ dead
        BY <1>3
      <3> QED BY <1>3, <2>2, <2>5, <3>1, BackedStep
    <2>6. ASSUME NEW o \in Charges \ lost' PROVE Known(o)' /\ Failed(o)'
      <3>1. o \in Charges \ lost /\ ~Carries(r, o)
        BY <1>1, <1>3
      <3>2. \A d \in Charges : charge[d].status = "SUCCEEDED" /\ charge[d].key = o =>
               charge'[d].status = "SUCCEEDED" /\ charge'[d].key = o
        <4>1. \A d \in Charges : charge[d].key = o => charge[d].method = "TOSS"
          <5>1. o # None /\ \A d \in Charges : ChargeOK(d)
            BY <3>1 DEF Written, Charges, None
          <5> QED BY <5>1 DEF ChargeOK
        <4> QED BY <1>3, <4>1
      <3>3. Known(o)'
        BY <1>0, <1>3, <3>1, <3>2, KnownStep
      <3>4. Failed(o)'
        BY <1>3, <3>1 DEF Calm, Failed
      <3> QED BY <3>3, <3>4
    <2>7. (intent = "CANCELED" => ActiveCharges = {} /\ Succeeded = {})'
      BY <1>3, <2>1
    <2> QED BY <1>3, <2>2, <2>4, <2>5, <2>6, <2>7, CalmStep
  <1>4. CASE HoldPoints(r)
    <2>1. /\ req[r].at = "discount" /\ Releases(r, StaleHold)
          /\ UNCHANGED <<intent, payment, notices, receipts, flagged, lost, dead>>
          /\ charge' = Status(StaleHold, "CANCELED")
      BY <1>4 DEF HoldPoints, toss, hooks
    <2>2. /\ \A d \in StaleHold : charge[d].status = "SUCCEEDED" /\ charge[d].method = "POINTS"
          /\ \A q \in Requests \ {r}, d \in StaleHold : ~InHand(q, d)
      BY <2>1, Picked, Unraced DEF PointsHeld, Succeeded
    <2>3. \A d \in Charges :
            /\ charge'[d].status = IF d \in StaleHold THEN "CANCELED" ELSE charge[d].status
            /\ charge'[d].key = charge[d].key
      BY <1>0, <2>1 DEF Status, Charged
    <2>4. /\ intent = "PROCESSING" /\ charge[c].status = "CREATED" /\ c \in Charges
          /\ req[r].legs = {} /\ c \notin StaleHold
      BY <1>2, <2>1, <2>2, AttemptFacts DEF AttemptStands
    <2>5. /\ req'[r].op = "confirm" /\ req'[r].c = c /\ req'[r].legs = {}
          /\ req'[r].at \in {"held", "finish"}
          /\ \A d \in Charges : hold'[d] \in {"AUTHORIZED", "CAPTURED"} =>
               \/ d = c /\ req'[r].at = "held" /\ hold'[d] = "AUTHORIZED"
               \/ d # c /\ hold'[d] = hold[d] /\ (d \in StaleHold => hold[d] = "CAPTURED")
      <3>1. CASE Goes(r, "held") /\ hold' = [d \in Charges |->
                   IF d = c THEN "AUTHORIZED"
                   ELSE IF d \in StaleHold /\ hold[d] = "AUTHORIZED" THEN "CANCELLED"
                   ELSE hold[d]]
        BY <1>0, <1>2, <2>1, <2>4, <3>1, GoesMoves DEF Work, Places
      <3>2. CASE Unheld(StaleHold) /\ req' = [req EXCEPT ![r].at = "finish", ![r].ok = FALSE]
        <4>1. req'[r] = [req[r] EXCEPT !.at = "finish", !.ok = FALSE]
          BY <1>0, <3>2, SettlesMoves
        <4>2. hold[c] = "none"
          BY <1>2, <2>1 DEF AttemptOK
        <4>3. req'[r].op = "confirm" /\ req'[r].c = c /\ req'[r].legs = {} /\ req'[r].at = "finish"
          BY <1>0, <1>2, <2>1, <2>4, <4>1 DEF Work
        <4> QED BY <2>4, <3>2, <4>2, <4>3 DEF Unheld
      <3> QED BY <1>4, <3>1, <3>2 DEF HoldPoints
    <2>6. \A d \in Charges : Moved(r, d)
      BY <2>2, <2>3 DEF Moved
    <2>7. ASSUME NEW d \in Charges \ dead
          PROVE  \/ Backed(d)'
                 \/ /\ hold'[d] \in {"AUTHORIZED", "CAPTURED"} =>
                         /\ hold[d] \in {"AUTHORIZED", "CAPTURED"}
                         /\ hold'[d] = hold[d] \/ charge[d].status = "SUCCEEDED"
                         /\ charge[d].status = "SUCCEEDED" => charge'[d].status = "SUCCEEDED"
                    /\ ~Vouches(r, d)
      <3>1. hold[d] # "CAPTURED"
        BY <2>4 DEF Redeemed, Unpaid
      <3>2. CASE d = c /\ req'[r].at = "held" /\ hold'[d] = "AUTHORIZED"
        <4>1. Vouches(r, d)'
          BY <2>5, <3>2 DEF Vouches, Confirming
        <4>2. charge'[d].status = "CREATED"
          BY <2>3, <2>4, <3>2
        <4> QED BY <3>2, <4>1, <4>2 DEF Backed, Vouches
      <3>3. CASE ~(d = c /\ req'[r].at = "held" /\ hold'[d] = "AUTHORIZED")
        <4>1. ~Vouches(r, d)
          BY <2>1 DEF Vouches, Settles
        <4> QED BY <2>3, <2>5, <3>1, <3>3, <4>1
      <3> QED BY <3>2, <3>3
    <2>8. charge'[c].status = "CREATED" /\ Stakes(r) = {c} /\ Stakes(r)' = {c}
      BY <2>3, <2>4, <2>5 DEF Stakes
    <2>9. \A d \in Charges : charge[d].status = "SUCCEEDED" /\ charge[d].method = "TOSS" =>
            charge'[d].status = "SUCCEEDED" /\ charge'[d].key = charge[d].key
      BY <2>2, <2>3
    <2> QED BY <1>3, <2>1, <2>3, <2>4, <2>5, <2>6, <2>7, <2>8, <2>9
  <1>5. CASE MarkHeld(r)
    <2>1. /\ req[r].at = "held" /\ Writes(r, {c})
          /\ UNCHANGED <<intent, payment, notices, receipts, flagged, lost, dead, hold>>
          /\ charge' = Status({c}, "SUCCEEDED")
      BY <1>5 DEF MarkHeld, toss, hooks, ledger
    <2>2. \A d \in Charges :
            /\ charge'[d].status = IF d = c THEN "SUCCEEDED" ELSE charge[d].status
            /\ charge'[d].key = charge[d].key
      BY <1>0, <2>1 DEF Status, Charged
    <2>3. /\ intent = "PROCESSING" /\ charge[c].status = "CREATED" /\ c \in Charges
          /\ req[r].legs = {} /\ Confirming(r)
      BY <1>2, <2>1, AttemptFacts DEF AttemptStands
    <2>4. req'[r].op = "confirm" /\ req'[r].c = c /\ req'[r].legs = {} /\ req'[r].at = "split"
      BY <1>0, <1>2, <1>5, <2>1, <2>3, GoesMoves DEF MarkHeld, Work, Places
    <2>5. \A d \in Charges : Moved(r, d)
      BY <2>1, <2>2, <2>3, Unraced DEF Moved
    <2>6. ActiveCharges' = {}
      <3>1. \A d \in ActiveCharges : d = c
        BY <2>3 DEF Written, OneActive, ActiveCharges, Active
      <3> QED BY <2>2, <3>1 DEF ActiveCharges, Active
    <2>7. ASSUME NEW d \in Charges \ dead
          PROVE  \/ Backed(d)'
                 \/ /\ hold'[d] \in {"AUTHORIZED", "CAPTURED"} =>
                         /\ hold[d] \in {"AUTHORIZED", "CAPTURED"}
                         /\ hold'[d] = hold[d] \/ charge[d].status = "SUCCEEDED"
                         /\ charge[d].status = "SUCCEEDED" => charge'[d].status = "SUCCEEDED"
                    /\ ~Vouches(r, d)
      <3>1. CASE d = c
        BY <2>2, <3>1 DEF Backed
      <3>2. CASE d # c
        BY <2>1, <2>2, <3>2 DEF Vouches
      <3> QED BY <3>1, <3>2
    <2>8. charge'[c].status = "SUCCEEDED" /\ Stakes(r) = {c} /\ Stakes(r)' = {c}
      BY <2>2, <2>3, <2>4 DEF Stakes
    <2> QED BY <1>3, <2>1, <2>2, <2>3, <2>4, <2>5, <2>6, <2>7, <2>8
  <1>6. CASE MakePrimary(r)
    <2> DEFINE e == c + 1
    <2>1. /\ req[r].at = "split"
          /\ UNCHANGED <<intent, payment, notices, receipts, flagged, lost, dead, hold>>
      BY <1>6 DEF MakePrimary, toss, hooks, ledger
    <2>2. CASE Ends(r) /\ charge' = charge
      <3>1. \A d : ~Vouches(r, d)
        BY <2>1 DEF Vouches, Settles
      <3> QED BY <1>0, <1>1, <2>1, <2>2, <3>1, EndsMoves, RestStands, QuietCalm
    <2>3. CASE ~(Ends(r) /\ charge' = charge)
      <3>1. /\ charge' = [charge EXCEPT ![e] = NewCharge("TOSS", Payable - PointsPart)]
            /\ req' = [req EXCEPT ![r].at = "primary", ![r].c = e, ![r].legs = {c}]
            /\ ActiveCharges = {} /\ Writes(r, {e})
        BY <1>6, <2>3 DEF MakePrimary
      <3>2. /\ e \in Charges /\ c \in Charges /\ c # e /\ req[r].legs = {} /\ Confirming(r)
            /\ intent = "PROCESSING" /\ charge[c].status = "SUCCEEDED" /\ charge[e].status = "none"
            /\ hold[e] = "none"
        <4>1. e \in Charges /\ c \in Charges /\ c # e /\ req[r].legs = {} /\ Composite(r)
          BY <2>1, AttemptFacts, PaymentsAssumption DEF Composite, Charges
        <4>2. charge[c].status = "SUCCEEDED" /\ charge[e].status = "none"
          BY <1>2, <2>1, <4>1 DEF AttemptStands, AttemptOK
        <4> QED BY <1>2, <2>1, <4>1, <4>2 DEF Written, ChargeOK
      <3>3. Payable - PointsPart \in 0 .. Payable
        BY PaymentsAssumption
      <3>4. /\ \A d \in Charges \ {e} : charge'[d] = charge[d]
            /\ charge'[e].status = "CREATED"
        BY <1>0, <3>1, <3>2, <3>3, NewChargeFacts
      <3>5. /\ req'[r].op = "confirm" /\ req'[r].c = e
            /\ req'[r].at = "primary" /\ req'[r].legs = {c}
        BY <1>0, <1>2, <2>1, <3>1, <3>2 DEF Work
      <3>6. \A d \in Charges : Moved(r, d)
        BY <3>1, <3>2, <3>4, Unraced DEF Moved
      <3>7. Stakes(r) = {c} /\ Stakes(r)' = {e, c} /\ {c} \subseteq Succeeded'
        BY <3>2, <3>4, <3>5 DEF Stakes, Succeeded
      <3>8. \A d \in Charges \ dead : ~Vouches(r, d) /\ (charge[d].status = "SUCCEEDED" => charge'[d] = charge[d])
        BY <2>1, <3>2, <3>4 DEF Vouches, Settles
      <3>9. /\ \A d \in Charges : charge[d].status = "SUCCEEDED" => charge'[d] = charge[d]
            /\ \A d \in Charges : charge'[d].status = "FAILED" => charge[d].status = "FAILED"
        BY <3>2, <3>4
      <3>10. \A d \in Charges \ dead : hold'[d] \in {"AUTHORIZED", "CAPTURED"} =>
                         /\ hold[d] \in {"AUTHORIZED", "CAPTURED"}
                         /\ hold'[d] = hold[d] \/ charge[d].status = "SUCCEEDED"
                         /\ charge[d].status = "SUCCEEDED" => charge'[d].status = "SUCCEEDED"
        BY <2>1, <3>8
      <3>11. charge[c].status = "SUCCEEDED" => charge'[c].status = "SUCCEEDED"
        BY <3>2, <3>9
      <3> QED BY <1>3, <2>1, <3>2, <3>4, <3>5, <3>6, <3>7, <3>8, <3>9, <3>10, <3>11
    <2> QED BY <2>2, <2>3
  <1>7. CASE PointsPrimary(r)
    <2>1. /\ req[r].at = "primary"
          /\ UNCHANGED <<intent, payment, notices, receipts, flagged, lost, dead, charge>>
      BY <1>7 DEF PointsPrimary, rows, toss, hooks, history
    <2>2. /\ charge[c].status = "CREATED" /\ c \in Charges /\ req[r].legs = {}
      BY <1>2, <1>7, <2>1 DEF PointsPrimary, AttemptStands, AttemptOK
    <2>3. /\ req'[r].op = "confirm" /\ req'[r].c = c /\ req'[r].legs = {}
          /\ \/ req'[r].at = "finish" /\ req'[r].ok
             \/ req'[r].at = "refused" /\ hold' = hold
          /\ \A d \in Charges \ {c} : hold'[d] = hold[d]
      <3>1. CASE UNCHANGED hold /\ Goes(r, "refused")
        BY <1>0, <1>2, <2>1, <2>2, <3>1, GoesMoves DEF Work, Places
      <3>2. CASE ~(UNCHANGED hold /\ Goes(r, "refused"))
        <4>1. /\ hold' = [hold EXCEPT ![c] = "AUTHORIZED"]
              /\ req' = [req EXCEPT ![r].at = "finish", ![r].ok = TRUE]
          BY <1>7, <3>2 DEF PointsPrimary
        <4>2. req'[r] = [req[r] EXCEPT !.at = "finish", !.ok = TRUE]
          BY <1>0, <4>1, SettlesMoves
        <4>3. req'[r].at = "finish" /\ req'[r].ok
          BY <1>0, <4>2 DEF Work
        <4> QED BY <1>0, <1>2, <2>1, <2>2, <4>1, <4>2, <4>3 DEF Work
      <3> QED BY <3>1, <3>2
    <2>4. \A d \in Charges : Moved(r, d)
      BY <2>1 DEF Moved
    <2>5. ASSUME NEW d \in Charges \ dead
          PROVE  \/ Backed(d)'
                 \/ /\ hold'[d] \in {"AUTHORIZED", "CAPTURED"} =>
                         /\ hold[d] \in {"AUTHORIZED", "CAPTURED"}
                         /\ hold'[d] = hold[d] \/ charge[d].status = "SUCCEEDED"
                         /\ charge[d].status = "SUCCEEDED" => charge'[d].status = "SUCCEEDED"
                    /\ ~Vouches(r, d)
      <3>1. ~Vouches(r, d)
        BY <2>1 DEF Vouches, Settles
      <3>2. CASE hold'[d] = hold[d]
        BY <2>1, <3>1, <3>2
      <3>3. CASE hold'[d] # hold[d]
        <4>1. d = c /\ req'[r].at = "finish" /\ req'[r].ok /\ charge'[d].status = "CREATED"
          BY <2>1, <2>2, <2>3, <3>3
        <4>2. Vouches(r, d)'
          BY <2>3, <4>1 DEF Vouches, Confirming, Settles
        <4>3. hold'[d] = "AUTHORIZED"
          BY <1>0, <1>7, <2>2, <3>3, <4>1 DEF PointsPrimary
        <4> QED BY <4>1, <4>2, <4>3 DEF Backed, Vouches
      <3> QED BY <3>2, <3>3
    <2>6. Stakes(r)' = Stakes(r)
      BY <2>2, <2>3 DEF Stakes
    <2> QED BY <1>3, <2>1, <2>2, <2>3, <2>4, <2>5, <2>6
  <1>8. CASE TossPrimary(r)
    <2>1. /\ req[r].at = "primary"
          /\ UNCHANGED <<intent, payment, notices, receipts, flagged, lost, dead, hold>>
      BY <1>8 DEF TossPrimary, toss, hooks, ledger
    <2>2. \A d : ~Vouches(r, d)
      BY <2>1 DEF Vouches, Settles
    <2>3. CASE Ends(r) /\ charge' = charge
      BY <1>0, <1>1, <2>1, <2>2, <2>3, EndsMoves, RestStands, QuietCalm
    <2>4. CASE charge' = Status({c}, "REQUIRES_ACTION") /\ Writes(r, {c}) /\ Goes(r, "acting")
      <3>1. \A d \in Charges :
              /\ charge'[d].status = IF d = c THEN "REQUIRES_ACTION" ELSE charge[d].status
              /\ charge'[d].key = charge[d].key
        BY <1>0, <2>4 DEF Status, Charged
      <3>2. /\ charge[c].status = "CREATED" /\ c \in Charges /\ req[r].legs \subseteq Succeeded
            /\ Confirming(r)
        BY <1>2, <2>1 DEF AttemptStands
      <3>3. /\ req'[r].op = "confirm" /\ req'[r].c = c /\ req'[r].legs = req[r].legs
            /\ req'[r].at = "acting"
        BY <1>0, <1>2, <2>1, <2>4, GoesMoves DEF Work, Places
      <3>4. \A d \in Charges : Moved(r, d)
        BY <2>4, <3>1, <3>2, Unraced DEF Moved
      <3>5. Stakes(r)' = Stakes(r) /\ Stakes(r) \subseteq Charges /\ Succeeded \subseteq Succeeded'
        BY <1>2, <2>1, <3>1, <3>2, <3>3 DEF Stakes, Succeeded
      <3>6. /\ \A d \in Charges : charge[d].status = "SUCCEEDED" =>
                 charge'[d].status = "SUCCEEDED" /\ charge'[d].key = charge[d].key
            /\ \A d \in Charges : charge'[d].status = "FAILED" => charge[d].status = "FAILED"
        BY <3>1, <3>2
      <3>7. \A d \in Charges \ dead : hold'[d] \in {"AUTHORIZED", "CAPTURED"} =>
                         /\ hold[d] \in {"AUTHORIZED", "CAPTURED"}
                         /\ hold'[d] = hold[d] \/ charge[d].status = "SUCCEEDED"
                         /\ charge[d].status = "SUCCEEDED" => charge'[d].status = "SUCCEEDED"
        BY <2>1, <3>6
      <3> QED BY <1>3, <2>1, <2>2, <3>1, <3>2, <3>3, <3>4, <3>5, <3>6, <3>7
    <2> QED BY <1>8, <2>3, <2>4 DEF TossPrimary
  <1>9. CASE AskCustomer(r)
    <2>1. /\ req[r].at = "acting" /\ Ends(r)
          /\ UNCHANGED <<charge, hold, notices, receipts, flagged, lost, dead>>
          /\ \/ UNCHANGED <<intent, payment>>
             \/ intent' = "REQUIRES_ACTION" /\ payment' = [payment EXCEPT ![c] = "ready"]
      BY <1>9 DEF AskCustomer, rows, ledger, hooks, history
    <2>2. /\ c \in Charges /\ charge[c].status \in {"REQUIRES_ACTION", "SUCCEEDED"}
          /\ \A q \in Requests \ {r} : ~Confirming(q)
      BY <1>2, <2>1 DEF AttemptStands
    <2>3. \A d \in Charges : payment'[d] = payment[d] \/ (d = c /\ payment'[d] = "ready")
      BY <1>0, <2>1
    <2>4. Stands(r)' /\ ~Confirming(r)'
      BY <1>0, <2>1, EndsMoves, RestStands
    <2>5. Gently(r)
      BY <1>0, <2>1, <2>2, <2>3, <2>4 DEF Gently, Moved
    <2>6. ASSUME \A q \in Requests \ {r} : Stands(q)', NEW d \in Charges \ dead' PROVE Backed(d)'
      <3>1. d \in Charges \ dead /\ hold'[d] = hold[d] /\ charge'[d] = charge[d] /\ ~Vouches(r, d)
        BY <2>1 DEF Vouches, Settles
      <3> QED BY <2>5, <2>6, <3>1, BackedStep
    <2>7. ASSUME NEW o \in Charges \ lost' PROVE Known(o)' /\ Failed(o)'
      <3>1. o \in Charges \ lost /\ ~Carries(r, o)
        BY <1>1, <2>1
      <3>2. payment'[o] = "done" => payment[o] = "done"
        BY <2>3
      <3>3. Known(o)'
        BY <1>0, <2>1, <3>1, <3>2, KnownStep
      <3>4. Failed(o)'
        BY <2>1, <2>2, <2>3, <3>1 DEF Calm, Failed
      <3> QED BY <3>3, <3>4
    <2>8. (intent = "CANCELED" => ActiveCharges = {} /\ Succeeded = {})'
      BY <2>1 DEF Calm, ActiveCharges, Active, Succeeded
    <2> QED BY <2>1, <2>4, <2>5, <2>6, <2>7, <2>8, CalmStep
  <1>10. CASE Refused(r)
    <2>1. CASE req[r].at = "refused"
      <3>1. /\ charge' = Status({c}, "FAILED") /\ Goes(r, "back") /\ Releases(r, {c})
            /\ UNCHANGED <<intent, payment, notices, receipts, flagged, lost, dead, hold>>
        BY <1>10, <2>1 DEF Refused, ledger, toss, hooks
      <3>2. \A d \in Charges :
              /\ charge'[d].status = IF d = c THEN "FAILED" ELSE charge[d].status
              /\ charge'[d].key = charge[d].key
        BY <1>0, <3>1 DEF Status, Charged
      <3>3. /\ charge[c].status = "CREATED" /\ c \in Charges /\ hold[c] = "none"
            /\ payment[c] = "none"
        <4>1. charge[c].status = "CREATED" /\ c \in Charges /\ hold[c] = "none"
          BY <1>2, <2>1 DEF AttemptStands, AttemptOK
        <4> QED BY <4>1 DEF Written, ChargeOK
      <3>4. req'[r].op = "confirm" /\ req'[r].at = "back"
        BY <1>0, <1>2, <2>1, <3>1, GoesMoves DEF Work, Places
      <3>5. ~Confirming(r)'
        BY <3>4 DEF Confirming
      <3>6. \A d \in Charges : Moved(r, d)
        BY <3>1, <3>2, Unraced DEF Moved
      <3>7. \A d \in Charges \ dead : ~Vouches(r, d)
        BY <2>1 DEF Vouches, Settles
      <3>8. /\ \A d \in Charges : charge[d].status = "SUCCEEDED" =>
                 charge'[d].status = "SUCCEEDED" /\ charge'[d].key = charge[d].key
            /\ \A d \in Charges : charge'[d].status = "FAILED" => charge[d].status = "FAILED" \/ payment[d] = "none"
        BY <3>2, <3>3
      <3>9. \A d \in Charges \ dead : hold'[d] \in {"AUTHORIZED", "CAPTURED"} =>
                         /\ hold[d] \in {"AUTHORIZED", "CAPTURED"}
                         /\ hold'[d] = hold[d] \/ charge[d].status = "SUCCEEDED"
                         /\ charge[d].status = "SUCCEEDED" => charge'[d].status = "SUCCEEDED"
        BY <3>1, <3>8
      <3> QED BY <1>3, <2>1, <3>1, <3>4, <3>5, <3>6, <3>7, <3>8, <3>9
    <2>2. CASE req[r].at = "back"
      <3>1. /\ Ends(r) /\ UNCHANGED <<charge, hold, payment, notices, receipts, flagged, lost, dead>>
            /\ intent' \in {"CREATED", intent}
            /\ \A q \in Requests \ {r} : req[q].op # "confirm"
        BY <1>10, <2>2 DEF Refused, rows, ledger, toss, hooks
      <3>2. \A d : ~Vouches(r, d)
        BY <2>2 DEF Vouches, Settles
      <3>3. \A q \in Requests \ {r} : ~Confirming(q)
        BY <3>1 DEF Confirming
      <3> QED BY <1>0, <1>1, <3>1, <3>2, <3>3, EndsMoves, RestStands, QuietCalm
    <2> QED BY <1>10, <2>1, <2>2 DEF Refused
  <1> QED BY <1>4, <1>5, <1>6, <1>7, <1>8, <1>9, <1>10 DEF Confirmation

LEMMA CompletionCalm ==
  ASSUME Types, Written, Calm, ~raced', NEW r \in Requests, Completion(r)
  PROVE  Calm'
  <1> DEFINE c == req[r].c
  <1>0. /\ req' \in [Requests -> Work] /\ \A q \in Requests \ {r} : req'[q] = req[q]
        /\ req \in [Requests -> Work] /\ req[r] \in Work /\ charge \in [Charges -> Charged]
        /\ RequestOK(r) /\ Stands(r) /\ ListOK(r) /\ req[r].legs \subseteq Charges
    BY RequestMoves DEF Step, Types, RowTypes, Work, Calm, Written
  <1>1. CASE Finish(r)
    <2> DEFINE to == IF req[r].ok THEN "AUTHORIZED" ELSE "CREATED"
               done == IF req[r].ok THEN "SUCCEEDED" ELSE "FAILED"
    <2>1. /\ Settles(r) /\ lost \subseteq lost' /\ c \in Charges
          /\ UNCHANGED <<hold, payment, notices, receipts, flagged, dead>>
      BY <1>1, DecisionFacts DEF Finish, Settles, ledger, toss, hooks
    \* The charge is created and of points, or it waits for Toss or has been paid.
    <2>2. /\ Confirming(r) \/ Deciding(r)
          /\ Confirming(r) => /\ charge[c].status = "CREATED" /\ intent = "PROCESSING"
                              /\ payment[c] = "none" /\ (~req[r].ok => hold[c] = "none")
                              /\ req[r].pay = None /\ req[r].op = "confirm"
          /\ Deciding(r) => /\ charge[c].status \in {"REQUIRES_ACTION", "SUCCEEDED"}
                            /\ charge[c].method = "TOSS" /\ hold[c] = "none" /\ req[r].pay \in Charges
                            /\ charge[c].status = "SUCCEEDED" => intent \notin Unpaid
                            /\ req[r].ok \/ req[r].pay \in lost
                                 \/ payment[req[r].pay] \in {"aborted", "expired", "returned"}
      <3>0. ChargeOK(c) /\ req[r].at \in {"finish", "waiting"}
        BY <2>1 DEF Written, Settles
      <3>1. CASE Confirming(r)
        <4>1. AttemptOK(r) /\ AttemptStands(r) /\ ~Deciding(r) /\ req[r].pay = None
              /\ req[r].op = "confirm"
          BY <1>0, <3>0, <3>1, DecisionFacts DEF Written, Stands
        <4> QED BY <2>1, <3>0, <3>1, <4>1 DEF AttemptOK, AttemptStands, ChargeOK
      <3>2. CASE Deciding(r)
        <4>1. DecisionOK(r) /\ DecisionStands(r) /\ ~Confirming(r) /\ req[r].pay \in Charges
          BY <1>0, <3>0, <3>2, DecisionFacts DEF Written, Stands
        <4>2. /\ charge[c].status \in {"REQUIRES_ACTION", "SUCCEEDED"} /\ charge[c].method = "TOSS"
              /\ req[r].ok \/ req[r].pay \in lost
                   \/ payment[req[r].pay] \in {"aborted", "expired", "returned"}
          BY <2>1, <3>0, <4>1 DEF DecisionOK, DecisionStands
        <4> QED BY <3>0, <3>2, <4>1, <4>2 DEF ChargeOK
      <3> QED BY <3>0, <3>1, <3>2, DecisionFacts
    <2>3. req'[r].at \in {"idle", "capture"} /\ req'[r].op \notin Releasers
      <3>1. CASE Ends(r)
        BY <1>0, <3>1, EndsMoves DEF IdleRequest, Releasers
      <3>2. CASE ~Ends(r)
        <4>1. req' = [req EXCEPT ![r] = [IdleRequest EXCEPT !.op = req[r].op, !.at = "capture"]]
          BY <1>1, <3>2 DEF Finish
        <4>2. req'[r].at = "capture" /\ req'[r].op = req[r].op
          BY <1>0, <4>1 DEF IdleRequest
        <4>3. req[r].op \notin Releasers
          BY <2>1, DecisionFacts DEF Settles, Releasers
        <4> QED BY <4>2, <4>3
      <3> QED BY <3>1, <3>2
    <2>4. Stands(r)' /\ ~Confirming(r)'
      BY <2>3 DEF Stands, Confirming, Deciding
    <2>5. CASE ~Allowed(intent, to)
      <3>1. /\ UNCHANGED <<intent, charge>>
            /\ req[r].op = "webhook" => c \in lost'
        BY <1>1, <2>5 DEF Finish
      <3>2. \A d : ~Vouches(r, d)
        BY <2>2, <2>5 DEF Vouches, Allowed
      <3>3. \A o \in Charges \ lost' : ~Carries(r, o)
        BY <1>0, <2>1, <2>2, <3>1 DEF Carries, RequestOK
      <3> QED BY <1>0, <2>1, <2>4, <3>1, <3>2, <3>3, QuietCalm
    <2>6. CASE Allowed(intent, to)
      <3>1. /\ intent' = to /\ intent \in Unpaid
            /\ charge' = [charge EXCEPT ![c].status = done,
                            ![c].key = IF req[r].ok THEN req[r].pay ELSE @]
            /\ req[r].ok => Writes(r, {c})
            /\ ~req[r].ok => Releases(r, {c})
            /\ req[r].pay \notin {None, c} => c \in lost'
        BY <1>1, <2>6 DEF Finish, Allowed, Unpaid
      <3>2. /\ \A d \in Charges \ {c} : charge'[d] = charge[d]
            /\ charge'[c].status = done
            /\ req[r].ok => charge'[c].key = req[r].pay
        BY <1>0, <2>1, <3>1 DEF Charged
      <3>3. /\ Confirming(r) => charge[c].status = "CREATED"
            /\ Deciding(r) => charge[c].status = "REQUIRES_ACTION"
            /\ req[r].ok => \A q \in Requests \ {r} : ~Releasing(q, c)
            /\ ~req[r].ok => \A q \in Requests \ {r} : ~InHand(q, c)
        BY <2>2, <3>1, Unraced
      <3>4. \A d \in Charges : Moved(r, d)
        BY <2>2, <3>2, <3>3 DEF Moved
      \* An attempt that waits for the customer of the same charge sees the intent authorized.
      <3>5. ASSUME NEW q \in Requests \ {r}, Confirming(q)
            PROVE  req[q].at = "acting" /\ intent' \notin Unpaid
        <4>1. /\ AttemptStands(q) /\ Deciding(r) /\ req[q].c \in Charges /\ AttemptOK(q)
          BY <2>2, <3>5, AttemptHas DEF Types, RequestOK, Written
        <4>2. /\ c \in ActiveCharges
              /\ charge[req[q].c].status \in {"CREATED", "REQUIRES_ACTION"} => req[q].c = c
          BY <2>1, <3>3, <4>1 DEF Written, OneActive, ActiveCharges, Active
        <4>3. req[q].at = "acting"
          BY <3>3, <4>1, <4>2 DEF AttemptStands
        <4>4. charge[req[q].c].status = "SUCCEEDED" => intent \notin Unpaid
          BY <4>1, <4>3 DEF AttemptOK, Written, ChargeOK
        <4>5. req[q].c = c
          BY <3>1, <4>1, <4>2, <4>3, <4>4 DEF AttemptStands
        <4>6. req[r].ok
          BY <3>3, <4>3, <4>5 DEF InHand
        <4> QED BY <3>1, <4>3, <4>6 DEF Unpaid
      <3>6. Gently(r)
        BY <1>0, <2>1, <2>4, <3>4, <3>5 DEF Gently
      <3>7. ASSUME \A q \in Requests \ {r} : Stands(q)', NEW d \in Charges \ dead' PROVE Backed(d)'
        <4>1. d \in Charges \ dead /\ hold'[d] = hold[d]
          BY <2>1
        <4>2. CASE d = c
          <5>1. ~req[r].ok => hold[c] = "none"
            BY <2>2
          <5> QED BY <2>1, <3>2, <4>2, <5>1 DEF Backed
        <4>3. CASE d # c
          BY <3>2, <3>6, <3>7, <4>1, <4>3, BackedStep DEF Vouches
        <4> QED BY <4>2, <4>3
      <3>8. ASSUME NEW o \in Charges \ lost' PROVE Known(o)' /\ Failed(o)'
        <4>1. o \in Charges \ lost
          BY <2>1
        <4>2. \A d \in Charges : charge[d].status = "SUCCEEDED" /\ charge[d].key = o =>
                 charge'[d].status = "SUCCEEDED" /\ charge'[d].key = o
          BY <2>2, <3>2, <3>3
        <4>3. Carries(r, o) => Known(o)'
          <5>1. Carries(r, o) => o = c /\ charge'[c].status = "SUCCEEDED" /\ charge'[c].key = o
            BY <1>0, <2>2, <3>2 DEF Carries, RequestOK
          <5> QED BY <2>1, <5>1 DEF Known, Succeeded
        <4>4. Known(o)'
          BY <1>0, <2>1, <4>1, <4>2, <4>3, KnownStep
        <4>5. Failed(o)'
          <5>1. CASE o = c /\ ~req[r].ok
            <6>1. CASE Confirming(r)
              BY <2>2, <5>1, <6>1, <2>1 DEF Failed
            <6>2. CASE Deciding(r)
              <7>1. req[r].pay = c /\ c \notin lost
                BY <2>2, <3>1, <3>8, <4>1, <5>1, <6>2 DEF Charges, None
              <7>2. payment[c] \in {"aborted", "expired", "returned"}
                BY <2>2, <5>1, <6>2, <7>1
              <7> QED BY <2>1, <5>1, <7>2 DEF Failed
            <6> QED BY <2>2, <6>1, <6>2
          <5>2. CASE o # c \/ req[r].ok
            BY <2>1, <3>2, <4>1, <5>2 DEF Calm, Failed
          <5> QED BY <5>1, <5>2
        <4> QED BY <4>4, <4>5
      <3>9. (intent = "CANCELED" => ActiveCharges = {} /\ Succeeded = {})'
        BY <3>1
      <3> QED BY <2>1, <2>4, <3>6, <3>7, <3>8, <3>9, CalmStep
    <2> QED BY <2>5, <2>6
  <1>2. CASE Wait(r)
    <2>1. /\ req[r].at = "finish" /\ Goes(r, "waiting")
          /\ UNCHANGED <<intent, charge, hold, payment, notices, receipts, flagged, lost, dead>>
      BY <1>2 DEF Wait, rows, ledger, toss, hooks, history
    <2>2. req'[r] = [req[r] EXCEPT !.at = "waiting"]
      BY <1>0, <2>1, GoesMoves DEF Places
    <2>3. /\ req'[r].at = "waiting" /\ req'[r].op = req[r].op /\ req'[r].c = c
          /\ req'[r].pay = req[r].pay /\ req'[r].legs = req[r].legs /\ req'[r].ok = req[r].ok
      BY <1>0, <2>2 DEF Work
    <2>4. /\ (Confirming(r)' <=> Confirming(r)) /\ (Deciding(r)' <=> Deciding(r))
          /\ Stakes(r)' = Stakes(r) /\ req[r].op \notin Releasers
      BY <1>0, <2>1, <2>3 DEF Confirming, Deciding, Stakes, RequestOK, OfItsKind, Releasers
    <2>5. Confirming(r) => AttemptStands(r)'
      <3> SUFFICES ASSUME Confirming(r) PROVE AttemptStands(r)'
        OBVIOUS
      <3>1. AttemptStands(r) /\ \A q \in Requests : Confirming(q)' => Confirming(q)
        BY <1>0, <2>4 DEF Stands, Confirming
      <3> QED BY <2>1, <2>3, <3>1 DEF AttemptStands, Succeeded
    <2>6. Deciding(r) => DecisionStands(r)'
      BY <1>0, <2>1, <2>3 DEF Stands, DecisionStands
    <2>7. Stands(r)'
      BY <2>3, <2>4, <2>5, <2>6 DEF Stands
    <2>8. \A d : /\ Vouches(r, d) => Vouches(r, d)'
                 /\ Carries(r, d) => Carries(r, d)'
      BY <2>1, <2>3, <2>4 DEF Vouches, Carries, Settles
    <2> QED BY <1>0, <2>1, <2>4, <2>7, <2>8, QuietCalm
  \* While it captures a request rests on nothing.
  <1>3. ASSUME req[r].at \in {"capture", "legs"}, req'[r].at \in {"idle", "legs"},
               req'[r].op \in {req[r].op, "none"}
        PROVE  /\ Stands(r)' /\ ~Confirming(r)' /\ intent \notin Unpaid
               /\ \A d : ~Vouches(r, d) /\ ~Carries(r, d)
    <2>1. req'[r].op \notin Releasers
      BY <1>0, <1>3 DEF RequestOK, OfItsKind, Releasers
    <2> QED BY <1>0, <1>3, <2>1 DEF Stands, Confirming, Deciding, Vouches, Carries, Settles, RequestOK
  <1>4. CASE ListLegs(r)
    <2>1. /\ req[r].at = "capture"
          /\ UNCHANGED <<intent, charge, hold, payment, notices, receipts, flagged, lost, dead>>
      BY <1>4 DEF ListLegs, rows, ledger, toss, hooks, history
    <2>2. req'[r].at \in {"idle", "legs"} /\ req'[r].op \in {req[r].op, "none"}
      <3>1. CASE Ends(r)
        BY <1>0, <3>1, EndsMoves DEF IdleRequest
      <3>2. CASE req' = [req EXCEPT ![r].at = "legs", ![r].legs = Succeeded]
        BY <1>0, <3>2 DEF Work
      <3> QED BY <1>4, <3>1, <3>2 DEF ListLegs
    <2> QED BY <1>0, <1>3, <2>1, <2>2, QuietCalm
  <1>5. CASE CaptureLeg(r)
    <2> DEFINE e == Min(req[r].legs)
    <2>1. /\ req[r].at = "legs" /\ e \in req[r].legs
          /\ UNCHANGED <<intent, charge, payment, notices, receipts, flagged, lost, dead>>
          /\ hold' = [hold EXCEPT ![e] = IF @ = "AUTHORIZED" THEN "CAPTURED" ELSE @]
      BY <1>0, <1>5, MinIn DEF CaptureLeg, toss, hooks
    <2>2. req'[r].at = "legs" /\ req'[r].op = req[r].op
      BY <1>0, <1>5 DEF CaptureLeg, Work
    <2>3. charge[e].status # "CREATED"
      BY <1>0, <2>1 DEF ListOK
    <2>4. ASSUME NEW d \in Charges \ dead
          PROVE  hold'[d] = hold[d] \/ (hold[d] = "AUTHORIZED" /\ charge[d].status = "SUCCEEDED")
      <3>1. CASE d = e /\ hold[d] = "AUTHORIZED"
        BY <2>3, <3>1 DEF Calm, Backed
      <3>2. CASE ~(d = e /\ hold[d] = "AUTHORIZED")
        BY <2>1, <3>2 DEF Types, RowTypes
      <3> QED BY <3>1, <3>2
    <2> QED BY <1>0, <1>3, <2>1, <2>2, <2>4, QuietCalm
  <1>6. CASE Capture(r)
    <2>1. /\ req[r].at = "legs" /\ Ends(r) /\ intent' \in {intent, "CAPTURED", "PARTIALLY_CAPTURED"}
          /\ UNCHANGED <<charge, hold, payment, notices, receipts, flagged, lost, dead>>
      BY <1>6 DEF Capture, rows, ledger, toss, hooks, history
    <2>2. req'[r].at = "idle" /\ req'[r].op = "none"
      BY <1>0, <2>1, EndsMoves DEF IdleRequest
    <2>3. \A q \in Requests \ {r} :
             Confirming(q) => intent' = intent \/ (req[q].at = "acting" /\ intent' \notin Unpaid)
      <3>1. intent \notin Unpaid /\ intent' \notin Unpaid
        BY <1>3, <2>1, <2>2 DEF Unpaid
      <3> QED BY <3>1, AttemptHas DEF Unpaid
    <2> QED BY <1>0, <1>3, <2>1, <2>2, <2>3, QuietCalm
  <1> QED BY <1>1, <1>2, <1>4, <1>5, <1>6 DEF Completion

LEMMA DecidingCalm ==
  ASSUME Types, Written, Calm, ~raced', NEW r \in Requests, Stage(r) \/ Pay(r) \/ Query(r)
  PROVE  Calm'
  <1> DEFINE c == req[r].c
             o == req[r].pay
  <1>0. /\ req' \in [Requests -> Work] /\ \A q \in Requests \ {r} : req'[q] = req[q]
        /\ req \in [Requests -> Work] /\ req[r] \in Work /\ charge \in [Charges -> Charged]
        /\ payment \in [Charges -> {"none", "ready"} \cup Settled]
        /\ RequestOK(r) /\ Stands(r) /\ \A d \in Charges : ChargeOK(d)
    BY RequestMoves DEF Step, Types, RowTypes, Calm, Written
  <1>1. /\ req[r].at \in {"stage", "pay", "query"} /\ Deciding(r) /\ ~Confirming(r)
        /\ c \in Charges /\ o \in Charges /\ DecisionStands(r) /\ req[r].op \notin Releasers
        /\ \A d : ~Vouches(r, d) /\ ~Carries(r, d)
    <2>1. req[r].at \in {"stage", "pay", "query"}
      BY DEF Stage, Pay, Query
    <2>2. req[r].op \in {"approve", "webhook"} /\ Deciding(r) /\ c \in Charges /\ o \in Charges
      BY <1>0, <2>1, DecisionFacts DEF RequestOK, OfItsKind, Deciding
    <2> QED BY <1>0, <2>1, <2>2 DEF Confirming, Stands, Vouches, Carries, Settles, Releasers
  \* No charge and no hold is written, and Toss may take the money of the order.
  <1>2. ASSUME UNCHANGED <<intent, charge, hold, lost, dead>> \/
                 (UNCHANGED <<intent, charge, hold, dead>> /\ lost \subseteq lost'),
               ~Confirming(r)', Stands(r)',
               \A d \in Charges : \/ payment'[d] = payment[d]
                                  \/ payment[d] = "ready" /\ payment'[d] \in Settled,
               \A d \in Charges \ lost' : Known(d)'
        PROVE  Calm'
    <2>1. \A d \in Charges : Moved(r, d)
      BY <1>2 DEF Moved
    <2>2. \A d \in Charges : payment[d] \in Settled /\ payment'[d] = "done" => payment[d] = "done"
      BY <1>2 DEF Settled
    <2>3. Gently(r)
      BY <1>0, <1>2, <2>1, <2>2 DEF Gently
    <2>4. ASSUME \A q \in Requests \ {r} : Stands(q)', NEW d \in Charges \ dead' PROVE Backed(d)'
      <3>1. d \in Charges \ dead /\ hold'[d] = hold[d] /\ charge'[d] = charge[d] /\ ~Vouches(r, d)
        BY <1>1, <1>2
      <3> QED BY <2>3, <2>4, <3>1, BackedStep
    <2>5. ASSUME NEW d \in Charges \ lost' PROVE Failed(d)'
      <3>1. d \in Charges \ lost /\ charge'[d] = charge[d]
        BY <1>2
      <3>2. charge[d].status = "FAILED" => payment[d] \notin {"ready", "done"}
        BY <3>1 DEF Calm, Failed
      <3> QED BY <1>2, <3>1, <3>2 DEF Failed
    <2>6. (intent = "CANCELED" => ActiveCharges = {} /\ Succeeded = {})'
      BY <1>2 DEF Calm, ActiveCharges, Active, Succeeded
    <2> QED BY <1>2, <2>3, <2>4, <2>5, <2>6, CalmStep
  <1>3. CASE Stage(r)
    <2>1. /\ Ends(r) /\ UNCHANGED <<intent, hold, payment, notices, receipts, flagged, lost, dead>>
          /\ \/ charge' = charge
             \/ /\ charge[c].status = "REQUIRES_ACTION"
                /\ charge' = [charge EXCEPT ![c].status = "REQUIRES_ACTION", ![c].staged = o]
      BY <1>3 DEF Stage, ledger, toss, hooks
    <2>2. \A d \in Charges : charge'[d].status = charge[d].status /\ charge'[d].key = charge[d].key
      BY <1>0, <1>1, <2>1 DEF Charged
    <2> QED BY <1>0, <1>1, <2>1, <2>2, EndsMoves, RestStands, QuietCalm
  <1>4. CASE Pay(r)
    <2>1. /\ UNCHANGED <<intent, charge, hold, receipts, flagged, dead>> /\ lost \subseteq lost'
          /\ req[r].at = "pay" /\ notices \subseteq notices'
      BY <1>4 DEF Pay, rows, ledger, hooks, toss
    <2>2. PICK ok \in BOOLEAN : /\ req' = [req EXCEPT ![r].at = "finish", ![r].ok = ok]
                                /\ \/ payment' = payment
                                   \/ /\ payment[o] = "ready" /\ o \in notices'
                                      /\ payment' = [payment EXCEPT ![o] = "done"]
                                   \/ /\ payment[o] = "ready"
                                      /\ payment' = [payment EXCEPT ![o] = "aborted"]
      BY <1>4 DEF Pay, toss
    <2>3. req'[r] = [req[r] EXCEPT !.at = "finish", !.ok = ok]
      BY <1>0, <2>2, SettlesMoves
    <2>4. /\ req'[r].at = "finish" /\ req'[r].op = req[r].op /\ req'[r].c = c /\ req'[r].pay = o
      BY <1>0, <2>3 DEF Work
    <2>5. DecisionStands(r)'
      BY <1>1, <2>1, <2>4 DEF DecisionStands
    <2>6. ~Confirming(r)' /\ Stands(r)'
      BY <1>1, <2>1, <2>4, <2>5 DEF Confirming, Deciding, Stands
    <2>7. \A d \in Charges : \/ payment'[d] = payment[d]
                             \/ /\ d = o /\ payment[d] = "ready" /\ payment'[d] \in Settled
                                /\ payment'[d] = "done" => o \in notices'
      BY <1>0, <1>1, <2>2 DEF Settled
    <2>8. ASSUME NEW d \in Charges \ lost' PROVE Known(d)'
      <3>1. CASE payment'[d] = "done" /\ payment[d] # "done"
        <4>1. d = o /\ payment[o] = "ready" /\ o \in notices'
          BY <2>7, <3>1
        <4>2. <<o, "done">> \notin receipts
          BY <1>0, <1>1, <4>1 DEF ChargeOK
        <4> QED BY <2>1, <4>1, <4>2 DEF Known
      <3>2. CASE payment'[d] = "done" => payment[d] = "done"
        <4>1. d \in Charges \ lost
          BY <2>1
        <4> HIDE DEF o
        <4> QED BY <1>0, <1>1, <2>1, <3>2, <4>1, KnownStep
      <3> QED BY <3>1, <3>2
    <2> QED BY <1>2, <2>1, <2>6, <2>7, <2>8
  <1>5. CASE Query(r)
    <2> DEFINE n == <<o, payment[o]>>
    <2>1. /\ UNCHANGED <<intent, charge, hold, lost, dead, payment>> /\ req[r].at = "query"
          /\ notices' = notices \ {o} /\ receipts' = receipts \cup {n} /\ flagged \subseteq flagged'
      BY <1>5 DEF Query, rows, ledger, history
    <2>2. o = c /\ payment[o] \in Settled
      BY <1>0, <1>1, <2>1 DEF RequestOK, OfItsKind
    <2>3. /\ req[r].was = "REQUIRES_ACTION" => charge[c].status \in {"REQUIRES_ACTION", "SUCCEEDED"}
          /\ req[r].was = "SUCCEEDED" => charge[c].status = "SUCCEEDED"
          /\ req[r].was = "FAILED" /\ payment[c] = "done" => c \in lost
          /\ req[r].was \notin {"none", "CREATED"} /\ req[r].was \in Statuses
      BY <1>0, <1>1, <2>1 DEF DecisionStands, Work
    \* Every other order is where it was.
    <2>4. ASSUME NEW d \in Charges \ lost', d # o \/ n \in receipts PROVE Known(d)'
      <3>1. d \in Charges \ lost /\ (d \in notices /\ <<d, "done">> \notin receipts /\ payment[d] = "done" =>
                d \in notices' /\ <<d, "done">> \notin receipts')
        BY <2>1, <2>4
      <3> HIDE DEF o, n
      <3> QED BY <1>0, <1>1, <2>1, <3>1, KnownStep
    <2>5. CASE n \notin receipts /\ req[r].was = "REQUIRES_ACTION"
      <3>1. req' = [req EXCEPT ![r].at = "finish", ![r].ok = (payment[o] = "done")]
        BY <1>5, <2>2, <2>5 DEF Query, Settled
      <3>2. req'[r] = [req[r] EXCEPT !.at = "finish", !.ok = (payment[o] = "done")]
        BY <1>0, <3>1, SettlesMoves
      <3>3. /\ req'[r].at = "finish" /\ req'[r].op = req[r].op /\ req'[r].c = c /\ req'[r].pay = o
            /\ req'[r].ok = (payment[o] = "done")
        BY <1>0, <3>2 DEF Work
      <3>4. DecisionStands(r)'
        BY <2>1, <2>3, <2>5, <3>3 DEF DecisionStands
      <3>5. ~Confirming(r)' /\ Stands(r)'
        BY <1>1, <3>3, <3>4 DEF Confirming, Deciding, Stands
      <3>6. ASSUME NEW d \in Charges \ lost' PROVE Known(d)'
        <4>1. CASE d = o /\ payment[o] = "done"
          <5>1. req[r].op = "webhook"
            BY <1>0, <2>1 DEF RequestOK, OfItsKind
          <5>2. Carries(r, d)'
            BY <3>3, <4>1, <5>1 DEF Carries, Settles
          <5> QED BY <4>1, <5>2 DEF Known, Carries
        <4>2. CASE d = o /\ payment[o] # "done"
          BY <2>1, <4>2 DEF Known
        <4>3. CASE d # o
          BY <2>4, <4>3
        <4> QED BY <4>1, <4>2, <4>3
      <3> QED BY <1>2, <2>1, <3>5, <3>6
    <2>6. CASE ~(n \notin receipts /\ req[r].was = "REQUIRES_ACTION")
      <3>1. /\ Ends(r)
            /\ n \notin receipts /\ payment[o] = "done" /\ req[r].was = "CANCELED" => o \in flagged'
        BY <1>5, <2>6 DEF Query
      <3>2. ASSUME NEW d \in Charges \ lost' PROVE Known(d)'
        <4>1. CASE d = o /\ n \notin receipts /\ payment[o] = "done"
          <5>1. req[r].was \in {"SUCCEEDED", "CANCELED"}
            BY <2>1, <2>2, <2>3, <2>6, <3>2, <4>1 DEF Statuses
          <5>2. CASE req[r].was = "CANCELED"
            BY <3>1, <4>1, <5>2 DEF Known
          <5>3. CASE req[r].was = "SUCCEEDED"
            <6>1. ChargeOK(c) /\ charge[c].status = "SUCCEEDED" /\ c \notin lost
              BY <1>0, <1>1, <2>1, <2>2, <2>3, <3>2, <4>1, <5>3
            <6>2. charge[c].key = o
              BY <2>2, <4>1, <6>1 DEF ChargeOK
            <6>3. \E e \in Succeeded' : charge'[e].key = o
              BY <1>1, <2>1, <6>1, <6>2 DEF Succeeded
            <6> QED BY <4>1, <6>3 DEF Known
          <5> QED BY <5>1, <5>2, <5>3
        <4>2. CASE d = o /\ payment[o] # "done"
          BY <2>1, <4>2 DEF Known
        <4>3. CASE d # o \/ n \in receipts
          BY <2>4, <4>3
        <4> QED BY <4>1, <4>2, <4>3
      <3>3. Stands(r)' /\ ~Confirming(r)'
        BY <1>0, <3>1, EndsMoves, RestStands
      <3> QED BY <1>2, <2>1, <3>2, <3>3
    <2> QED BY <2>5, <2>6
  <1> QED BY <1>3, <1>4, <1>5

LEMMA ReleaseCalm ==
  ASSUME Types, Written, Calm, ~raced', NEW r \in Requests, Release(r)
  PROVE  Calm'
  <1> DEFINE c == req[r].c
             legs == req[r].legs
  <1>0. /\ req' \in [Requests -> Work] /\ \A q \in Requests \ {r} : req'[q] = req[q]
        /\ req \in [Requests -> Work] /\ req[r] \in Work /\ charge \in [Charges -> Charged]
        /\ hold \in [Charges -> {"none", "AUTHORIZED", "CAPTURED", "CANCELLED"}]
        /\ payment \in [Charges -> {"none", "ready"} \cup Settled]
        /\ RequestOK(r) /\ Stands(r) /\ legs \subseteq Charges
        /\ \A d \in Charges : ChargeOK(d)
    BY RequestMoves DEF Step, Types, RowTypes, Calm, Written, Work
  <1>1. /\ req[r].at \in {"release", "drop", "list", "undo"} /\ req[r].op \in Releasers
        /\ ReleaseStands(r) /\ ~Confirming(r)
        /\ \A d : ~Vouches(r, d) /\ ~Carries(r, d)
    <2>1. req[r].at \in {"release", "drop", "list", "undo"}
      BY DEF Release, FindActive, DropActive, ListSucceeded, UndoLeg, CloseIntent
    <2>2. req[r].op \in Releasers
      BY <1>0, <2>1 DEF RequestOK, OfItsKind
    <2> QED BY <1>0, <2>1, <2>2 DEF Stands, Confirming, Vouches, Carries, Settles, Releasers
  \* An attempt rests on a charge that is active or has succeeded.
  <1>2. ASSUME NEW q \in Requests, Confirming(q)
        PROVE  /\ q # r /\ req[q].c \in Charges /\ Stakes(q) \subseteq Charges
               /\ req[q].c \in ActiveCharges \/ req[q].c \in Succeeded
               /\ \A d \in Stakes(q) : InHand(q, d)
    <2>1. req[q].c \in Charges /\ req[q].legs \subseteq Charges
      BY <1>2 DEF Types, RequestOK, Work
    <2>2. AttemptStands(q) /\ q # r /\ req[q].at # "idle"
      BY <1>1, <1>2, AttemptHas DEF Confirming
    <2> QED BY <2>1, <2>2 DEF AttemptStands, ActiveCharges, Active, Succeeded, Stakes, InHand
  \* The request alone moves; it is still none that attempts or decides.
  <1>3. ASSUME req'[r].op \in {"none", "abandon", "cancel"}
        PROVE  /\ ~Confirming(r)' /\ ~Deciding(r)'
               /\ \A q \in Requests : Confirming(q)' => Confirming(q) /\ Stakes(q)' = Stakes(q)
    BY <1>0, <1>3 DEF Confirming, Deciding, Stakes
  <1>4. CASE FindActive(r)
    <2>1. /\ UNCHANGED <<intent, charge, hold, payment, notices, receipts, flagged, lost, dead>>
          /\ req[r].at = "release"
      BY <1>4 DEF FindActive, rows, ledger, toss, hooks, history
    <2>2. /\ req'[r].op = req[r].op
          /\ \/ req'[r].at = "drop" /\ req'[r].c \in ActiveCharges
             \/ req'[r].at = "list" /\ ActiveCharges = {}
      <3>1. CASE \E d \in ActiveCharges : req' = [req EXCEPT ![r].at = "drop", ![r].c = d]
        BY <1>0, <3>1 DEF Work
      <3>2. CASE ActiveCharges = {} /\ Goes(r, "list")
        BY <1>0, <3>2, GoesMoves DEF Work, Places
      <3> QED BY <1>4, <3>1, <3>2 DEF FindActive
    <2>3. /\ ~Confirming(r)' /\ ~Deciding(r)'
          /\ \A q \in Requests : Confirming(q)' => Confirming(q) /\ Stakes(q)' = Stakes(q)
      BY <1>1, <1>3, <2>2 DEF Releasers
    <2>4. ReleaseStands(r)'
      <3>1. req'[r].at = "drop" => (Active(req[r].c))'
        BY <2>1, <2>2 DEF ActiveCharges, Active
      <3>2. ASSUME req'[r].at = "list", NEW q \in Requests, Confirming(q)'
            PROVE  (Stakes(q) \cap Succeeded # {})'
        <4>1. req[q].c \in Succeeded /\ req[q].c \in Stakes(q) /\ Stakes(q)' = Stakes(q)
          BY <1>2, <2>2, <2>3, <3>2 DEF Stakes
        <4>2. Succeeded' = Succeeded
          BY <2>1 DEF Succeeded
        <4> QED BY <4>1, <4>2
      <3>3. req'[r].at = "list" => ActiveCharges' = {}
        BY <2>1, <2>2 DEF ActiveCharges, Active
      <3> QED BY <2>2, <3>1, <3>2, <3>3 DEF ReleaseStands
    <2>5. Stands(r)'
      BY <2>3, <2>4 DEF Stands
    <2> QED BY <1>0, <1>1, <2>1, <2>3, <2>5, QuietCalm
  <1>5. CASE ListSucceeded(r)
    <2>1. /\ UNCHANGED <<intent, charge, hold, payment, notices, receipts, flagged, lost, dead>>
          /\ req[r].at = "list"
      BY <1>5 DEF ListSucceeded, rows, ledger, toss, hooks, history
    <2>2. req'[r].op = req[r].op /\ req'[r].at = "undo" /\ req'[r].legs = Succeeded
      BY <1>0, <1>5 DEF ListSucceeded, Work
    <2>3. /\ ~Confirming(r)' /\ ~Deciding(r)'
          /\ \A q \in Requests : Confirming(q)' => Confirming(q) /\ Stakes(q)' = Stakes(q)
      BY <1>1, <1>3, <2>2 DEF Releasers
    <2>4. ReleaseStands(r)'
      <3>1. \A q \in Requests : Confirming(q)' => (Stakes(q) \cap req[r].legs # {})'
        BY <1>1, <2>1, <2>2, <2>3 DEF ReleaseStands
      <3>2. req'[r].op = "cancel" => ActiveCharges' = {} /\ Succeeded' = Succeeded
        BY <1>1, <2>1, <2>2 DEF ReleaseStands, ActiveCharges, Active, Succeeded
      <3> QED BY <2>2, <3>1, <3>2 DEF ReleaseStands
    <2>5. Stands(r)'
      BY <2>3, <2>4 DEF Stands
    <2> QED BY <1>0, <1>1, <2>1, <2>3, <2>5, QuietCalm
  \* A charge that no other request has in hand is given up, with its hold or its payment.
  <1>6. ASSUME NEW e \in Charges, charge' = Status({e}, "CANCELED"), Releases(r, {e}),
               UNCHANGED <<intent, receipts, flagged, lost, dead>>, notices \subseteq notices',
               e \in dead \/ hold'[e] \notin {"AUTHORIZED", "CAPTURED"},
               \A d \in Charges \ {e} : hold'[d] = hold[d],
               \A d \in Charges : \/ payment'[d] = payment[d]
                                  \/ payment[d] = "done" /\ payment'[d] = "returned",
               \A d \in Charges \ lost : charge[e].status = "SUCCEEDED" /\ charge[e].key = d =>
                                           payment'[d] # "done",
               req'[r].op = req[r].op, ReleaseStands(r)'
        PROVE  Calm'
    <2>1. \A d \in Charges : /\ charge'[d].status = IF d = e THEN "CANCELED" ELSE charge[d].status
                             /\ charge'[d].key = charge[d].key
      BY <1>0, <1>6 DEF Status, Charged
    <2>2. \A q \in Requests \ {r} : ~InHand(q, e)
      BY <1>6, Unraced
    <2>3. ~Confirming(r)' /\ Stands(r)'
      BY <1>1, <1>3, <1>6 DEF Releasers, Stands
    <2>4. \A d \in Charges : Moved(r, d)
      BY <2>1, <2>2 DEF Moved
    <2>5. Gently(r)
      BY <1>0, <1>6, <2>3, <2>4 DEF Gently
    <2>6. ASSUME \A q \in Requests \ {r} : Stands(q)', NEW d \in Charges \ dead' PROVE Backed(d)'
      <3>1. d \in Charges \ dead
        BY <1>6
      <3>2. CASE d = e
        BY <1>6, <3>1, <3>2 DEF Backed
      <3>3. CASE d # e
        BY <1>1, <1>6, <2>1, <2>5, <2>6, <3>1, <3>3, BackedStep
      <3> QED BY <3>2, <3>3
    <2>7. ASSUME NEW d \in Charges \ lost' PROVE Known(d)' /\ Failed(d)'
      <3>1. d \in Charges \ lost
        BY <1>6
      <3>2. payment'[d] = "done" =>
              \A f \in Charges : charge[f].status = "SUCCEEDED" /\ charge[f].key = d =>
                charge'[f].status = "SUCCEEDED" /\ charge'[f].key = d
        BY <1>6, <2>1, <3>1
      <3>3. payment'[d] = "done" => payment[d] = "done"
        BY <1>6
      <3>4. Known(d)'
        BY <1>0, <1>1, <1>6, <3>1, <3>2, <3>3, KnownStep
      <3>5. Failed(d)'
        BY <1>6, <2>1, <3>1 DEF Calm, Failed
      <3> QED BY <3>4, <3>5
    <2>8. (intent = "CANCELED" => ActiveCharges = {} /\ Succeeded = {})'
      BY <1>6, <2>1 DEF Calm, ActiveCharges, Active, Succeeded
    <2> QED BY <1>6, <2>3, <2>5, <2>6, <2>7, <2>8, CalmStep
  <1>7. CASE DropActive(r)
    <2>1. /\ req[r].at = "drop" /\ charge' = Status({c}, "CANCELED") /\ Releases(r, {c})
          /\ UNCHANGED <<intent, hold, payment, notices, receipts, flagged, lost, dead>>
      BY <1>7 DEF DropActive, ledger, toss, hooks
    <2>2. c \in Charges /\ Active(c) /\ c \in ActiveCharges
      BY <1>0, <1>1, <2>1 DEF RequestOK, ReleaseStands, ActiveCharges
    <2>3. req'[r].op = req[r].op /\ req'[r].at = "list"
      BY <1>0, <1>7 DEF DropActive, Work
    <2>4. \A d \in Charges : charge'[d].status = IF d = c THEN "CANCELED" ELSE charge[d].status
      BY <1>0, <2>1 DEF Status, Charged
    <2>5. \A d \in ActiveCharges : d = c
      BY <2>2 DEF Written, OneActive
    <2>6. \A q \in Requests \ {r} : ~InHand(q, c)
      BY <2>1, Unraced
    <2>7. ReleaseStands(r)'
      <3>1. ActiveCharges' = {} /\ Succeeded' = Succeeded
        BY <2>2, <2>4, <2>5 DEF ActiveCharges, Active, Succeeded
      <3>2. ASSUME NEW q \in Requests, Confirming(q)' PROVE (Stakes(q) \cap Succeeded # {})'
        <4>1. Confirming(q) /\ Stakes(q)' = Stakes(q)
          BY <1>1, <1>3, <2>3, <3>2 DEF Releasers
        <4>2. q # r /\ req[q].c \in Stakes(q) /\ req[q].c # c
          BY <1>2, <2>6, <4>1 DEF Stakes
        <4>3. req[q].c \in Succeeded
          BY <1>2, <2>5, <4>1, <4>2
        <4> QED BY <3>1, <4>1, <4>2, <4>3
      <3> QED BY <2>3, <3>1, <3>2 DEF ReleaseStands
    \* Points held for it would be in the hands of the attempt that made it.
    <2>8. c \in dead \/ hold[c] \notin {"AUTHORIZED", "CAPTURED"}
      <3> SUFFICES ASSUME c \notin dead, hold[c] \in {"AUTHORIZED", "CAPTURED"} PROVE FALSE
        OBVIOUS
      <3>1. PICK q \in Requests : Confirming(q) /\ req[q].c = c
        BY <2>2 DEF Calm, Backed, Active
      <3>2. q # r /\ InHand(q, c)
        BY <1>2, <3>1 DEF Stakes
      <3> QED BY <2>6, <3>2
    <2>9. charge[c].status # "SUCCEEDED"
      BY <2>2 DEF Active
    <2> HIDE DEF c
    <2> QED BY <1>6, <2>1, <2>2, <2>3, <2>7, <2>8, <2>9
  <1>8. CASE UndoLeg(r)
    <2> DEFINE e == Min(legs)
               k == charge[e].key
    <2>1. /\ req[r].at = "undo" /\ e \in legs /\ e \in Charges /\ k \in Charges \cup {None}
          /\ UNCHANGED <<intent, receipts, flagged, lost, dead>>
      BY <1>0, <1>8, MinIn DEF UndoLeg, Charged, hooks
    <2>2. CASE Ends(r) /\ UNCHANGED <<charge, hold, toss>>
      BY <1>0, <1>1, <2>1, <2>2, EndsMoves, RestStands, QuietCalm DEF toss
    <2>3. CASE /\ \/ /\ charge[e].method = "POINTS" /\ hold[e] \in {"AUTHORIZED", "CANCELLED"}
                     /\ Unheld({e}) /\ UNCHANGED toss
                  \/ /\ k # None /\ charge[e].method # "POINTS"
                     /\ payment' = [payment EXCEPT ![k] = "returned"] /\ payment[k] = "done"
                     /\ notices' = notices \cup {k} /\ UNCHANGED hold
               /\ charge' = Status({e}, "CANCELED") /\ Releases(r, {e})
               /\ req' = [req EXCEPT ![r].legs = @ \ {e}, ![r].got = @ \cup {e}]
      <3>1. \A q \in Requests \ {r} : ~InHand(q, e)
        BY <2>3, Unraced
      <3>2. req'[r].op = req[r].op /\ req'[r].at = "undo" /\ req'[r].legs = legs \ {e}
        BY <1>0, <2>1, <2>3 DEF Work
      <3>3. \A d \in Charges : charge'[d].status = IF d = e THEN "CANCELED" ELSE charge[d].status
        BY <1>0, <2>3 DEF Status, Charged
      <3>4. ReleaseStands(r)'
        <4>1. ASSUME NEW q \in Requests, Confirming(q)' PROVE (Stakes(q) \cap req[r].legs # {})'
          <5>1. Confirming(q) /\ Stakes(q)' = Stakes(q)
            BY <1>1, <1>3, <3>2, <4>1 DEF Releasers
          <5>2. e \notin Stakes(q) /\ Stakes(q) \cap legs # {}
            BY <1>1, <1>2, <2>1, <3>1, <5>1 DEF ReleaseStands
          <5> QED BY <3>2, <5>1, <5>2
        <4>2. req'[r].op = "cancel" => ActiveCharges' = {} /\ Succeeded' \subseteq req'[r].legs
          BY <1>1, <2>1, <3>2, <3>3 DEF ReleaseStands, ActiveCharges, Active, Succeeded
        <4> QED BY <3>2, <4>1, <4>2 DEF ReleaseStands
      <3>5. /\ hold'[e] \notin {"AUTHORIZED", "CAPTURED"}
            /\ \A d \in Charges \ {e} : hold'[d] = hold[d]
        <4>1. CASE charge[e].method = "POINTS"
          <5>1. hold[e] \in {"AUTHORIZED", "CANCELLED"} /\ Unheld({e})
            BY <2>3, <4>1
          <5> HIDE DEF e
          <5> QED BY <2>1, <5>1 DEF Unheld
        <4>2. CASE charge[e].method # "POINTS"
          <5>1. ChargeOK(e) /\ hold' = hold
            BY <1>0, <2>1, <2>3, <4>2
          <5>2. hold[e] = "none"
            BY <4>2, <5>1 DEF ChargeOK
          <5> HIDE DEF e
          <5> QED BY <5>1, <5>2
        <4> QED BY <4>1, <4>2
      <3>6. /\ \A d \in Charges : \/ payment'[d] = payment[d]
                                  \/ payment[d] = "done" /\ payment'[d] = "returned"
            /\ notices \subseteq notices'
        BY <1>0, <2>1, <2>3 DEF toss
      <3>7. ASSUME NEW d \in Charges, k = d PROVE payment'[d] # "done"
        <4>1. charge[e].method # "POINTS"
          <5>1. ChargeOK(e) /\ charge[e].key # None
            BY <1>0, <2>1, <3>7 DEF Charges, None
          <5> HIDE DEF e
          <5> QED BY <5>1 DEF ChargeOK
        <4> QED BY <1>0, <2>3, <3>7, <4>1
      <3> HIDE DEF e
      <3> QED BY <1>6, <2>1, <2>3, <3>2, <3>4, <3>5, <3>6, <3>7
    <2> QED BY <1>8, <2>2, <2>3 DEF UndoLeg
  <1>9. CASE CloseIntent(r)
    <2>1. /\ Ends(r) /\ req[r].at = "undo" /\ legs = {}
          /\ UNCHANGED <<charge, hold, payment, notices, receipts, flagged, lost, dead>>
          /\ intent' = "CANCELED" => intent = "CANCELED" \/ req[r].op # "abandon"
      BY <1>9 DEF CloseIntent, rows, ledger, toss, hooks
    <2>2. \A q \in Requests : ~Confirming(q)
      BY <1>1, <2>1 DEF ReleaseStands
    <2>3. req[r].op = "cancel" => ActiveCharges = {} /\ Succeeded = {}
      BY <1>1, <2>1 DEF ReleaseStands
    <2> QED BY <1>0, <1>1, <2>1, <2>2, <2>3, EndsMoves, RestStands, QuietCalm DEF Releasers
  <1> QED BY <1>4, <1>5, <1>7, <1>8, <1>9 DEF Release

\* A request that dies takes along what it vouched for and what it carried.
LEMMA DiesCalm ==
  ASSUME Types, Written, Calm, NEW r \in Requests, Dies(r)
  PROVE  Calm'
  <1>0. /\ req' \in [Requests -> Work] /\ \A q \in Requests \ {r} : req'[q] = req[q]
        /\ req \in [Requests -> Work] /\ RequestOK(r)
    BY RequestMoves DEF Types
  <1>1. /\ Ends(r) /\ UNCHANGED <<intent, charge, hold, payment, notices, receipts, flagged>>
        /\ dead' = dead \cup ({req[r].c} \ {None}) \cup req[r].legs /\ lost \subseteq lost'
        /\ req[r].op = "webhook" /\ req[r].at # "query" => req[r].pay \in lost'
    BY DEF Dies, rows, ledger, toss, hooks
  <1>2. \A c \in Charges \ dead' : ~Vouches(r, c)
    BY <1>1 DEF Vouches, Charges, None
  <1>3. \A o \in Charges \ lost' : ~Carries(r, o)
    BY <1>1 DEF Carries, Settles
  <1> QED BY <1>0, <1>1, <1>2, <1>3, EndsMoves, RestStands, QuietCalm

LEMMA ExpiryCalm ==
  ASSUME Types, Calm, NEW o \in Charges, WindowExpires(o)
  PROVE  Calm'
  <1>1. /\ UNCHANGED <<intent, charge, hold, receipts, flagged, req, lost, dead>>
        /\ notices \subseteq notices'
        /\ \A d \in Charges : \/ payment'[d] = payment[d]
                              \/ payment[d] = "ready" /\ payment'[d] = "expired"
    BY DEF WindowExpires, rows, ledger, hooks, history, Types, RowTypes
  <1>2. /\ ActiveCharges' = ActiveCharges /\ Succeeded' = Succeeded
        /\ \A q \in Requests : /\ Confirming(q)' <=> Confirming(q)
                               /\ Deciding(q)' <=> Deciding(q)
                               /\ Settles(q)' <=> Settles(q)
                               /\ Stakes(q)' = Stakes(q)
    BY <1>1 DEF ActiveCharges, Active, Succeeded, Confirming, Deciding, Settles, Stakes
  <1>3. ASSUME NEW r \in Requests PROVE Stands(r)'
    <2>1. Stands(r)
      BY DEF Calm
    <2>2. Confirming(r) => AttemptStands(r)'
      BY <1>1, <1>2, <2>1 DEF Stands, AttemptStands
    <2>3. Deciding(r) => DecisionStands(r)'
      <3>1. Deciding(r) => req[r].c \in Charges
        BY DEF Types, RequestOK
      <3> QED BY <1>1, <2>1, <3>1 DEF Stands, DecisionStands
    <2>4. req[r].op \in Releasers => ReleaseStands(r)'
      BY <1>1, <1>2, <2>1 DEF Stands, ReleaseStands, Active
    <2> QED BY <1>1, <1>2, <2>2, <2>3, <2>4 DEF Stands
  <1>4. ASSUME NEW c \in Charges \ dead' PROVE Backed(c)'
    BY <1>1, <1>2 DEF Calm, Backed
  <1>5. ASSUME NEW c \in Charges \ lost' PROVE Known(c)' /\ Failed(c)'
    <2>1. Known(c) /\ Failed(c)
      BY <1>1 DEF Calm
    <2>2. Known(c)'
      BY <1>1, <1>2, <2>1 DEF Known
    <2>3. Failed(c)'
      BY <1>1, <2>1 DEF Failed
    <2> QED BY <2>2, <2>3
  <1> QED BY <1>1, <1>2, <1>3, <1>4, <1>5 DEF Calm

LEMMA InitCalm == Init => Calm
  BY DEF Init, Calm, Stands, Confirming, Deciding, Releasers, IdleRequest, Backed, Known,
         Failed, NoCharge, Succeeded

LEMMA NextCalm ==
  ASSUME Types, Written, Redeemed, Calm, ~raced', Next
  PROVE  Calm'
  <1>1. ASSUME NEW r \in Requests, Step(r) PROVE Calm'
    BY <1>1, ConfirmationCalm, DecidingCalm, CompletionCalm, ReleaseCalm DEF Step
  <1> QED BY <1>1, StartsCalm, DiesCalm, ExpiryCalm DEF Next

-----------------------------------------------------------------------------

\* The inductive invariant: its parts Types, Written and Redeemed hold whatever is
\* raced; Calm as long as nothing is.
THEOREM Invariance == Spec => []IInv
  <1>1. Init => IInv
    BY InitTypes, InitWritten, InitCalm DEF Init, IInv, Redeemed
  <1>2. IInv /\ [Next]_vars => IInv'
    <2> SUFFICES ASSUME IInv, [Next]_vars PROVE IInv'
      OBVIOUS
    <2>1. CASE Next
      <3>1. Types' /\ Written' /\ Redeemed' /\ (raced => raced')
        BY <2>1, NextTypes, NextWritten, NextKeeps DEF IInv
      <3>2. ~raced' => Calm'
        BY <2>1, <3>1, NextCalm DEF IInv
      <3> QED BY <3>1, <3>2 DEF IInv
    <2>2. CASE UNCHANGED vars
      <3>1. UNCHANGED <<intent, deferred, charge, made, captured, hold, payment, notices, receipts,
                        flagged, req, lock, raced, dead, lost, faults, starts>>
        BY <2>2 DEF vars, rows, ledger, toss, hooks, history
      <3>2. Types'
        BY <3>1 DEF IInv, Types, RowTypes, OtherTypes, RequestOK, OfItsKind, Confirming, Deciding,
                    Owned, Composite
      <3>3. Written'
        <4>1. (\A c \in Charges : ChargeOK(c))' /\ OneActive'
          BY <3>1 DEF IInv, Written, ChargeOK, OneActive, ActiveCharges, Active
        <4>2. ASSUME NEW r \in Requests
              PROVE  /\ (Confirming(r)' <=> Confirming(r)) /\ (Deciding(r)' <=> Deciding(r))
                     /\ (Settles(r)' <=> Settles(r)) /\ (Composite(r)' <=> Composite(r))
                     /\ Owned(r)' = Owned(r)
          BY <3>1 DEF Confirming, Deciding, Settles, Owned, Composite
        <4>3. ASSUME NEW r \in Requests, Confirming(r)' PROVE Apart(r)' /\ AttemptOK(r)'
          <5>1. Apart(r) /\ AttemptOK(r)
            BY <4>2, <4>3 DEF IInv, Written
          <5> QED BY <3>1, <4>2, <5>1 DEF Apart, AttemptOK
        <4>4. ASSUME NEW r \in Requests PROVE (Deciding(r)' => DecisionOK(r)') /\ ListOK(r)'
          BY <3>1, <4>2 DEF IInv, Written, DecisionOK, ListOK
        <4> QED BY <4>1, <4>3, <4>4 DEF Written
      <3>4. Redeemed'
        BY <3>1 DEF IInv, Redeemed
      <3>5. ~raced' => Calm'
        BY <3>1 DEF IInv, Calm, Stands, AttemptStands, DecisionStands, ReleaseStands, Backed, Known,
                    Failed, Confirming, Deciding, Settles, Stakes, ActiveCharges, Active, Succeeded
      <3> QED BY <3>2, <3>3, <3>4, <3>5 DEF IInv
    <2> QED BY <2>1, <2>2
  <1> QED BY <1>1, <1>2, PTL DEF Spec

\* The intent, its charges, the ledger and Toss keep to their values, and Toss has news
\* of settled orders only.
THEOREM TypeCorrect == Spec => []TypeOK
  <1>1. IInv => TypeOK
    BY TypesOK DEF IInv
  <1> QED BY <1>1, Invariance, PTL

\* No points stay held for a charge that is CANCELED or FAILED, whichever of a later
\* attempt, an abandonment or a cancellation gave it up: unless its request died, or
\* two requests had the charge in hand at once.
THEOREM PointsAreBacked == Spec => []HoldsAreBacked
  <1>1. IInv => HoldsAreBacked
    BY DEF IInv, Calm, Backed, HoldsAreBacked
  <1> QED BY <1>1, Invariance, PTL

\* Money that Toss has taken is on record, is flagged for a human, or someone is still
\* to learn of it, however approvals, webhooks, finalizations and releases interleave.
THEOREM MoneyKnown == Spec => []MoneyIsKnown
  <1>1. IInv => MoneyIsKnown
    BY DEF IInv, Calm, Known, MoneyIsKnown
  <1> QED BY <1>1, Invariance, PTL

\* For an intent that is CANCELED no points stay taken, and money of Toss only if it is
\* flagged or its webhook is still to come.
THEOREM CanceledReleased == Spec => []CanceledIsReleased
  <1>1. ASSUME IInv, intent = "CANCELED", ~raced, NEW c \in Charges \ (dead \cup lost)
        PROVE  /\ hold[c] \notin {"AUTHORIZED", "CAPTURED"}
               /\ payment[c] = "done" => c \in notices \cup flagged
    <2>1. Types /\ Written /\ Calm /\ Backed(c) /\ Known(c) /\ ActiveCharges = {} /\ Succeeded = {}
      BY <1>1 DEF IInv, Calm
    <2>2. charge[c].status \notin {"CREATED", "REQUIRES_ACTION", "SUCCEEDED"}
      BY <2>1 DEF ActiveCharges, Active, Succeeded
    \* A webhook that carries the payment has a charge that waits for it.
    <2>3. ASSUME NEW r \in Requests, req[r].op = "webhook", Settles(r) PROVE FALSE
      <3>1. Deciding(r) /\ req[r].c \in Charges /\ req[r].at # "query"
        BY <2>1, <2>3 DEF Deciding, Settles, Types, RequestOK
      <3>2. charge[req[r].c].status \in {"REQUIRES_ACTION", "SUCCEEDED"}
        BY <2>1, <3>1 DEF Calm, Stands, DecisionStands
      <3> QED BY <2>1, <3>1, <3>2 DEF ActiveCharges, Active, Succeeded
    <2> QED BY <2>1, <2>2, <2>3 DEF Backed, Known
  <1>2. IInv => CanceledIsReleased
    BY <1>1 DEF CanceledIsReleased
  <1> QED BY <1>2, Invariance, PTL

-----------------------------------------------------------------------------
(* Sums *)

\* The fold takes the elements of a set in an order of its own.
Pick(s) == CHOOSE x \in s : TRUE
Part(g, s) == IF s = {} THEN 0 ELSE charge[Pick(s)].amount + g[s \ {Pick(s)}]
Adds(g, S) == g = [s \in SUBSET S |-> Part(g, s)]

LEMMA SumUnfolds ==
  ASSUME NEW S
  PROVE  Sum(S) = (CHOOSE g : Adds(g, S))[S]
  BY DEF Sum, MapThenSumSet, MapThenFoldSet, Adds, Part, Pick

LEMMA SumOfFew ==
  ASSUME NEW a, NEW b, NEW S \in SUBSET {a, b}, \A x \in S : charge[x].amount \in Nat
  PROVE  Sum(S) = (IF a \in S THEN charge[a].amount ELSE 0)
                  + (IF b \in S /\ b # a THEN charge[b].amount ELSE 0)
  <1> DEFINE due(s) == (IF a \in s THEN charge[a].amount ELSE 0)
                       + (IF b \in s /\ b # a THEN charge[b].amount ELSE 0)
             g == [s \in SUBSET S |-> due(s)]
  <1>1. ASSUME NEW s \in SUBSET S, s # {}
        PROVE  /\ Pick(s) \in s /\ s \ {Pick(s)} \in SUBSET S
               /\ due(s) = charge[Pick(s)].amount + due(s \ {Pick(s)})
    <2>1. Pick(s) \in s
      BY <1>1 DEF Pick
    <2>2. CASE Pick(s) = a
      BY <2>1, <2>2
    <2>3. CASE Pick(s) # a
      <3>1. Pick(s) = b /\ b # a
        BY <2>1, <2>3
      <3> QED BY <2>1, <3>1
    <2> QED BY <2>1, <2>2, <2>3
  <1>2. due({}) = 0
    OBVIOUS
  <1> HIDE DEF due
  <1>3. Adds(g, S)
    BY <1>1, <1>2 DEF Adds, Part
  <1> DEFINE h == CHOOSE k : Adds(k, S)
  <1>4. Adds(h, S) /\ Sum(S) = h[S]
    BY <1>3, SumUnfolds
  <1> HIDE DEF g, h
  <1>5. \A s \in SUBSET S : h[s] = Part(h, s)
    BY <1>4 DEF Adds
  <1>6. h[{}] = due({})
    BY <1>2, <1>5 DEF Part
  <1>7. ASSUME NEW x \in S PROVE h[{x}] = due({x})
    <2>1. Pick({x}) = x /\ {x} \ {x} = {}
      BY DEF Pick
    <2>2. h[{x}] = charge[x].amount + h[{}]
      BY <1>5, <2>1 DEF Part
    <2> QED BY <1>1, <1>6, <2>1, <2>2
  <1>8. h[S] = due(S)
    <2>1. CASE S = {}
      BY <1>6, <2>1
    <2>2. CASE S # {}
      <3>1. h[S] = charge[Pick(S)].amount + h[S \ {Pick(S)}] /\ Pick(S) \in S
        BY <1>1, <1>5, <2>2 DEF Part
      <3>2. S \ {Pick(S)} = {} \/ \E x \in S : S \ {Pick(S)} = {x}
        BY <3>1
      <3>3. h[S \ {Pick(S)}] = due(S \ {Pick(S)})
        BY <1>6, <1>7, <3>2
      <3> QED BY <1>1, <2>2, <3>1, <3>3
    <2> QED BY <2>1, <2>2
  <1> QED BY <1>4, <1>8 DEF due
-----------------------------------------------------------------------------
(* What is due: the strengthening for the two invariants about amounts *)

\* What an attempt asks for with its points.
Priced(r) ==
  LET c == req[r].c IN
  /\ Composite(r) => charge[c].amount = PointsPart
  /\ charge[c].method = "POINTS" /\ (req[r].at = "primary" \/ (Settles(r) /\ req[r].ok)) =>
       charge[c].amount = Payable
Price == \A r \in Requests : Confirming(r) => Priced(r)

\* What a charge that is still to be paid makes up with what has been paid.
Asks(c) ==
  /\ charge[c].amount = Payable \/ charge[c].method = "POINTS" => Succeeded = {}
  /\ charge[c].method = "TOSS" => charge[c].amount \in {Payable, Payable - PointsPart}
  /\ charge[c].method = "POINTS" => charge[c].amount \in {Payable, PointsPart}
  /\ intent # "CREATED" /\ ~ReleaseUnderWay /\ charge[c].method = "TOSS" /\ charge[c].amount # Payable
       => Succeeded # {}
Whole(S) ==
  \/ \E c \in Charges : S = {c} /\ charge[c].amount = Payable
  \/ \E p \in Charges, c \in Charges :
       /\ p # c /\ S = {p, c}
       /\ charge[p].amount = PointsPart /\ charge[c].amount = Payable - PointsPart

\* Until the intent is paid no more than the points of one composite attempt have been,
\* and the active charge is for the rest; then the charges that succeeded, or what a
\* release has left of them, are the whole.
DueUnpaid ==
  /\ \A c \in Succeeded : /\ charge[c].method = "POINTS" /\ charge[c].amount = PointsPart
                          /\ \A d \in Succeeded : d = c
  /\ \A c \in ActiveCharges : Asks(c)
Existing == {c \in Charges : charge[c].status # "none"}
DuePaid ==
  \E S \in SUBSET Existing :
    Succeeded \subseteq S /\ Whole(S) /\ (~ReleaseUnderWay => Succeeded = S)
Due ==
  /\ intent \in Unpaid => DueUnpaid
  /\ intent \notin Unpaid => ActiveCharges = {}
  /\ intent \notin Unpaid \cup {"CANCELED"} => DuePaid

\* With deferred approval a charge is decided by its own order only,
Own ==
  deferred =>
    /\ \A c \in Charges : charge[c].staged \in {None, c} /\ charge[c].key \in {None, c}
    /\ \A r \in Requests : Deciding(r) => req[r].pay = req[r].c

\* and an order that was paid is recorded, or the charge waits for who records it.
Hand(r, c) == Deciding(r) /\ Settles(r) /\ req[r].ok /\ req[r].pay = c
Settling ==
  deferred =>
    \A c \in Charges \ dead : payment[c] = "done" =>
      \/ charge[c].status = "SUCCEEDED"
      \/ charge[c].status = "REQUIRES_ACTION" /\ \E r \in Requests : Hand(r, c)

\* The customer has not been asked for a charge that an abandonment overlooks.
Abandoning(r) == req[r].op = "abandon" /\ req[r].at \in {"list", "undo"}
Closing == intent = "CREATED" \/ \E r \in Requests : Abandoning(r)
Unasked == Closing => \A c \in ActiveCharges : payment[c] = "none"

Exact == Price /\ Due /\ Own /\ Settling /\ Unasked

-----------------------------------------------------------------------------
(* What a step leaves of each part *)

OthersStay(r) == \A q \in Requests \ {r} : req'[q] = req[q]
\* Method and amount of a charge are settled when it is made.
TermsStay ==
  \A c \in Charges : charge[c].status # "none" =>
    /\ charge'[c].status # "none"
    /\ charge'[c].method = charge[c].method /\ charge'[c].amount = charge[c].amount

\* Part of a whole is part of it afterwards.
LEMMA WholeStays ==
  ASSUME TermsStay, NEW S \in SUBSET Existing, Whole(S)
  PROVE  S \in SUBSET Existing' /\ Whole(S)'
  <1>1. \A c \in S : c \in Charges /\ charge'[c].status # "none" /\ charge'[c].amount = charge[c].amount
    BY DEF TermsStay, Existing
  <1>2. S \in SUBSET Existing'
    BY <1>1 DEF Existing
  <1> QED BY <1>1, <1>2 DEF Whole

LEMMA PriceStep ==
  ASSUME Types, Written, Price, NEW r \in Requests, OthersStay(r), TermsStay,
         Confirming(r)' => Priced(r)'
  PROVE  Price'
  <1> SUFFICES ASSUME NEW q \in Requests \ {r}, Confirming(q)' PROVE Priced(q)'
    BY DEF Price
  <1>1. req'[q] = req[q]
    BY DEF OthersStay
  <1>2. Confirming(q) /\ (Composite(q)' <=> Composite(q)) /\ (Settles(q)' <=> Settles(q))
    BY <1>1 DEF Confirming, Composite, Settles
  <1>3. Priced(q) /\ req[q].c \in Charges /\ charge[req[q].c].status # "none"
    BY <1>2 DEF Price, Types, RequestOK, Written, AttemptOK
  <1>4. /\ charge'[req[q].c].method = charge[req[q].c].method
        /\ charge'[req[q].c].amount = charge[req[q].c].amount
    BY <1>3 DEF TermsStay
  <1> QED BY <1>1, <1>2, <1>3, <1>4 DEF Priced

\* A release that has given something back is under way until its request ends.
LEMMA UnderWayStays ==
  ASSUME NEW r \in Requests, OthersStay(r), req[r].at # "undo" \/ req[r].got = {}
  PROVE  ReleaseUnderWay => ReleaseUnderWay'
  BY DEF ReleaseUnderWay, OthersStay

\* No charge is made or paid; what is given back is given back by a release.
LEMMA DueStep ==
  ASSUME Types, Due, Calm', TermsStay,
         Succeeded' \subseteq Succeeded, ActiveCharges' \subseteq ActiveCharges,
         intent' \in Unpaid => intent \in Unpaid,
         intent' \notin Unpaid \cup {"CANCELED"} => intent \notin Unpaid \cup {"CANCELED"},
         intent' = "CREATED" \/ intent # "CREATED" \/ ActiveCharges' = {},
         \/ intent' \in {"CREATED", "CANCELED"}
         \/ ReleaseUnderWay'
         \/ ~ReleaseUnderWay /\ Succeeded' = Succeeded
  PROVE  Due'
  <1>1. \A c \in Succeeded \cup ActiveCharges :
          c \in Charges /\ charge'[c].method = charge[c].method /\ charge'[c].amount = charge[c].amount
    BY DEF TermsStay, Succeeded, ActiveCharges, Active
  <1>2. ASSUME intent' \in Unpaid PROVE DueUnpaid'
    <2>1. DueUnpaid
      BY <1>2 DEF Due
    <2>2. ASSUME NEW c \in ActiveCharges' PROVE Asks(c)'
      <3>1. Asks(c) /\ c \in ActiveCharges
        BY <2>1 DEF DueUnpaid
      <3>2. charge'[c].method = charge[c].method /\ charge'[c].amount = charge[c].amount
        BY <1>1, <3>1
      <3>3. (intent # "CREATED" /\ ~ReleaseUnderWay)' =>
              intent # "CREATED" /\ ~ReleaseUnderWay /\ Succeeded' = Succeeded
        BY <1>2 DEF Unpaid
      <3>4. Succeeded = {} => Succeeded' = {}
        OBVIOUS
      <3> QED BY <3>1, <3>2, <3>3, <3>4 DEF Asks
    <2>3. ASSUME NEW c \in Succeeded'
          PROVE  /\ charge'[c].method = "POINTS" /\ charge'[c].amount = PointsPart
                 /\ \A d \in Succeeded' : d = c
      BY <1>1, <2>1 DEF DueUnpaid
    <2> QED BY <2>2, <2>3 DEF DueUnpaid
  <1>3. ASSUME intent' \notin Unpaid PROVE ActiveCharges' = {}
    <2>1. CASE intent' = "CANCELED"
      BY <2>1 DEF Calm
    <2>2. CASE intent' # "CANCELED"
      BY <1>3, <2>2 DEF Due
    <2> QED BY <2>1, <2>2
  <1>4. ASSUME intent' \notin Unpaid \cup {"CANCELED"} PROVE DuePaid'
    <2>1. DuePaid
      BY <1>4 DEF Due
    <2>2. PICK S \in SUBSET Existing :
             Succeeded \subseteq S /\ Whole(S) /\ (~ReleaseUnderWay => Succeeded = S)
      BY <2>1 DEF DuePaid
    <2>3. S \in SUBSET Existing' /\ Whole(S)'
      BY <2>2, WholeStays
    <2>4. Succeeded' \subseteq S /\ (~ReleaseUnderWay' => Succeeded' = S)
      BY <1>4, <2>2 DEF Unpaid
    <2> QED BY <2>3, <2>4 DEF DuePaid
  <1> QED BY <1>2, <1>3, <1>4 DEF Due

\* An order is staged or recorded for its own charge.
LEMMA OwnStep ==
  ASSUME Types, Own, NEW r \in Requests, OthersStay(r), deferred' = deferred,
         deferred => \A c \in Charges : /\ charge'[c].staged \in {None, c, charge[c].staged}
                                        /\ charge'[c].key \in {None, c, charge[c].key},
         deferred /\ Deciding(r)' => req'[r].pay = req'[r].c
  PROVE  Own'
  <1> SUFFICES ASSUME deferred
               PROVE  /\ \A c \in Charges : charge'[c].staged \in {None, c} /\ charge'[c].key \in {None, c}
                      /\ \A q \in Requests : Deciding(q)' => req'[q].pay = req'[q].c
    BY DEF Own
  <1>1. \A c \in Charges : charge[c].staged \in {None, c} /\ charge[c].key \in {None, c}
    BY DEF Own
  <1>2. ASSUME NEW q \in Requests, q # r, Deciding(q)' PROVE req'[q].pay = req'[q].c
    <2>1. req'[q] = req[q]
      BY <1>2 DEF OthersStay
    <2>2. Deciding(q)
      BY <1>2, <2>1 DEF Deciding
    <2> QED BY <2>1, <2>2 DEF Own
  <1> QED BY <1>1, <1>2

\* Who decides keeps the charge waiting, as Calm says of the next state.
LEMMA HandHolds ==
  ASSUME Types', Calm', Own', deferred', NEW q \in Requests, NEW c, Hand(q, c)'
  PROVE  charge'[c].status \in {"SUCCEEDED", "REQUIRES_ACTION"}
  <1>1. Deciding(q)' /\ Settles(q)' /\ req'[q].pay = c
    BY DEF Hand
  <1>2. DecisionStands(q)' /\ req'[q].at # "query" /\ req'[q].c = c
    BY <1>1 DEF Calm, Stands, Own, Settles
  <1> QED BY <1>2 DEF DecisionStands

\* How an order that is paid stays settled, at a step of one request.
SettledBy(r, c) ==
  \/ Hand(r, c)'
  \/ /\ payment[c] = "done"
     /\ charge[c].status = "SUCCEEDED" => charge'[c].status = "SUCCEEDED"
     /\ Hand(r, c) /\ charge[c].status = "REQUIRES_ACTION" => charge'[c].status = "SUCCEEDED"

LEMMA SettlingStep ==
  ASSUME Settling, Types', Calm', Own', NEW r \in Requests, OthersStay(r),
         deferred' = deferred, dead \subseteq dead',
         \A c \in Charges \ dead' : deferred /\ payment'[c] = "done" => SettledBy(r, c)
  PROVE  Settling'
  <1> SUFFICES ASSUME deferred, NEW c \in Charges \ dead', payment'[c] = "done",
                      charge'[c].status # "SUCCEEDED"
               PROVE  charge'[c].status = "REQUIRES_ACTION" /\ \E q \in Requests : Hand(q, c)'
    BY DEF Settling
  <1>1. CASE Hand(r, c)'
    BY <1>1, HandHolds
  <1>2. CASE ~Hand(r, c)'
    <2>0. SettledBy(r, c)
      OBVIOUS
    <2>1. /\ payment[c] = "done" /\ charge[c].status # "SUCCEEDED"
          /\ ~(Hand(r, c) /\ charge[c].status = "REQUIRES_ACTION")
      BY <1>2, <2>0 DEF SettledBy
    <2>2. c \in Charges \ dead
      OBVIOUS
    <2>3. PICK q \in Requests : Hand(q, c) /\ charge[c].status = "REQUIRES_ACTION"
      BY <2>1, <2>2 DEF Settling
    <2>4. req'[q] = req[q]
      BY <2>1, <2>3 DEF OthersStay
    <2>5. Hand(q, c)'
      BY <2>3, <2>4 DEF Hand, Deciding, Settles
    <2> QED BY <2>5, HandHolds
  <1> QED BY <1>1, <1>2

\* An intent closes, or an abandonment comes to its end, with no charge active.
LEMMA UnaskedStep ==
  ASSUME Unasked, NEW r \in Requests, OthersStay(r), ActiveCharges' \subseteq ActiveCharges,
         \A c \in ActiveCharges : payment[c] = "none" => payment'[c] = "none" \/ ~Closing',
         Abandoning(r)' => Abandoning(r) \/ ActiveCharges' = {},
         intent' = "CREATED" => Closing \/ ActiveCharges' = {}
  PROVE  Unasked'
  <1> SUFFICES ASSUME Closing', NEW c \in ActiveCharges' PROVE payment'[c] = "none"
    BY DEF Unasked
  <1>1. CASE intent' = "CREATED"
    BY <1>1 DEF Unasked
  <1>2. CASE intent' # "CREATED"
    <2>1. PICK q \in Requests : Abandoning(q)'
      BY <1>2 DEF Closing
    <2>2. q # r => Abandoning(q)
      BY <2>1 DEF OthersStay, Abandoning
    <2>3. Closing
      BY <2>1, <2>2 DEF Closing
    <2> QED BY <2>3 DEF Unasked
  <1> QED BY <1>1, <1>2

LEMMA StepExact ==
  ASSUME Types, Written, Exact, Types', Calm', NEW r \in Requests, OthersStay(r), TermsStay,
         deferred' = deferred, dead \subseteq dead', Due', Unasked',
         Confirming(r)' => Priced(r)',
         deferred => \A c \in Charges : /\ charge'[c].staged \in {None, c, charge[c].staged}
                                        /\ charge'[c].key \in {None, c, charge[c].key},
         deferred /\ Deciding(r)' => req'[r].pay = req'[r].c,
         \A c \in Charges \ dead' : deferred /\ payment'[c] = "done" => SettledBy(r, c)
  PROVE  Exact'
  <1>1. Price /\ Own /\ Settling
    BY DEF Exact
  <1>2. Price'
    BY <1>1, PriceStep
  <1>3. Own'
    BY <1>1, OwnStep
  <1>4. Settling'
    BY <1>1, <1>3, SettlingStep
  <1> QED BY <1>2, <1>3, <1>4 DEF Exact

\* Only the requests move.
LEMMA QuietExact ==
  ASSUME Types, Written, Exact, Types', Calm', NEW r \in Requests, OthersStay(r),
         UNCHANGED <<intent, deferred, charge, payment>>, dead \subseteq dead',
         ReleaseUnderWay => ReleaseUnderWay',
         Confirming(r)' => Priced(r)',
         deferred /\ Deciding(r)' => req'[r].pay = req'[r].c,
         \A c \in Charges \ dead' :
           deferred /\ Hand(r, c) /\ charge[c].status = "REQUIRES_ACTION" /\ payment[c] = "done" => Hand(r, c)',
         Abandoning(r)' => Abandoning(r) \/ ActiveCharges = {}
  PROVE  Exact'
  <1>1. /\ TermsStay /\ Succeeded' = Succeeded /\ ActiveCharges' = ActiveCharges
        /\ Due /\ Unasked
    BY DEF TermsStay, Succeeded, ActiveCharges, Active, Exact
  <1>2. Due'
    BY <1>1, DueStep
  <1>3. \A c \in Charges \ dead' : deferred /\ payment'[c] = "done" => SettledBy(r, c)
    BY DEF SettledBy
  <1>4. Unasked'
    <2>1. intent' = "CREATED" => Closing
      BY DEF Closing
    <2> QED BY <1>1, <2>1, UnaskedStep
  <1> QED BY <1>1, <1>2, <1>3, <1>4, StepExact

\* What is settled in the confirmation itself: nothing of a decision.
LEMMA NoHand ==
  ASSUME NEW r \in Requests, req[r].at \notin {"finish", "waiting"} \/ req[r].op = "confirm"
  PROVE  \A c : ~Hand(r, c)
  BY DEF Hand, Settles, Deciding

\* A charge with another status is the same otherwise.
LEMMA StatusTerms ==
  ASSUME Types, NEW cs, NEW status, charge' = Status(cs, status)
  PROVE  \A d \in Charges :
           /\ charge'[d].status = IF d \in cs THEN status ELSE charge[d].status
           /\ charge'[d].method = charge[d].method /\ charge'[d].amount = charge[d].amount
           /\ charge'[d].key = charge[d].key /\ charge'[d].staged = charge[d].staged
  BY DEF Status, Types, RowTypes, Charged

LEMMA ConfirmTerms ==
  ASSUME Types, NEW r \in Requests, NEW plan \in Plans, Confirm(r, plan), made + 1 \in Charges
  PROVE  LET c == made + 1 IN
         /\ \A d \in Charges \ {c} : charge'[d].amount = charge[d].amount /\ charge'[d].staged = charge[d].staged
         /\ charge'[c].amount = IF plan = "both" THEN PointsPart ELSE Payable
         /\ charge'[c].staged = None /\ deferred' = deferred /\ intent' = "PROCESSING"
  <1> DEFINE c == made + 1
             cancelled == Status(ActiveCharges \cup StaleHold, "CANCELED")
  <1>1. charge' = [cancelled EXCEPT ![c] = FirstCharge(plan)] /\ deferred' = deferred /\ intent' = "PROCESSING"
    BY DEF Confirm
  <1>2. cancelled \in [Charges -> Charged] /\ charge \in [Charges -> Charged]
    BY StatusTypes DEF Types, RowTypes, Statuses
  <1>3. \A d \in Charges : cancelled[d].amount = charge[d].amount /\ cancelled[d].staged = charge[d].staged
    BY <1>2 DEF Status, Charged
  <1> HIDE DEF cancelled
  <1>4. charge'[c] = FirstCharge(plan) /\ \A d \in Charges \ {c} : charge'[d] = cancelled[d]
    BY <1>1, <1>2
  <1> QED BY <1>1, <1>3, <1>4, FirstChargeFacts

\* A confirmation gives up what was active and held, and makes the one active charge.
LEMMA ConfirmExact ==
  ASSUME Types, Written, Calm, Exact, Types', Calm',
         NEW r \in Requests, NEW plan \in Plans, Confirm(r, plan)
  PROVE  Exact'
  <1> DEFINE old == ActiveCharges \cup StaleHold
  <1>0. PICK c : c = made + 1
    OBVIOUS
  <1>1. /\ c \in Charges
        /\ \A q \in Requests \ {r} : req'[q] = req[q]
        /\ UNCHANGED <<payment, dead>> /\ intent \in Unpaid
        /\ charge'[c].status = "CREATED" /\ charge[c].status = "none" /\ payment[c] = "none"
        /\ charge'[c].method = IF plan = "toss" THEN "TOSS" ELSE "POINTS"
    BY <1>0, ConfirmFacts
  <1>2. /\ \A d \in Charges \ {c} :
             /\ charge'[d].method = charge[d].method /\ charge'[d].key = charge[d].key
             /\ charge'[d].status = IF d \in old THEN "CANCELED" ELSE charge[d].status
        /\ \A d \in old : d \in Charges
    BY <1>0, ConfirmFacts
  <1>3. /\ req'[r].op = "confirm" /\ req'[r].c = c /\ req'[r].legs = {}
        /\ req'[r].at = IF plan = "both" THEN "discount" ELSE "primary"
        /\ Idle(r)
    BY <1>0, ConfirmFacts
  <1>4. /\ \A d \in Charges \ {c} : charge'[d].amount = charge[d].amount /\ charge'[d].staged = charge[d].staged
        /\ charge'[c].amount = IF plan = "both" THEN PointsPart ELSE Payable
        /\ charge'[c].staged = None /\ deferred' = deferred /\ intent' = "PROCESSING"
        /\ charge'[c].key = None
    BY <1>0, <1>1, ConfirmTerms, ConfirmFacts
  <1>5. Due /\ OthersStay(r) /\ TermsStay
    BY <1>1, <1>2, <1>4 DEF Exact, OthersStay, TermsStay
  <1>6. Priced(r)' /\ ~Deciding(r)'
    BY <1>1, <1>3, <1>4 DEF Priced, Composite, Settles, Plans, Deciding
  <1>7. ActiveCharges' = {c} /\ Succeeded' = {}
    <2>1. \A d \in Succeeded : charge[d].method = "POINTS" /\ \A e \in Succeeded : e = d
      BY <1>1, <1>5 DEF Due, DueUnpaid
    <2>2. Succeeded \subseteq PointsHeld
      BY <2>1 DEF PointsHeld
    <2>3. Succeeded \subseteq StaleHold
      BY <2>1, <2>2, Picked
    <2>4. \A d \in Charges \ {c} : ~Active(d)' /\ charge'[d].status # "SUCCEEDED"
      BY <1>2, <2>3 DEF ActiveCharges, Active, Succeeded
    <2> QED BY <1>1, <2>4 DEF ActiveCharges, Active, Succeeded
  <1>8. Due'
    <2>1. Asks(c)'
      BY <1>1, <1>4, <1>7, PaymentsAssumption DEF Asks, Plans
    <2> QED BY <1>4, <1>7, <2>1 DEF Due, DueUnpaid, Unpaid
  <1>9. \A d \in Charges : /\ charge'[d].staged \in {None, d, charge[d].staged}
                           /\ charge'[d].key \in {None, d, charge[d].key}
    BY <1>2, <1>4
  <1>10. ASSUME NEW d \in Charges, payment'[d] = "done" PROVE SettledBy(r, d)
    <2>1. payment[d] = "done" /\ ~Hand(r, d) /\ d # c /\ charge[d].method = "TOSS"
      BY <1>1, <1>3, <1>10, NoHand DEF Idle, Written, ChargeOK
    <2>2. charge[d].status = "SUCCEEDED" => d \notin old
      BY <2>1, Picked DEF ActiveCharges, Active, PointsHeld
    <2> QED BY <1>2, <2>1, <2>2 DEF SettledBy
  <1>11. Unasked'
    BY <1>1, <1>7 DEF Unasked
  <1> QED BY <1>1, <1>4, <1>5, <1>6, <1>8, <1>9, <1>10, <1>11, StepExact

\* Any other operation begins by looking.
LEMMA StartsExact ==
  ASSUME Types, Written, Calm, Exact, Types', Calm', ~raced', NEW r \in Requests, Start(r)
  PROVE  Exact'
  <1>0. /\ OthersStay(r) /\ req \in [Requests -> Work] /\ req' \in [Requests -> Work]
        /\ Idle(r) /\ req[r] = IdleRequest /\ req[r].at = "idle"
    BY RequestMoves, Idles DEF OthersStay, Types, Start, Confirm, ConfirmAgain, CaptureStarts,
       FinalizeDeferred, Abandon, Cancel, Approve, NoticeComes, Idle
  <1>1. (ReleaseUnderWay => ReleaseUnderWay') /\ \A c : ~Hand(r, c)
    BY <1>0, UnderWayStays, NoHand
  <1>2. ASSUME UNCHANGED <<intent, deferred, charge, payment, dead>>, req'[r].op # "confirm",
               deferred /\ Deciding(r)' => req'[r].pay = req'[r].c, ~Abandoning(r)'
        PROVE  Exact'
    BY <1>0, <1>1, <1>2, QuietExact DEF Confirming
  <1>3. ASSUME NEW plan \in Plans, Confirm(r, plan) PROVE Exact'
    BY <1>3, ConfirmExact
  <1>4. CASE ConfirmAgain(r)
    BY <1>4 DEF ConfirmAgain
  <1>5. CASE CaptureStarts(r) \/ Abandon(r) \/ Cancel(r)
    <2>1. UNCHANGED <<intent, deferred, charge, payment, dead>>
      BY <1>5 DEF CaptureStarts, Abandon, Cancel, rows, toss, history
    <2>2. req'[r].op \in {"capture", "abandon", "cancel"} /\ req'[r].at \in {"capture", "release"}
      BY <1>0, <1>5 DEF CaptureStarts, Abandon, Cancel, Work
    <2> QED BY <1>2, <2>1, <2>2 DEF Deciding, Abandoning
  <1>6. CASE FinalizeDeferred(r)
    <2>1. PICK c \in ActiveCharges :
             /\ charge[c].staged # None
             /\ req' = [req EXCEPT ![r].op = "approve", ![r].c = c, ![r].pay = charge[c].staged,
                                   ![r].at = "pay"]
      BY <1>6 DEF FinalizeDeferred
    <2>2. /\ req'[r].op = "approve" /\ req'[r].at = "pay" /\ req'[r].c = c
          /\ req'[r].pay = charge[c].staged
      BY <1>0, <2>1 DEF Work
    <2>3. deferred => charge[c].staged = c
      BY <2>1, Picked DEF Exact, Own
    <2>4. UNCHANGED <<intent, deferred, charge, payment, dead>>
      BY <1>6 DEF FinalizeDeferred, rows, toss, history
    <2> QED BY <1>2, <2>2, <2>3, <2>4 DEF Abandoning
  <1>7. ASSUME NEW o \in Charges, Approve(r, o) PROVE Exact'
    <2>1. PICK c \in ActiveCharges :
             /\ deferred => c = o
             /\ req' = [req EXCEPT ![r].op = "approve", ![r].c = c, ![r].pay = o,
                                   ![r].at = IF deferred THEN "stage" ELSE "pay"]
      BY <1>7 DEF Approve
    <2>2. req'[r].op = "approve" /\ req'[r].c = c /\ req'[r].pay = o
      BY <1>0, <2>1 DEF Work
    <2>3. UNCHANGED <<intent, deferred, charge, payment, dead>>
      BY <1>7 DEF Approve, rows, toss, history
    <2> QED BY <1>2, <2>1, <2>2, <2>3 DEF Abandoning
  <1>8. ASSUME NEW o \in Charges, NoticeComes(r, o) PROVE Exact'
    <2>1. req'[r].op = "webhook" /\ req'[r].c = o /\ req'[r].pay = o
      BY <1>0, <1>8 DEF NoticeComes, Work
    <2>2. UNCHANGED <<intent, deferred, charge, payment, dead>>
      BY <1>8 DEF NoticeComes, rows, toss, history
    <2> QED BY <1>2, <2>1, <2>2 DEF Abandoning
  <1> QED BY <1>3, <1>4, <1>5, <1>6, <1>7, <1>8 DEF Start

\* The steps of an attempt.
LEMMA ConfirmationExact ==
  ASSUME Types, Written, Calm, Exact, Types', Calm', ~raced', NEW r \in Requests, Confirmation(r)
  PROVE  Exact'
  <1>0. /\ OthersStay(r) /\ req \in [Requests -> Work] /\ req' \in [Requests -> Work]
        /\ req[r] \in Work /\ charge \in [Charges -> Charged]
        /\ deferred' = deferred /\ dead' = dead
    BY RequestMoves DEF OthersStay, Types, RowTypes, Step, Confirmation, HoldPoints, MarkHeld,
       MakePrimary, PointsPrimary, TossPrimary, AskCustomer, Refused, history
  <1>1. PICK c : c = req[r].c
    OBVIOUS
  <1>2. /\ Price /\ Due /\ Own /\ Settling /\ Unasked
        /\ \A d \in ActiveCharges : intent \in Unpaid => Asks(d)
    BY DEF Exact, Due, DueUnpaid
  \* What holds of an attempt at each of these steps.
  <1>3. ASSUME req[r].at \in {"discount", "held", "split", "primary", "acting", "refused"}
        PROVE  /\ req[r].op = "confirm" /\ c \in Charges /\ charge[c].status # "none"
               /\ AttemptStands(r) /\ AttemptOK(r) /\ Priced(r)
               /\ req[r].at # "acting" => intent = "PROCESSING"
               /\ req[r].at \in {"discount", "held", "primary", "refused"} =>
                    charge[c].status = "CREATED" /\ c \in ActiveCharges
    <2>1. /\ req[r].op = "confirm" /\ c \in Charges /\ Confirming(r) /\ AttemptOK(r) /\ Priced(r)
      BY <1>1, <1>2, <1>3, AttemptFacts DEF Written, Price
    <2>2. AttemptStands(r) /\ (req[r].at # "acting" => intent = "PROCESSING")
      BY <2>1, AttemptHas
    <2> QED BY <1>1, <1>3, <2>1, <2>2 DEF AttemptStands, AttemptOK, ActiveCharges, Active
  <1>4. \A d : ~Hand(r, d)
    <2>1. req[r].at \notin {"finish", "waiting"}
      BY DEF Confirmation, HoldPoints, MarkHeld, MakePrimary, PointsPrimary, TossPrimary,
             AskCustomer, Refused
    <2> QED BY <2>1, NoHand
  <1>5. (ReleaseUnderWay => ReleaseUnderWay') /\ ~Abandoning(r)
    <2>1. req[r].at \notin {"undo", "list"}
      BY DEF Confirmation, HoldPoints, MarkHeld, MakePrimary, PointsPrimary, TossPrimary,
             AskCustomer, Refused
    <2> QED BY <1>0, <2>1, UnderWayStays DEF Abandoning
  \* No payment is decided.
  <1>6. ASSUME TermsStay, Due', Unasked',
               \A d \in Charges : payment'[d] = "done" => payment[d] = "done",
               \A d \in Charges : /\ charge'[d].staged \in {None, d, charge[d].staged}
                                  /\ charge'[d].key \in {None, d, charge[d].key},
               \A d \in Charges : charge[d].status = "SUCCEEDED" => charge'[d].status = "SUCCEEDED",
               Confirming(r)' => Priced(r)', ~Deciding(r)'
        PROVE  Exact'
    <2>1. \A d \in Charges \ dead' : deferred /\ payment'[d] = "done" => SettledBy(r, d)
      BY <1>4, <1>6 DEF SettledBy
    <2> QED BY <1>0, <1>6, <2>1, StepExact
  <1>7. CASE HoldPoints(r)
    <2>1. /\ req[r].at = "discount" /\ charge' = Status(StaleHold, "CANCELED")
          /\ UNCHANGED <<intent, payment>>
      BY <1>7 DEF HoldPoints, toss
    <2>2. Succeeded = {} /\ StaleHold = {}
      <3>1. c \in ActiveCharges /\ intent = "PROCESSING" /\ charge[c].method = "POINTS"
        BY <1>1, <1>3, <2>1 DEF AttemptOK
      <3>2. Succeeded = {}
        BY <1>2, <3>1 DEF Asks, Unpaid
      <3> QED BY <3>2, Picked
    <2>3. charge' = charge
      BY <1>0, <2>1, <2>2 DEF Status
    <2>4. /\ req'[r].op = "confirm" /\ req'[r].c = c
          /\ req'[r].at = "held" \/ (req'[r].at = "finish" /\ ~req'[r].ok)
      <3>1. CASE Goes(r, "held")
        BY <1>0, <1>1, <1>3, <2>1, <3>1, GoesMoves DEF Work, Places
      <3>2. CASE req' = [req EXCEPT ![r].at = "finish", ![r].ok = FALSE]
        <4>1. req'[r] = [req[r] EXCEPT !.at = "finish", !.ok = FALSE]
          BY <1>0, <3>2, SettlesMoves
        <4> QED BY <1>0, <1>1, <1>3, <2>1, <4>1 DEF Work
      <3> QED BY <1>7, <3>1, <3>2 DEF HoldPoints
    <2>5. Priced(r)' /\ ~Deciding(r)' /\ ~Abandoning(r)'
      <3>1. charge[c].amount = PointsPart
        BY <1>1, <1>3, <2>1 DEF Priced, Composite
      <3>2. Priced(r)'
        BY <2>3, <2>4, <3>1 DEF Priced, Composite, Settles
      <3> QED BY <2>4, <3>2 DEF Deciding, Abandoning
    <2> QED BY <1>0, <1>4, <1>5, <2>1, <2>3, <2>5, QuietExact
  <1>8. CASE MarkHeld(r)
    <2>1. /\ req[r].at = "held" /\ charge' = Status({c}, "SUCCEEDED") /\ UNCHANGED <<intent, payment>>
          /\ Goes(r, "split")
      BY <1>1, <1>8 DEF MarkHeld, toss
    <2>2. \A d \in Charges :
           /\ charge'[d].status = IF d = c THEN "SUCCEEDED" ELSE charge[d].status
           /\ charge'[d].method = charge[d].method /\ charge'[d].amount = charge[d].amount
           /\ charge'[d].key = charge[d].key /\ charge'[d].staged = charge[d].staged
      BY <2>1, StatusTerms
    <2>3. /\ c \in ActiveCharges /\ c \in Charges /\ intent = "PROCESSING" /\ charge[c].method = "POINTS"
          /\ charge[c].amount = PointsPart /\ Succeeded = {}
      <3>1. c \in ActiveCharges /\ c \in Charges /\ intent = "PROCESSING" /\ charge[c].method = "POINTS"
            /\ charge[c].amount = PointsPart
        BY <1>1, <1>3, <2>1 DEF AttemptOK, Priced, Composite
      <3> QED BY <1>2, <3>1 DEF Asks, Unpaid
    <2>4. Succeeded' = {c} /\ ActiveCharges' = {}
      <3>1. \A d \in ActiveCharges : d = c
        BY <2>3 DEF Written, OneActive
      <3> QED BY <2>2, <2>3, <3>1 DEF Succeeded, ActiveCharges, Active
    <2>5. req'[r].op = "confirm" /\ req'[r].c = c /\ req'[r].at = "split"
      BY <1>0, <1>1, <1>3, <2>1, GoesMoves DEF Work, Places
    <2>6. TermsStay /\ Priced(r)'
      <3>1. TermsStay
        BY <2>2 DEF TermsStay
      <3> QED BY <2>2, <2>3, <2>5, <3>1 DEF Priced, Composite, Settles
    <2>7. Due' /\ Unasked'
      BY <2>1, <2>2, <2>3, <2>4 DEF Due, DueUnpaid, Unpaid, Unasked
    <2>8. \A d \in Charges : charge[d].status = "SUCCEEDED" => charge'[d].status = "SUCCEEDED"
      BY <2>2
    <2> QED BY <1>6, <2>1, <2>2, <2>5, <2>6, <2>7, <2>8 DEF Deciding
  <1>9. CASE MakePrimary(r)
    <2>1. req[r].at = "split" /\ UNCHANGED <<intent, payment>>
      BY <1>9 DEF MakePrimary, toss
    <2>2. CASE ActiveCharges # {}
      BY <1>1, <1>3, <2>1, <2>2 DEF AttemptStands
    <2>3. CASE ActiveCharges = {}
      <3>1. PICK d : d = c + 1
        OBVIOUS
      <3>2. /\ charge' = [charge EXCEPT ![d] = NewCharge("TOSS", Payable - PointsPart)]
            /\ req' = [req EXCEPT ![r].at = "primary", ![r].c = d, ![r].legs = {c}]
        BY <1>1, <1>9, <2>3, <3>1 DEF MakePrimary
      <3>3. /\ d \in Charges /\ d # c /\ charge[d].status = "none" /\ payment[d] = "none"
            /\ Payable - PointsPart \in 0 .. Payable
        <4>1. d \in Charges /\ d # c
          BY <1>1, <1>3, <2>1, <3>1, AttemptFacts, PaymentsAssumption DEF Composite, Charges
        <4>2. charge[d].status = "none"
          BY <1>1, <1>3, <2>1, <3>1 DEF AttemptOK, Composite
        <4>3. payment[d] = "none"
          BY <4>1, <4>2 DEF Written, ChargeOK
        <4>4. Payable - PointsPart \in 0 .. Payable
          BY PaymentsAssumption
        <4> QED BY <4>1, <4>2, <4>3, <4>4
      <3>4. charge'[d] = NewCharge("TOSS", Payable - PointsPart)
            /\ \A e \in Charges \ {d} : charge'[e] = charge[e]
        BY <1>0, <3>2, <3>3
      <3>5. /\ charge'[d].method = "TOSS" /\ charge'[d].amount = Payable - PointsPart
            /\ charge'[d].status = "CREATED" /\ charge'[d].key = None /\ charge'[d].staged = None
        BY <3>3, <3>4, NewChargeFacts
      <3>6. req'[r].op = "confirm" /\ req'[r].at = "primary" /\ req'[r].c = d
        BY <1>0, <1>3, <2>1, <3>2, <3>3 DEF Work
      <3>7. TermsStay /\ Priced(r)'
        BY <3>3, <3>4, <3>5, <3>6 DEF TermsStay, Priced, Composite, Settles
      <3>8. /\ \A e \in Charges : /\ charge'[e].staged \in {None, e, charge[e].staged}
                                  /\ charge'[e].key \in {None, e, charge[e].key}
            /\ \A e \in Charges : charge[e].status = "SUCCEEDED" => charge'[e].status = "SUCCEEDED"
        BY <3>3, <3>4, <3>5
      <3>9. ActiveCharges' = {d} /\ Succeeded' = Succeeded /\ Succeeded # {}
        <4>1. charge[c].status = "SUCCEEDED" /\ c \in Charges
          BY <1>1, <1>3, <2>1 DEF AttemptStands
        <4> QED BY <2>3, <3>3, <3>4, <3>5, <4>1 DEF ActiveCharges, Active, Succeeded
      <3>10. Due'
        <4>1. Asks(d)'
          BY <3>5, <3>9, PaymentsAssumption DEF Asks
        <4>2. intent' = "PROCESSING" /\ DueUnpaid
          BY <1>2, <1>3, <2>1 DEF Due, Unpaid
        <4>3. \A e \in Succeeded' : /\ charge'[e].method = "POINTS" /\ charge'[e].amount = PointsPart
                                    /\ \A f \in Succeeded' : f = e
          BY <3>3, <3>4, <3>9, <4>2 DEF DueUnpaid, Succeeded
        <4> QED BY <3>9, <4>1, <4>2, <4>3 DEF Due, DueUnpaid, Unpaid
      <3>11. Unasked'
        BY <2>1, <3>3, <3>9 DEF Unasked
      <3> QED BY <1>6, <2>1, <3>6, <3>7, <3>8, <3>10, <3>11 DEF Deciding
    <2> QED BY <2>2, <2>3
  <1>10. CASE PointsPrimary(r)
    <2>1. /\ req[r].at = "primary" /\ charge[c].method = "POINTS"
          /\ UNCHANGED <<intent, charge, payment>>
      BY <1>1, <1>10 DEF PointsPrimary, rows, toss
    <2>2. /\ req'[r].op = "confirm" /\ req'[r].c = c /\ req'[r].at \in {"finish", "refused"}
      <3>1. CASE Goes(r, "refused")
        BY <1>0, <1>1, <1>3, <2>1, <3>1, GoesMoves DEF Work, Places
      <3>2. CASE req' = [req EXCEPT ![r].at = "finish", ![r].ok = TRUE]
        <4>1. req'[r] = [req[r] EXCEPT !.at = "finish", !.ok = TRUE]
          BY <1>0, <3>2, SettlesMoves
        <4> QED BY <1>0, <1>1, <1>3, <2>1, <4>1 DEF Work
      <3> QED BY <1>10, <3>1, <3>2 DEF PointsPrimary
    <2>3. Priced(r)' /\ ~Deciding(r)' /\ ~Abandoning(r)'
      <3>1. charge[c].amount = Payable
        BY <1>1, <1>3, <2>1 DEF Priced
      <3> QED BY <2>1, <2>2, <3>1 DEF Priced, Composite, Settles, Deciding, Abandoning
    <2> QED BY <1>0, <1>4, <1>5, <2>1, <2>3, QuietExact
  \* A charge of the attempt is named to the customer, or refused.
  <1>11. ASSUME req[r].at \in {"primary", "refused"},
                NEW status \in {"REQUIRES_ACTION", "FAILED"},
                charge' = Status({c}, status), UNCHANGED <<intent, payment>>,
                req'[r].at \in {"acting", "back"}
         PROVE  Exact'
    <2>1. /\ c \in Charges /\ charge[c].status = "CREATED" /\ c \in ActiveCharges
          /\ intent = "PROCESSING"
      BY <1>3, <1>11
    <2>2. \A d \in Charges :
           /\ charge'[d].status = IF d = c THEN status ELSE charge[d].status
           /\ charge'[d].method = charge[d].method /\ charge'[d].amount = charge[d].amount
           /\ charge'[d].key = charge[d].key /\ charge'[d].staged = charge[d].staged
      <3>1. charge' = Status({c}, status)
        BY <1>11
      <3>2. \A d \in Charges :
             /\ charge'[d].status = IF d \in {c} THEN status ELSE charge[d].status
             /\ charge'[d].method = charge[d].method /\ charge'[d].amount = charge[d].amount
             /\ charge'[d].key = charge[d].key /\ charge'[d].staged = charge[d].staged
        BY <3>1, StatusTerms
      <3> QED BY <3>2
    <2>3. TermsStay /\ Succeeded' = Succeeded /\ ActiveCharges' \subseteq ActiveCharges
      BY <2>1, <2>2 DEF TermsStay, Succeeded, ActiveCharges, Active
    <2>4. Priced(r)' /\ ~Deciding(r)' /\ ~Abandoning(r)'
      BY <1>11 DEF Priced, Composite, Settles, Deciding, Abandoning
    <2>5. Due'
      BY <1>2, <1>5, <1>11, <2>3, DueStep
    <2>6. Unasked'
      BY <1>0, <1>2, <1>11, <2>1, <2>3, <2>4, UnaskedStep
    <2>7. \A d \in Charges : charge[d].status = "SUCCEEDED" => charge'[d].status = "SUCCEEDED"
      BY <2>1, <2>2
    <2> QED BY <1>6, <1>11, <2>2, <2>3, <2>4, <2>5, <2>6, <2>7
  \* The attempt ends and leaves the charges as they are.
  <1>12. ASSUME UNCHANGED <<intent, charge, payment>>, Ends(r)
         PROVE  Exact'
    <2>1. ~Confirming(r)' /\ ~Deciding(r)' /\ ~Abandoning(r)'
      BY <1>0, <1>12, EndsMoves DEF IdleRequest, Confirming, Deciding, Abandoning
    <2> QED BY <1>0, <1>4, <1>5, <1>12, <2>1, QuietExact
  <1>13. CASE TossPrimary(r)
    <2>1. req[r].at = "primary" /\ UNCHANGED <<intent, payment>>
      BY <1>13 DEF TossPrimary, toss
    <2>2. CASE Ends(r) /\ UNCHANGED charge
      BY <1>12, <2>1, <2>2
    <2>3. CASE Goes(r, "acting") /\ charge' = Status({c}, "REQUIRES_ACTION")
      <3>1. req'[r].at = "acting"
        BY <1>0, <2>3, GoesMoves DEF Work, Places
      <3> QED BY <1>11, <2>1, <2>3, <3>1
    <2> QED BY <1>1, <1>13, <2>2, <2>3 DEF TossPrimary
  <1>14. CASE AskCustomer(r)
    <2>1. /\ req[r].at = "acting" /\ Ends(r) /\ Unlocked /\ UNCHANGED charge /\ c \in Charges
      BY <1>3, <1>14 DEF AskCustomer, rows
    <2>2. CASE UNCHANGED <<intent, payment>>
      BY <1>12, <2>1, <2>2
    <2>3. CASE Allowed(intent, "REQUIRES_ACTION") /\ intent' = "REQUIRES_ACTION"
               /\ payment' = [payment EXCEPT ![c] = "ready"]
      <3>1. req'[r].op = "none" /\ ~Confirming(r)' /\ ~Deciding(r)' /\ ~Abandoning(r)'
        BY <1>0, <2>1, EndsMoves DEF IdleRequest, Confirming, Deciding, Abandoning
      <3>2. intent = "PROCESSING"
        BY <2>3 DEF Allowed
      <3>3. \A d \in Charges : payment'[d] = "done" => payment[d] = "done"
        BY <2>1, <2>3 DEF Types, RowTypes
      <3>4. TermsStay /\ Succeeded' = Succeeded /\ ActiveCharges' = ActiveCharges
        BY <2>1 DEF TermsStay, Succeeded, ActiveCharges, Active
      <3>5. Due'
        BY <1>2, <1>5, <2>3, <3>2, <3>4, DueStep DEF Unpaid
      <3>6. Unasked'
        <4>1. ASSUME NEW q \in Requests, Abandoning(q)' PROVE FALSE
          <5>1. req'[q] = req[q]
            BY <1>0, <3>1, <4>1 DEF OthersStay
          <5>2. lock = q
            BY <4>1, <5>1 DEF Abandoning, Types, RequestOK
          <5> QED BY <2>1, <5>2, PaymentsAssumption DEF Unlocked
        <4> QED BY <2>3, <4>1 DEF Unasked, Closing
      <3> QED BY <1>6, <2>1, <3>1, <3>3, <3>4, <3>5, <3>6
    <2> QED BY <1>1, <1>14, <2>2, <2>3 DEF AskCustomer
  <1>15. CASE Refused(r)
    <2>1. CASE req[r].at = "refused"
      <3>1. charge' = Status({c}, "FAILED") /\ Goes(r, "back") /\ UNCHANGED <<intent, payment>>
        BY <1>1, <1>15, <2>1 DEF Refused, toss
      <3>2. req'[r].at = "back"
        BY <1>0, <3>1, GoesMoves DEF Work, Places
      <3> QED BY <1>11, <2>1, <3>1, <3>2
    <2>2. CASE req[r].at = "back"
      <3>1. /\ Ends(r) /\ UNCHANGED <<charge, payment>> /\ ActiveCharges = {}
            /\ intent' = IF Allowed(intent, "CREATED") THEN "CREATED" ELSE intent
        BY <1>15, <2>2 DEF Refused, rows, toss
      <3>2. CASE intent' = intent
        BY <1>12, <3>1, <3>2
      <3>3. CASE intent' = "CREATED" /\ intent \in Unpaid
        <4>1. req'[r].op = "none" /\ ~Confirming(r)' /\ ~Deciding(r)'
          BY <1>0, <3>1, EndsMoves DEF IdleRequest, Confirming, Deciding
        <4>2. TermsStay /\ Succeeded' = Succeeded /\ ActiveCharges' = {}
          BY <3>1 DEF TermsStay, Succeeded, ActiveCharges, Active
        <4>3. Due' /\ Unasked'
          BY <1>2, <3>1, <3>3, <4>2, DueStep DEF Unpaid, Unasked
        <4> QED BY <1>6, <3>1, <4>1, <4>2, <4>3
      <3> QED BY <3>1, <3>2, <3>3 DEF Allowed, Unpaid
    <2> QED BY <1>15, <2>1, <2>2 DEF Refused
  <1> QED BY <1>7, <1>8, <1>9, <1>10, <1>13, <1>14, <1>15 DEF Confirmation

\* Approval: what is decided on is the charge's own order.
LEMMA DecidingExact ==
  ASSUME Types, Written, Exact, Types', Calm', ~raced', NEW r \in Requests,
         Stage(r) \/ Pay(r) \/ Query(r)
  PROVE  Exact'
  <1>1. PICK c, o : c = req[r].c /\ o = req[r].pay
    OBVIOUS
  <1>0. /\ OthersStay(r) /\ req \in [Requests -> Work] /\ req' \in [Requests -> Work]
        /\ req[r] \in Work /\ charge \in [Charges -> Charged] /\ Due /\ Unasked
        /\ payment \in [Charges -> {"none", "ready"} \cup Settled]
    BY RequestMoves DEF OthersStay, Types, RowTypes, Step, Exact
  <1>2. /\ req[r].at \in {"stage", "pay", "query"} /\ Deciding(r) /\ req[r].op \in {"approve", "webhook"}
        /\ c \in Charges /\ o \in Charges /\ (deferred => o = c)
    <2>1. req[r].at \in {"stage", "pay", "query"}
      BY DEF Stage, Pay, Query
    <2>2. OfItsKind(r)
      BY DEF Types, RequestOK
    <2>3. Deciding(r) /\ req[r].op \in {"approve", "webhook"}
      BY <2>1, <2>2 DEF OfItsKind, Deciding
    <2>4. c \in Charges /\ o \in Charges
      BY <1>1, <2>1, <2>3, DecisionFacts
    <2> QED BY <1>1, <2>1, <2>3, <2>4 DEF Exact, Own
  <1>3. (ReleaseUnderWay => ReleaseUnderWay') /\ ~Abandoning(r) /\ \A d : ~Hand(r, d)
    BY <1>0, <1>2, UnderWayStays, NoHand DEF Abandoning
  <1>4. CASE Stage(r)
    <2>1. /\ Ends(r) /\ UNCHANGED <<intent, deferred, payment, dead>>
          /\ \/ charge' = charge
             \/ /\ charge[c].status = "REQUIRES_ACTION"
                /\ charge' = [charge EXCEPT ![c].status = "REQUIRES_ACTION", ![c].staged = o]
      BY <1>1, <1>4 DEF Stage, toss
    <2>2. \A d \in Charges :
            /\ charge'[d].status = charge[d].status /\ charge'[d].key = charge[d].key
            /\ charge'[d].method = charge[d].method /\ charge'[d].amount = charge[d].amount
      BY <1>0, <1>2, <2>1 DEF Charged
    <2>3. \A d \in Charges : charge'[d].staged = charge[d].staged \/ (d = c /\ charge'[d].staged = o)
      BY <1>0, <1>2, <2>1 DEF Charged
    <2>4. ~Confirming(r)' /\ ~Deciding(r)' /\ ~Abandoning(r)'
      BY <1>0, <2>1, EndsMoves DEF IdleRequest, Confirming, Deciding, Abandoning
    <2>5. TermsStay /\ Succeeded' = Succeeded /\ ActiveCharges' = ActiveCharges
      BY <2>2 DEF TermsStay, Succeeded, ActiveCharges, Active
    <2>6. Due'
      BY <1>0, <1>3, <2>1, <2>5, DueStep
    <2>7. Unasked'
      <3>1. intent' = "CREATED" => Closing
        BY <2>1 DEF Closing
      <3> QED BY <1>0, <2>1, <2>4, <2>5, <3>1, UnaskedStep
    <2>8. \A d \in Charges \ dead' : deferred /\ payment'[d] = "done" => SettledBy(r, d)
      BY <1>3, <2>1, <2>2 DEF SettledBy
    <2>9. deferred => \A d \in Charges : /\ charge'[d].staged \in {None, d, charge[d].staged}
                                         /\ charge'[d].key \in {None, d, charge[d].key}
      BY <1>2, <2>2, <2>3
    <2> QED BY <1>0, <2>1, <2>4, <2>5, <2>6, <2>7, <2>8, <2>9, StepExact
  <1>5. CASE Pay(r)
    <2>1. UNCHANGED <<intent, deferred, charge, dead>> /\ req[r].at = "pay"
      BY <1>5 DEF Pay, rows
    <2>2. PICK ok \in BOOLEAN : /\ req' = [req EXCEPT ![r].at = "finish", ![r].ok = ok]
                                /\ \/ payment' = payment
                                   \/ /\ payment[o] = "ready" /\ ok
                                      /\ payment' = [payment EXCEPT ![o] = "done"]
                                   \/ /\ payment[o] = "ready"
                                      /\ payment' = [payment EXCEPT ![o] = "aborted"]
      BY <1>1, <1>5 DEF Pay, toss
    <2>3. /\ req'[r].at = "finish" /\ req'[r].op = req[r].op /\ req'[r].c = c /\ req'[r].pay = o
          /\ req'[r].ok = ok
      <3>1. req'[r] = [req[r] EXCEPT !.at = "finish", !.ok = ok]
        BY <1>0, <2>2, SettlesMoves
      <3> QED BY <1>0, <1>1, <3>1 DEF Work
    <2>4. \A d \in Charges : /\ payment'[d] = "done" => payment[d] = "done" \/ (d = o /\ ok)
                             /\ payment[d] = "none" => payment'[d] = "none"
      BY <1>0, <1>2, <2>2 DEF Settled
    <2>5. TermsStay /\ Succeeded' = Succeeded /\ ActiveCharges' = ActiveCharges
      BY <2>1 DEF TermsStay, Succeeded, ActiveCharges, Active
    <2>6. ~Confirming(r)' /\ ~Abandoning(r)' /\ (ok => Hand(r, o)')
      BY <1>2, <2>3 DEF Confirming, Abandoning, Hand, Deciding, Settles
    <2>7. Due'
      BY <1>0, <1>3, <2>1, <2>5, DueStep
    <2>8. Unasked'
      <3>1. (intent' = "CREATED" => Closing) /\ ActiveCharges \subseteq Charges
        BY <2>1 DEF Closing, ActiveCharges
      <3> QED BY <1>0, <2>1, <2>4, <2>5, <2>6, <3>1, UnaskedStep
    <2>9. \A d \in Charges \ dead' : deferred /\ payment'[d] = "done" => SettledBy(r, d)
      BY <1>3, <2>1, <2>4, <2>6 DEF SettledBy
    <2> QED BY <1>0, <1>2, <2>1, <2>3, <2>5, <2>6, <2>7, <2>8, <2>9, StepExact
  <1>6. CASE Query(r)
    <2>1. UNCHANGED <<intent, deferred, charge, payment, dead>>
      BY <1>6 DEF Query, rows, history
    <2>2. ~Confirming(r)' /\ ~Abandoning(r)' /\ (deferred /\ Deciding(r)' => req'[r].pay = req'[r].c)
      <3>1. CASE Ends(r)
        BY <1>0, <3>1, EndsMoves DEF IdleRequest, Confirming, Deciding, Abandoning
      <3>2. CASE ~Ends(r)
        <4>1. PICK ok \in BOOLEAN : req' = [req EXCEPT ![r].at = "finish", ![r].ok = ok]
          BY <1>6, <3>2 DEF Query
        <4>2. req'[r] = [req[r] EXCEPT !.at = "finish", !.ok = ok]
          BY <1>0, <4>1, SettlesMoves
        <4>3. req'[r].at = "finish" /\ req'[r].op = req[r].op /\ req'[r].c = c /\ req'[r].pay = o
          BY <1>0, <1>1, <4>2 DEF Work
        <4> QED BY <1>2, <4>3 DEF Confirming, Abandoning
      <3> QED BY <3>1, <3>2
    <2> QED BY <1>0, <1>3, <2>1, <2>2, QuietExact
  <1> QED BY <1>4, <1>5, <1>6

\* A charge that is settled while the intent is unpaid is the active one.
LEMMA SettlesActive ==
  ASSUME Types, Written, Calm, Exact, NEW r \in Requests, Settles(r), intent \in Unpaid
  PROVE  /\ req[r].c \in ActiveCharges /\ Asks(req[r].c)
         /\ \A d \in ActiveCharges : d = req[r].c
         /\ charge[req[r].c].method \in {"POINTS", "TOSS"}
         /\ charge[req[r].c].method = "POINTS" /\ req[r].ok => charge[req[r].c].amount = Payable
         /\ Deciding(r) => charge[req[r].c].method = "TOSS"
  <1>1. PICK c : c = req[r].c
    OBVIOUS
  <1>2. req[r].at \in {"finish", "waiting"} /\ c \in Charges /\ (Confirming(r) \/ Deciding(r))
    BY <1>1, DecisionFacts DEF Settles
  <1>3. CASE Confirming(r)
    <2>1. AttemptStands(r) /\ AttemptOK(r) /\ Priced(r) /\ ~Deciding(r)
      BY <1>2, <1>3, AttemptHas DEF Written, Exact, Price, Confirming, Deciding
    <2>2. charge[c].status = "CREATED" /\ charge[c].method = "POINTS"
          /\ (req[r].ok => charge[c].amount = Payable)
      BY <1>1, <1>2, <2>1 DEF AttemptStands, AttemptOK, Priced, Settles
    <2>3. c \in ActiveCharges
      BY <1>2, <2>2 DEF ActiveCharges, Active
    <2>4. Asks(c) /\ \A d \in ActiveCharges : d = c
      BY <2>3 DEF Exact, Due, DueUnpaid, Written, OneActive
    <2> QED BY <1>1, <2>1, <2>2, <2>3, <2>4
  <1>4. CASE Deciding(r)
    <2>1. DecisionStands(r) /\ DecisionOK(r) /\ ChargeOK(c)
      BY <1>2, <1>4 DEF Written, Calm, Stands
    <2>2. charge[c].status = "REQUIRES_ACTION" /\ charge[c].method = "TOSS"
      BY <1>1, <1>2, <2>1 DEF DecisionStands, DecisionOK, ChargeOK
    <2>3. c \in ActiveCharges
      BY <1>2, <2>2 DEF ActiveCharges, Active
    <2>4. Asks(c) /\ \A d \in ActiveCharges : d = c
      BY <2>3 DEF Exact, Due, DueUnpaid, Written, OneActive
    <2> QED BY <1>1, <2>2, <2>3, <2>4
  <1> QED BY <1>2, <1>3, <1>4

\* With the active charge the points that were paid make up the whole.
LEMMA MakesWhole ==
  ASSUME Due, intent \in {"PROCESSING", "REQUIRES_ACTION"}, ~ReleaseUnderWay,
         NEW c \in ActiveCharges, Asks(c), charge[c].method \in {"POINTS", "TOSS"},
         charge[c].method = "POINTS" => charge[c].amount = Payable
  PROVE  Whole(Succeeded \cup {c}) /\ Succeeded \cup {c} \in SUBSET Existing
  <1>1. DueUnpaid /\ c \in Charges /\ charge[c].status # "none" /\ Succeeded \subseteq Existing
        /\ Succeeded \subseteq Charges /\ c \notin Succeeded
    BY DEF Due, Unpaid, ActiveCharges, Active, Succeeded, Existing
  <1>2. Succeeded \cup {c} \in SUBSET Existing
    BY <1>1 DEF Existing
  <1>3. CASE charge[c].amount = Payable
    <2>1. Succeeded \cup {c} = {c}
      BY <1>3 DEF Asks
    <2> QED BY <1>1, <1>2, <1>3, <2>1 DEF Whole
  <1>4. CASE charge[c].amount # Payable
    <2>1. charge[c].amount = Payable - PointsPart /\ Succeeded # {}
      BY <1>4 DEF Asks
    <2>2. PICK p \in Succeeded : charge[p].amount = PointsPart /\ \A d \in Succeeded : d = p
      BY <1>1, <2>1 DEF DueUnpaid
    <2>3. Succeeded \cup {c} = {p, c} /\ p # c /\ p \in Charges
      BY <1>1, <2>2
    <2>4. \E q \in Charges, d \in Charges :
             /\ q # d /\ Succeeded \cup {c} = {q, d}
             /\ charge[q].amount = PointsPart /\ charge[d].amount = Payable - PointsPart
      BY <1>1, <2>1, <2>2, <2>3
    <2> QED BY <1>2, <2>4 DEF Whole
  <1> QED BY <1>3, <1>4

LEMMA FinishExact ==
  ASSUME Types, Written, Calm, Exact, Types', Calm', ~raced', NEW r \in Requests, Finish(r)
  PROVE  Exact'
  <1>1. PICK c : c = req[r].c
    OBVIOUS
  <1>0. /\ OthersStay(r) /\ req \in [Requests -> Work] /\ req' \in [Requests -> Work]
        /\ req[r] \in Work /\ charge \in [Charges -> Charged] /\ Due /\ Unasked
    BY RequestMoves DEF OthersStay, Types, RowTypes, Step, Completion, Exact
  <1>2. /\ Settles(r) /\ Unlocked /\ c \in Charges /\ UNCHANGED <<deferred, payment, dead>>
        /\ req[r].pay \in {None, c} \/ ~deferred
    <2>1. /\ Settles(r) /\ Unlocked /\ c \in Charges /\ UNCHANGED <<deferred, payment, dead>>
      BY <1>1, DecisionFacts DEF Finish, Settles, toss
    <2>2. Deciding(r) /\ deferred => req[r].pay = c
      BY <1>1 DEF Exact, Own
    <2>3. ~Deciding(r) => req[r].pay = None
      BY <2>1, DecisionFacts DEF Settles
    <2> QED BY <2>1, <2>2, <2>3
  <1>3. /\ ~Confirming(r)' /\ ~Deciding(r)' /\ ~Abandoning(r)'
    <2>1. CASE Ends(r)
      BY <1>0, <2>1, EndsMoves DEF IdleRequest, Confirming, Deciding, Abandoning
    <2>2. CASE ~Ends(r)
      <3>1. req' = [req EXCEPT ![r] = [IdleRequest EXCEPT !.op = req[r].op, !.at = "capture"]]
        BY <2>2 DEF Finish
      <3>2. req'[r].at = "capture"
        BY <1>0, <3>1 DEF IdleRequest
      <3> QED BY <3>2 DEF Confirming, Deciding, Abandoning
    <2> QED BY <2>1, <2>2
  <1>4. (ReleaseUnderWay => ReleaseUnderWay') /\ ~Abandoning(r)
    BY <1>0, <1>2, UnderWayStays DEF Settles, Abandoning
  <1> DEFINE to == IF req[r].ok THEN "AUTHORIZED" ELSE "CREATED"
             done == IF req[r].ok THEN "SUCCEEDED" ELSE "FAILED"
  \* A payment that was taken is not refused: the charge would not be active.
  <1>5. CASE ~Allowed(intent, to)
    <2>1. UNCHANGED <<intent, charge>>
      BY <1>5 DEF Finish
    <2>2. ASSUME NEW d \in Charges, deferred, Hand(r, d), charge[d].status = "REQUIRES_ACTION",
                 payment[d] = "done"
          PROVE  FALSE
      <3>1. d \in ActiveCharges /\ intent \notin {"PROCESSING", "REQUIRES_ACTION"}
        BY <1>5, <2>2 DEF ActiveCharges, Active, Hand, Allowed
      <3>2. intent = "CREATED"
        BY <1>0, <3>1 DEF Due, Unpaid
      <3> QED BY <1>0, <2>2, <3>1, <3>2 DEF Unasked, Closing
    <2> QED BY <1>0, <1>2, <1>3, <1>4, <2>1, <2>2, QuietExact
  <1>6. CASE Allowed(intent, to)
    <2>1. /\ intent' = to /\ intent \in {"PROCESSING", "REQUIRES_ACTION"}
          /\ charge' = [charge EXCEPT ![c].status = done,
                          ![c].key = IF req[r].ok THEN req[r].pay ELSE @]
          /\ req[r].ok => Writes(r, {c})
      BY <1>1, <1>6 DEF Finish, Allowed
    <2>2. /\ \A d \in Charges \ {c} : charge'[d] = charge[d]
          /\ charge'[c].status = done
          /\ charge'[c].key = IF req[r].ok THEN req[r].pay ELSE charge[c].key
          /\ charge'[c].method = charge[c].method /\ charge'[c].amount = charge[c].amount
          /\ charge'[c].staged = charge[c].staged
      BY <1>0, <1>2, <2>1 DEF Charged
    <2>3. /\ c \in ActiveCharges /\ Asks(c) /\ \A d \in ActiveCharges : d = c
          /\ charge[c].method \in {"POINTS", "TOSS"}
          /\ charge[c].method = "POINTS" /\ req[r].ok => charge[c].amount = Payable
      <3>1. intent \in Unpaid
        BY <2>1 DEF Unpaid
      <3> QED BY <1>1, <1>2, <3>1, SettlesActive
    <2>4. /\ TermsStay /\ ActiveCharges' = {}
          /\ Succeeded' = IF req[r].ok THEN Succeeded \cup {c} ELSE Succeeded
      <3>1. charge[c].status \in {"CREATED", "REQUIRES_ACTION"}
        BY <2>3 DEF ActiveCharges, Active
      <3>2. TermsStay
        BY <2>2, <3>1 DEF TermsStay
      <3>3. ActiveCharges' = {}
        BY <2>2, <2>3 DEF ActiveCharges, Active
      <3>4. Succeeded' = IF req[r].ok THEN Succeeded \cup {c} ELSE Succeeded
        BY <1>2, <2>2, <3>1 DEF Succeeded
      <3> QED BY <3>2, <3>3, <3>4
    <2>5. Due'
      <3>1. CASE req[r].ok
        <4>1. ASSUME NEW q \in Requests, req[q].at = "undo" PROVE FALSE
          <5>1. q # r /\ req[q].op \in Releasers
            BY <1>2, <4>1 DEF Settles, Types, RequestOK, OfItsKind
          <5>2. ~Releasing(q, c)
            BY <2>1, <3>1, <5>1, Unraced
          <5>3. req[q].op = "abandon"
            BY <4>1, <5>1, <5>2 DEF Releasing, Releasers
          <5>4. lock = q
            BY <5>3 DEF Types, RequestOK
          <5> QED BY <1>2, <5>4, PaymentsAssumption DEF Unlocked
        <4>2. ~ReleaseUnderWay
          BY <4>1 DEF ReleaseUnderWay
        <4>3. PICK S : S = Succeeded \cup {c}
          OBVIOUS
        <4>4. Whole(S) /\ S \in SUBSET Existing
          BY <1>0, <2>1, <2>3, <3>1, <4>2, <4>3, MakesWhole
        <4>5. Whole(S)' /\ S \in SUBSET Existing'
          BY <2>4, <4>4, WholeStays
        <4>6. Succeeded' = S /\ intent' = "AUTHORIZED"
          BY <2>1, <2>4, <3>1, <4>3
        <4>7. DuePaid'
          BY <4>5, <4>6 DEF DuePaid
        <4> QED BY <2>4, <4>6, <4>7 DEF Due, Unpaid
      <3>2. CASE ~req[r].ok
        BY <1>0, <2>1, <2>4, <3>2, DueStep DEF Unpaid
      <3> QED BY <3>1, <3>2
    <2>6. \A d \in Charges \ dead' : deferred /\ payment'[d] = "done" => SettledBy(r, d)
      <3> SUFFICES ASSUME NEW d \in Charges, deferred, payment[d] = "done" PROVE SettledBy(r, d)
        BY <1>2
      <3>1. charge[c].status # "SUCCEEDED"
        BY <2>3 DEF ActiveCharges, Active
      <3>2. charge[d].status = "SUCCEEDED" => charge'[d].status = "SUCCEEDED"
        BY <2>2, <3>1
      <3>3. Hand(r, d) => charge'[d].status = "SUCCEEDED"
        BY <1>1, <2>2 DEF Hand, Exact, Own
      <3> QED BY <3>2, <3>3 DEF SettledBy
    <2>7. deferred => \A d \in Charges : /\ charge'[d].staged \in {None, d, charge[d].staged}
                                         /\ charge'[d].key \in {None, d, charge[d].key}
      BY <1>2, <2>2
    <2> QED BY <1>0, <1>2, <1>3, <2>4, <2>5, <2>6, <2>7, StepExact DEF Unasked
  <1> QED BY <1>5, <1>6

\* Capture takes what succeeded as it is.
LEMMA CompletionExact ==
  ASSUME Types, Written, Calm, Exact, Types', Calm', ~raced', NEW r \in Requests, Completion(r)
  PROVE  Exact'
  <1>0. /\ OthersStay(r) /\ req \in [Requests -> Work] /\ req' \in [Requests -> Work]
        /\ req[r] \in Work /\ RequestOK(r) /\ Due /\ Unasked /\ Price /\ Own
    BY RequestMoves DEF OthersStay, Types, Step, Exact
  <1>1. CASE Finish(r)
    BY <1>1, FinishExact
  <1>2. CASE Wait(r)
    <2>1. req[r].at = "finish" /\ Goes(r, "waiting") /\ UNCHANGED <<intent, deferred, charge, payment, dead>>
      BY <1>2 DEF Wait, rows, toss, history
    <2>2. req'[r] = [req[r] EXCEPT !.at = "waiting"]
      BY <1>0, <2>1, GoesMoves DEF Places
    <2>3. /\ req'[r].at = "waiting" /\ req'[r].op = req[r].op /\ req'[r].c = req[r].c
          /\ req'[r].pay = req[r].pay /\ req'[r].ok = req[r].ok
      BY <1>0, <2>2 DEF Work
    <2>4. ReleaseUnderWay => ReleaseUnderWay'
      BY <1>0, <2>1, UnderWayStays
    <2>5. Confirming(r)' => Priced(r)'
      <3>1. Confirming(r)' => Priced(r)
        BY <1>0, <2>1, <2>3 DEF Confirming, Price
      <3> QED BY <2>1, <2>3, <3>1 DEF Priced, Composite, Settles
    <2>6. deferred /\ Deciding(r)' => req'[r].pay = req'[r].c
      BY <1>0, <2>1, <2>3 DEF Deciding, Own
    <2>7. \A d : Hand(r, d) => Hand(r, d)'
      BY <2>1, <2>3 DEF Hand, Deciding, Settles
    <2>8. ~Abandoning(r)'
      BY <2>3 DEF Abandoning
    <2> QED BY <1>0, <2>1, <2>4, <2>5, <2>6, <2>7, <2>8, QuietExact
  <1>3. ASSUME req[r].at \in {"capture", "legs"}, req'[r].at \in {"idle", "legs"}
        PROVE  /\ intent \notin Unpaid /\ (ReleaseUnderWay => ReleaseUnderWay')
               /\ ~Confirming(r)' /\ ~Deciding(r)' /\ ~Abandoning(r)' /\ \A d : ~Hand(r, d)
    <2>1. ReleaseUnderWay => ReleaseUnderWay'
      BY <1>0, <1>3, UnderWayStays
    <2>2. \A d : ~Hand(r, d)
      BY <1>3, NoHand
    <2> QED BY <1>0, <1>3, <2>1, <2>2 DEF RequestOK, Confirming, Deciding, Abandoning
  <1>4. CASE ListLegs(r)
    <2>1. req[r].at = "capture" /\ UNCHANGED <<intent, deferred, charge, payment, dead>>
      BY <1>4 DEF ListLegs, rows, toss, history
    <2>2. req'[r].at \in {"idle", "legs"}
      <3>1. CASE Ends(r)
        BY <1>0, <3>1, EndsMoves DEF IdleRequest
      <3>2. CASE req' = [req EXCEPT ![r].at = "legs", ![r].legs = Succeeded]
        BY <1>0, <3>2 DEF Work
      <3> QED BY <1>4, <3>1, <3>2 DEF ListLegs
    <2> QED BY <1>0, <1>3, <2>1, <2>2, QuietExact
  <1>5. CASE CaptureLeg(r)
    <2>1. req[r].at = "legs" /\ UNCHANGED <<intent, deferred, charge, payment, dead>>
      BY <1>5 DEF CaptureLeg, toss
    <2>2. req'[r].at = "legs"
      BY <1>0, <1>5 DEF CaptureLeg, Work
    <2> QED BY <1>0, <1>3, <2>1, <2>2, QuietExact
  <1>6. CASE Capture(r)
    <2>1. /\ req[r].at = "legs" /\ Ends(r) /\ UNCHANGED <<deferred, charge, payment, dead>>
          /\ \/ intent' = intent
             \/ intent \in {"AUTHORIZED", "PARTIALLY_CAPTURED"} /\ intent' \in {"CAPTURED", "PARTIALLY_CAPTURED"}
             \/ intent \in Unpaid
      BY <1>6 DEF Capture, rows, toss, history, Allowed, Unpaid
    <2>2. req'[r].at = "idle"
      BY <1>0, <2>1, EndsMoves DEF IdleRequest
    <2>3. /\ TermsStay /\ Succeeded' = Succeeded /\ ActiveCharges' = ActiveCharges
      BY <2>1 DEF TermsStay, Succeeded, ActiveCharges, Active
    <2>4. /\ intent \notin Unpaid /\ intent' \notin Unpaid
          /\ intent' \notin {"CANCELED"} => intent # "CANCELED"
          /\ intent' # "CREATED"
      BY <1>3, <2>1, <2>2 DEF Unpaid
    <2>5. Due'
      BY <1>0, <1>3, <2>1, <2>2, <2>3, <2>4, DueStep DEF Unpaid
    <2>6. Unasked'
      BY <1>0, <1>3, <2>1, <2>2, <2>3, <2>4, UnaskedStep
    <2>7. \A d \in Charges \ dead' : deferred /\ payment'[d] = "done" => SettledBy(r, d)
      BY <1>3, <2>1, <2>2 DEF SettledBy
    <2> QED BY <1>0, <1>3, <2>1, <2>2, <2>3, <2>5, <2>6, <2>7, StepExact
  <1> QED BY <1>1, <1>2, <1>4, <1>5, <1>6 DEF Completion

\* What is given up was active, or is given back with what it was paid with.
LEMMA ReleaseExact ==
  ASSUME Types, Written, Calm, Exact, Types', Calm', ~raced', NEW r \in Requests, Release(r)
  PROVE  Exact'
  <1>0. /\ OthersStay(r) /\ req \in [Requests -> Work] /\ req' \in [Requests -> Work]
        /\ req[r] \in Work /\ req[r].legs \subseteq Charges /\ RequestOK(r) /\ Due /\ Unasked /\ Own
        /\ charge \in [Charges -> Charged] /\ payment \in [Charges -> {"none", "ready"} \cup Settled]
    BY RequestMoves DEF OthersStay, Types, RowTypes, Step, Exact, Work
  <1>1. /\ req[r].at \in {"release", "drop", "list", "undo"} /\ req[r].op \in Releasers
        /\ ReleaseStands(r) /\ \A d : ~Hand(r, d)
    <2>1. req[r].at \in {"release", "drop", "list", "undo"}
      BY DEF Release, FindActive, DropActive, ListSucceeded, UndoLeg, CloseIntent
    <2>2. req[r].op \in Releasers
      BY <1>0, <2>1 DEF RequestOK, OfItsKind
    <2>3. ReleaseStands(r)
      BY <2>2 DEF Calm, Stands
    <2>4. \A d : ~Hand(r, d)
      BY <2>1, NoHand
    <2> QED BY <2>1, <2>2, <2>3, <2>4
  <1>2. ASSUME req'[r].op \in {"none", "abandon", "cancel"} PROVE ~Confirming(r)' /\ ~Deciding(r)'
    BY <1>2 DEF Confirming, Deciding
  <1>3. Ends(r) => req'[r].op = "none" /\ req'[r].at = "idle" /\ ~Abandoning(r)'
    BY <1>0, EndsMoves DEF IdleRequest, Abandoning
  <1>4. CASE FindActive(r)
    <2>1. req[r].at = "release" /\ UNCHANGED <<intent, deferred, charge, payment, dead>>
      BY <1>4 DEF FindActive, rows, toss, history
    <2>2. req'[r].op = req[r].op /\ (req'[r].at = "drop" \/ ActiveCharges = {})
      <3>1. CASE \E d \in ActiveCharges : req' = [req EXCEPT ![r].at = "drop", ![r].c = d]
        BY <1>0, <3>1 DEF Work
      <3>2. CASE ActiveCharges = {} /\ Goes(r, "list")
        BY <1>0, <3>2, GoesMoves DEF Work, Places
      <3> QED BY <1>4, <3>1, <3>2 DEF FindActive
    <2>3. /\ ReleaseUnderWay => ReleaseUnderWay'
          /\ ~Confirming(r)' /\ ~Deciding(r)' /\ (Abandoning(r)' => ActiveCharges = {})
      BY <1>0, <1>1, <1>2, <2>1, <2>2, UnderWayStays DEF Releasers, Abandoning
    <2> QED BY <1>0, <1>1, <2>1, <2>3, QuietExact
  <1>5. CASE ListSucceeded(r)
    <2>1. req[r].at = "list" /\ UNCHANGED <<intent, deferred, charge, payment, dead>>
      BY <1>5 DEF ListSucceeded, rows, toss, history
    <2>2. req'[r].op = req[r].op
      BY <1>0, <1>5 DEF ListSucceeded, Work
    <2>3. /\ ReleaseUnderWay => ReleaseUnderWay'
          /\ ~Confirming(r)' /\ ~Deciding(r)' /\ (Abandoning(r)' => Abandoning(r))
      BY <1>0, <1>1, <1>2, <2>1, <2>2, UnderWayStays DEF Releasers, Abandoning
    <2> QED BY <1>0, <1>1, <2>1, <2>3, QuietExact
  \* A charge is cancelled. Was it paid, it is paid no longer.
  <1>6. ASSUME NEW e \in Charges, charge' = Status({e}, "CANCELED"),
               UNCHANGED <<intent, deferred, dead>>, req'[r].op = req[r].op,
               charge[e].status # "none",
               \A d \in Charges : \/ payment'[d] = payment[d]
                                  \/ payment[d] = "done" /\ payment'[d] = "returned",
               deferred /\ payment'[e] = "done" => charge[e].status # "SUCCEEDED",
               ReleaseUnderWay' \/ (~ReleaseUnderWay /\ charge[e].status # "SUCCEEDED"),
               Abandoning(r)' => Abandoning(r) \/ ActiveCharges' = {}
        PROVE  Exact'
    <2>1. \A d \in Charges :
            /\ d \in {e} => charge'[d].status = "CANCELED"
            /\ d \notin {e} => charge'[d].status = charge[d].status
            /\ charge'[d].method = charge[d].method /\ charge'[d].amount = charge[d].amount
            /\ charge'[d].key = charge[d].key /\ charge'[d].staged = charge[d].staged
      BY <1>6, StatusTerms
    <2>2. \A d \in Charges \ {e} : charge'[d].status = charge[d].status
      BY <2>1
    <2>3. charge'[e].status = "CANCELED"
      BY <2>1
    <2>4. /\ TermsStay /\ Succeeded' \subseteq Succeeded /\ ActiveCharges' \subseteq ActiveCharges
          /\ charge[e].status # "SUCCEEDED" => Succeeded' = Succeeded
      <3>1. TermsStay
        BY <2>1, <2>2, <2>3 DEF TermsStay
      <3>2. Succeeded' \subseteq Succeeded /\ ActiveCharges' \subseteq ActiveCharges
        BY <2>2, <2>3 DEF Succeeded, ActiveCharges, Active
      <3>3. charge[e].status # "SUCCEEDED" => Succeeded \subseteq Succeeded'
        BY <2>2 DEF Succeeded
      <3> QED BY <3>1, <3>2, <3>3
    <2>5. Due'
      BY <1>0, <1>6, <2>4, DueStep
    <2>6. Unasked'
      <3>1. \A d \in ActiveCharges : payment[d] = "none" => payment'[d] = "none"
        BY <1>6 DEF ActiveCharges
      <3>2. intent' = "CREATED" => Closing
        BY <1>6 DEF Closing
      <3> QED BY <1>0, <1>6, <2>4, <3>1, <3>2, UnaskedStep
    <2>7. \A d \in Charges \ dead' : deferred /\ payment'[d] = "done" => SettledBy(r, d)
      <3> SUFFICES ASSUME NEW d \in Charges, deferred, payment'[d] = "done" PROVE SettledBy(r, d)
        OBVIOUS
      <3>1. payment[d] = "done"
        BY <1>6
      <3>2. charge[d].status = "SUCCEEDED" => charge'[d].status = "SUCCEEDED"
        BY <1>6, <2>2
      <3> QED BY <1>1, <3>1, <3>2 DEF SettledBy
    <2>8. ~Confirming(r)' /\ ~Deciding(r)'
      BY <1>1, <1>2, <1>6 DEF Releasers
    <2> QED BY <1>0, <1>6, <2>1, <2>4, <2>5, <2>6, <2>7, <2>8, StepExact
  <1>7. CASE DropActive(r)
    <2>1. PICK c : c = req[r].c
      OBVIOUS
    <2>2. /\ req[r].at = "drop" /\ charge' = Status({c}, "CANCELED")
          /\ UNCHANGED <<intent, deferred, payment, dead>>
      BY <1>7, <2>1 DEF DropActive, toss
    <2>3. c \in Charges /\ Active(c) /\ c \in ActiveCharges
      BY <1>0, <1>1, <2>1, <2>2 DEF RequestOK, ReleaseStands, ActiveCharges
    <2>4. req'[r].op = req[r].op
      BY <1>0, <1>7 DEF DropActive, Work
    <2>5. charge[c].status \notin {"none", "SUCCEEDED"}
      BY <2>3 DEF Active
    <2>6. ActiveCharges' = {}
      <3>1. \A d \in Charges : charge'[d].status = IF d \in {c} THEN "CANCELED" ELSE charge[d].status
        BY <2>2, StatusTerms
      <3>2. \A d \in ActiveCharges : d = c
        BY <2>3 DEF Written, OneActive
      <3> QED BY <3>1, <3>2 DEF ActiveCharges, Active
    <2>7. ReleaseUnderWay => ReleaseUnderWay'
      BY <1>0, <2>2, UnderWayStays
    <2> QED BY <1>6, <2>2, <2>3, <2>4, <2>5, <2>6, <2>7
  <1>8. CASE UndoLeg(r)
    <2>1. PICK e : e = Min(req[r].legs)
      OBVIOUS
    <2>2. PICK k : k = charge[e].key
      OBVIOUS
    <2>3. /\ req[r].at = "undo" /\ e \in req[r].legs /\ e \in Charges
          /\ UNCHANGED <<intent, deferred, dead>>
      BY <1>0, <1>8, <2>1, MinIn DEF UndoLeg
    <2>4. CASE Ends(r) /\ UNCHANGED <<charge, payment>> /\ (raced' \/ req[r].got = {})
      <3>1. ReleaseUnderWay => ReleaseUnderWay'
        BY <1>0, <2>4, UnderWayStays
      <3> QED BY <1>0, <1>1, <1>2, <1>3, <2>3, <2>4, <3>1, QuietExact
    <2>5. CASE /\ \/ charge[e].method = "POINTS" /\ payment' = payment
                  \/ /\ k # None /\ payment[k] = "done"
                     /\ payment' = [payment EXCEPT ![k] = "returned"]
               /\ charge' = Status({e}, "CANCELED")
               /\ req' = [req EXCEPT ![r].legs = @ \ {e}, ![r].got = @ \cup {e}]
      <3>1. req'[r].op = req[r].op /\ req'[r].at = "undo" /\ req'[r].got # {}
        BY <1>0, <2>3, <2>5 DEF Work
      <3>2. ReleaseUnderWay'
        BY <3>1 DEF ReleaseUnderWay
      <3>3. \A d \in Charges : \/ payment'[d] = payment[d]
                               \/ payment[d] = "done" /\ payment'[d] = "returned"
        BY <1>0, <2>5
      <3>4. ChargeOK(e) /\ charge[e].status # "none"
        BY <2>3 DEF Written, ListOK
      <3>5. ASSUME deferred PROVE payment'[e] # "done"
        <4>1. CASE charge[e].method = "POINTS" /\ payment' = payment
          BY <3>4, <4>1 DEF ChargeOK
        <4>2. CASE k # None /\ payment' = [payment EXCEPT ![k] = "returned"]
          <5>1. k = e
            BY <1>0, <2>2, <2>3, <3>5, <4>2 DEF Own
          <5> QED BY <1>0, <2>3, <4>2, <5>1
        <4> QED BY <2>5, <4>1, <4>2
      <3>6. Abandoning(r)' => Abandoning(r)
        BY <2>3, <3>1 DEF Abandoning
      <3> QED BY <1>6, <2>3, <2>5, <3>1, <3>2, <3>3, <3>4, <3>5, <3>6
    <2> QED BY <1>8, <2>1, <2>2, <2>4, <2>5 DEF UndoLeg, toss
  <1>9. CASE CloseIntent(r)
    <2> DEFINE to == IF req[r].op = "abandon" THEN "CREATED" ELSE "CANCELED"
    <2>1. /\ Ends(r) /\ req[r].at = "undo" /\ UNCHANGED <<deferred, charge, payment, dead>>
          /\ \/ intent' = intent /\ ~Allowed(intent, to)
             \/ intent' = to /\ Allowed(intent, to)
          /\ raced' \/ req[r].got = {} \/ Allowed(intent, to)
      BY <1>9 DEF CloseIntent, rows, toss
    <2>2. /\ TermsStay /\ Succeeded' = Succeeded /\ ActiveCharges' = ActiveCharges
      BY <2>1 DEF TermsStay, Succeeded, ActiveCharges, Active
    <2>3. CASE ~Allowed(intent, to)
      <3>1. ReleaseUnderWay => ReleaseUnderWay'
        BY <1>0, <2>1, <2>3, UnderWayStays
      <3> QED BY <1>0, <1>1, <1>2, <1>3, <2>1, <2>3, <3>1, QuietExact
    <2>4. CASE Allowed(intent, to)
      <3>1. /\ intent' \in {"CREATED", "CANCELED"}
            /\ intent' = "CREATED" => Abandoning(r) /\ intent \in Unpaid
        BY <1>1, <2>1, <2>4 DEF Allowed, Abandoning, Unpaid
      <3>2. intent' = "CANCELED" => ActiveCharges' = {}
        BY DEF Calm
      <3>3. Due'
        BY <1>0, <2>2, <3>1, <3>2, DueStep DEF Unpaid
      <3>4. intent' = "CREATED" => Closing
        BY <3>1 DEF Closing
      <3>5. Unasked'
        BY <1>0, <1>3, <2>1, <2>2, <3>4, UnaskedStep
      <3>6. \A d \in Charges \ dead' : deferred /\ payment'[d] = "done" => SettledBy(r, d)
        BY <1>1, <2>1 DEF SettledBy
      <3> QED BY <1>0, <1>2, <1>3, <2>1, <2>2, <3>3, <3>5, <3>6, StepExact
    <2> QED BY <2>3, <2>4
  <1> QED BY <1>4, <1>5, <1>7, <1>8, <1>9 DEF Release

\* A request that dies takes its charge along, and an operation of which something is
\* given back.
LEMMA DiesExact ==
  ASSUME Types, Written, Exact, Types', Calm', ~raced', NEW r \in Requests, Dies(r)
  PROVE  Exact'
  <1>1. /\ OthersStay(r) /\ req \in [Requests -> Work] /\ RequestOK(r) /\ Own
    BY RequestMoves DEF OthersStay, Types, Exact
  <1>2. /\ Ends(r) /\ UNCHANGED <<intent, deferred, charge, payment>>
        /\ dead \subseteq dead' /\ (req[r].c \in Charges => req[r].c \in dead')
        /\ req[r].at # "undo" \/ req[r].got = {}
    <2>1. /\ Ends(r) /\ UNCHANGED <<intent, deferred, charge, payment>>
          /\ dead' = dead \cup ({req[r].c} \ {None}) \cup req[r].legs
      BY DEF Dies, rows, toss
    <2>2. req[r].at # "undo" \/ req[r].got = {}
      BY DEF Dies
    <2>3. None \notin Charges
      BY DEF None, Charges
    <2>4. req[r].c \in Charges => req[r].c \in dead'
      BY <2>1, <2>3
    <2> QED BY <2>1, <2>2, <2>4
  <1>3. ~Confirming(r)' /\ ~Deciding(r)' /\ ~Abandoning(r)'
    BY <1>1, <1>2, EndsMoves DEF IdleRequest, Confirming, Deciding, Abandoning
  <1>4. \A d \in Charges \ dead' : deferred => ~Hand(r, d)
    BY <1>1, <1>2 DEF Hand, Own
  <1>5. ReleaseUnderWay => ReleaseUnderWay'
    BY <1>1, <1>2, UnderWayStays
  <1> QED BY <1>1, <1>2, <1>3, <1>4, <1>5, QuietExact

\* No request moves: Toss closes a window that nobody approved, or nothing happens.
LEMMA RestExact ==
  ASSUME Types, Exact, Calm', UNCHANGED <<intent, deferred, charge, req, dead>>,
         \A c \in Charges : /\ payment'[c] = "done" => payment[c] = "done"
                            /\ payment[c] = "none" => payment'[c] = "none"
  PROVE  Exact'
  <1>1. /\ TermsStay /\ Succeeded' = Succeeded /\ ActiveCharges' = ActiveCharges
        /\ ReleaseUnderWay' = ReleaseUnderWay /\ ActiveCharges \subseteq Charges
    BY DEF TermsStay, Succeeded, ActiveCharges, Active, ReleaseUnderWay
  <1>2. Due'
    BY <1>1, DueStep DEF Exact
  <1>3. Price'
    BY DEF Exact, Price, Confirming, Priced, Composite, Settles
  <1>4. Own'
    BY DEF Exact, Own, Deciding
  <1>5. Settling'
    <2> SUFFICES ASSUME deferred, NEW c \in Charges \ dead, payment'[c] = "done"
                 PROVE  \/ charge[c].status = "SUCCEEDED"
                        \/ charge[c].status = "REQUIRES_ACTION" /\ \E q \in Requests : Hand(q, c)'
      BY DEF Settling
    <2>1. \A q \in Requests : Hand(q, c) => Hand(q, c)'
      BY DEF Hand, Deciding, Settles
    <2> QED BY <2>1 DEF Exact, Settling
  <1>6. Unasked'
    <2>1. Closing' <=> Closing
      BY DEF Closing, Abandoning
    <2> QED BY <1>1, <2>1 DEF Exact, Unasked
  <1> QED BY <1>2, <1>3, <1>4, <1>5, <1>6 DEF Exact

LEMMA InitExact == Init => Exact
  <1> SUFFICES ASSUME Init PROVE Exact
    OBVIOUS
  <1>1. /\ intent = "CREATED" /\ \A c \in Charges : charge[c] = NoCharge /\ payment[c] = "none"
        /\ \A r \in Requests : req[r] = IdleRequest
    BY DEF Init
  <1>2. Price /\ Own
    BY <1>1 DEF Price, Confirming, Own, Deciding, IdleRequest, NoCharge
  <1>3. Succeeded = {} /\ ActiveCharges = {}
    BY <1>1 DEF Succeeded, ActiveCharges, Active, NoCharge
  <1>4. Due
    BY <1>1, <1>3 DEF Due, DueUnpaid, Unpaid
  <1>5. Settling
    BY <1>1 DEF Settling
  <1>6. Unasked
    BY <1>3 DEF Unasked
  <1> QED BY <1>2, <1>4, <1>5, <1>6 DEF Exact

LEMMA NextExact ==
  ASSUME Types, Written, Calm, Exact, Types', Calm', ~raced', Next
  PROVE  Exact'
  <1>1. ASSUME NEW r \in Requests, Step(r) PROVE Exact'
    BY <1>1, ConfirmationExact, DecidingExact, CompletionExact, ReleaseExact DEF Step
  <1>2. ASSUME NEW o \in Charges, WindowExpires(o) PROVE Exact'
    <2>1. UNCHANGED <<intent, deferred, charge, req, dead>>
      BY <1>2 DEF WindowExpires, rows, history
    <2>2. payment \in [Charges -> {"none", "ready"} \cup Settled] /\ payment[o] = "ready"
          /\ payment' = [payment EXCEPT ![o] = "expired"]
      BY <1>2 DEF WindowExpires, Types, RowTypes
    <2>3. \A c \in Charges : /\ payment'[c] = "done" => payment[c] = "done"
                             /\ payment[c] = "none" => payment'[c] = "none"
      BY <2>2
    <2> QED BY <2>1, <2>3, RestExact
  <1> QED BY <1>1, <1>2, StartsExact, DiesExact DEF Next

\* The second invariant, relative to the first, as long as nothing is raced.
PaidInv == ~raced => Exact

\* As long as no two requests had a charge in hand at once: the charges that succeeded
\* are no more than the points of one composite attempt until the intent is paid, and the
\* whole afterwards; with deferred approval an order that was paid is recorded for its
\* own charge, or in the hands of who records it; an intent that is open again has no
\* charge a customer was asked for.
THEOREM PaymentsExact == Spec => []PaidInv
  <1>1. Init => PaidInv
    BY InitExact DEF PaidInv
  <1>2. IInv /\ IInv' /\ PaidInv /\ [Next]_vars => PaidInv'
    <2> SUFFICES ASSUME IInv, IInv', PaidInv, [Next]_vars, ~raced' PROVE Exact'
      BY DEF PaidInv
    <2>1. CASE Next
      <3>1. ~raced
        BY <2>1, NextKeeps DEF IInv
      <3> QED BY <2>1, <3>1, NextExact DEF IInv, PaidInv
    <2>2. CASE UNCHANGED vars
      <3>1. UNCHANGED <<intent, deferred, charge, payment, req, raced, dead>>
        BY <2>2 DEF vars, rows, toss, history
      <3> QED BY <3>1, RestExact DEF IInv, PaidInv
    <2> QED BY <2>1, <2>2
  <1> QED BY <1>1, <1>2, Invariance, PTL DEF Spec

\* A whole comes to what is due, and a part of it to no more.
LEMMA WholeSum ==
  ASSUME NEW S, Whole(S), NEW T \in SUBSET S
  PROVE  Sum(S) = Payable /\ Sum(T) <= Payable
  <1>1. ASSUME NEW c \in Charges, S = {c}, charge[c].amount = Payable, NEW R \in SUBSET S
        PROVE  Sum(R) = IF c \in R THEN Payable ELSE 0
    <2>1. R \in SUBSET {c, c} /\ \A x \in R : charge[x].amount \in Nat
      BY <1>1, PaymentsAssumption
    <2>2. Sum(R) = (IF c \in R THEN charge[c].amount ELSE 0)
                   + (IF c \in R /\ c # c THEN charge[c].amount ELSE 0)
      BY <2>1, SumOfFew
    <2> QED BY <1>1, <2>2, PaymentsAssumption
  <1>2. ASSUME NEW p \in Charges, NEW c \in Charges, p # c, S = {p, c},
               charge[p].amount = PointsPart, charge[c].amount = Payable - PointsPart,
               NEW R \in SUBSET S
        PROVE  Sum(R) = (IF p \in R THEN PointsPart ELSE 0)
                        + (IF c \in R THEN Payable - PointsPart ELSE 0)
    <2>1. R \in SUBSET {p, c} /\ \A x \in R : charge[x].amount \in Nat
      BY <1>2, PaymentsAssumption
    <2>2. Sum(R) = (IF p \in R THEN charge[p].amount ELSE 0)
                   + (IF c \in R /\ c # p THEN charge[c].amount ELSE 0)
      BY <2>1, SumOfFew
    <2> QED BY <1>2, <2>2
  <1>3. ASSUME NEW c \in Charges, S = {c}, charge[c].amount = Payable
        PROVE  Sum(S) = Payable /\ Sum(T) <= Payable
    BY <1>1, <1>3, PaymentsAssumption
  <1>4. ASSUME NEW p \in Charges, NEW c \in Charges, p # c, S = {p, c},
               charge[p].amount = PointsPart, charge[c].amount = Payable - PointsPart
        PROVE  Sum(S) = Payable /\ Sum(T) <= Payable
    BY <1>2, <1>4, PaymentsAssumption
  <1> QED BY <1>3, <1>4 DEF Whole

\* An intent is AUTHORIZED or CAPTURED only while the charges that succeeded make up
\* exactly the amount due, whichever attempts went before and whoever settled them:
\* the response, a webhook or the finalization.
THEOREM PaidExactly == Spec => []PaidInFull
  <1>1. PaidInv => PaidInFull
    <2> SUFFICES ASSUME Exact, intent \in {"AUTHORIZED", "CAPTURED"}, ~ReleaseUnderWay
                 PROVE  Sum(Succeeded) = Payable
      BY DEF PaidInFull, PaidInv
    <2>1. DuePaid
      BY DEF Exact, Due, Unpaid
    <2>2. Whole(Succeeded)
      BY <2>1 DEF DuePaid
    <2> QED BY <2>2, WholeSum
  <1> QED BY <1>1, PaymentsExact, PTL

\* With deferred approval the customer never pays more than is due: over all the attempts
\* and windows, what Toss has taken and what is held or redeemed of points come to no
\* more, for the charges whose requests live.
THEOREM NeverPaidTwice == Spec => []NotPaidTwice
  <1> DEFINE Taken(c) == payment[c] = "done" \/ hold[c] \in {"AUTHORIZED", "CAPTURED"}
  <1>1. ASSUME IInv, Exact, deferred, ~raced, NEW T, T = {c \in Charges \ dead : Taken(c)}
        PROVE  Sum(T) <= Payable
    <2>1. /\ Types /\ Written /\ Calm /\ Due /\ Settling /\ Succeeded \subseteq Charges
          /\ ActiveCharges \subseteq Charges
      BY <1>1, Picked DEF IInv, Exact
    <2>2. T \subseteq Succeeded \cup ActiveCharges
      <3> SUFFICES ASSUME NEW c \in Charges \ dead, Taken(c)
                   PROVE  charge[c].status \in {"SUCCEEDED", "CREATED", "REQUIRES_ACTION"}
        BY <1>1 DEF Succeeded, ActiveCharges, Active
      <3>1. payment[c] = "done" => charge[c].status \in {"SUCCEEDED", "REQUIRES_ACTION"}
        BY <1>1, <2>1 DEF Settling
      <3>2. Backed(c)
        BY <2>1 DEF Calm
      <3> QED BY <3>1, <3>2 DEF Backed
    <2>3. \A c \in Charges : charge[c].amount \in 0 .. Payable
      BY <2>1 DEF Types, RowTypes, Charged
    <2>4. Sum({}) = 0
      <3>1. Sum({}) = (IF 0 \in {} THEN charge[0].amount ELSE 0)
                      + (IF 0 \in {} /\ 0 # 0 THEN charge[0].amount ELSE 0)
        BY SumOfFew
      <3> QED BY <3>1
    <2>5. CASE intent = "CANCELED"
      <3>1. T = {}
        BY <2>1, <2>2, <2>5 DEF Calm
      <3> QED BY <2>4, <3>1, PaymentsAssumption
    <2>6. CASE intent \notin Unpaid \cup {"CANCELED"}
      <3>1. DuePaid /\ T \subseteq Succeeded
        BY <2>1, <2>2, <2>6 DEF Due
      <3>2. PICK S : Whole(S) /\ Succeeded \subseteq S
        BY <3>1 DEF DuePaid
      <3> QED BY <3>1, <3>2, WholeSum
    <2>7. CASE intent \in Unpaid
      <3>1. DueUnpaid
        BY <2>1, <2>7 DEF Due
      <3>2. \A c \in ActiveCharges, d \in ActiveCharges : c = d
        BY <2>1 DEF Written, OneActive
      \* One charge, of whatever amount,
      <3>3. ASSUME NEW c \in Charges, T \subseteq {c} PROVE Sum(T) <= Payable
        <4>1. T \in SUBSET {c, c} /\ \A x \in T : charge[x].amount \in Nat
          BY <2>3, <3>3, PaymentsAssumption
        <4>2. Sum(T) = (IF c \in T THEN charge[c].amount ELSE 0)
                       + (IF c \in T /\ c # c THEN charge[c].amount ELSE 0)
          BY <4>1, SumOfFew
        <4> QED BY <2>3, <4>2, PaymentsAssumption
      \* or the points that were paid, and the charge for the rest.
      <3>4. ASSUME NEW p \in Succeeded, NEW c \in ActiveCharges, c \in T
            PROVE  Sum(T) <= Payable
        <4>1. ChargeOK(c) /\ Taken(c) /\ p \in Charges /\ c \in Charges /\ p # c
          BY <1>1, <2>1, <3>4 DEF Written, Succeeded, ActiveCharges, Active
        <4>2. charge[c].method \in {"POINTS", "TOSS"}
          BY <4>1 DEF ChargeOK
        <4>3. charge[c].amount = Payable - PointsPart /\ charge[p].amount = PointsPart
          BY <3>1, <3>4, <4>2 DEF DueUnpaid, Asks
        <4>4. T \subseteq {p, c}
          BY <2>2, <3>1, <3>2, <3>4 DEF DueUnpaid
        <4>5. Whole({p, c})
          BY <4>1, <4>3 DEF Whole
        <4> QED BY <4>4, <4>5, WholeSum
      <3>5. CASE Succeeded = {} \/ T \cap ActiveCharges = {}
        <4>1. T = {} \/ \E c \in Charges : T \subseteq {c}
          BY <2>1, <2>2, <3>1, <3>2, <3>5 DEF DueUnpaid
        <4> QED BY <2>4, <3>3, <4>1, PaymentsAssumption
      <3> QED BY <3>4, <3>5
    <2> QED BY <2>5, <2>6, <2>7
  <1>2. IInv /\ PaidInv => NotPaidTwice
    BY <1>1 DEF PaidInv, NotPaidTwice
  <1> QED BY <1>2, Invariance, PaymentsExact, PTL
=============================================================================
