------------------------------ MODULE Payments -------------------------------
(***************************************************************************)
(* The payment of one intent of apps/wallet: confirmation with points, with *)
(* Toss or with both, approval at once or deferred, webhooks, abandoning,   *)
(* cancelling and expiry, capture.  The points ledger and Toss are the      *)
(* providers.                                                               *)
(*                                                                          *)
(* The intent moves by the table of allowed transitions, under a row lock.  *)
(* Its charges are rows of their own whose status is overwritten by id,     *)
(* whatever it was; the providers are called outside any transaction.       *)
(*                                                                          *)
(* Toss knows a payment by the order number, which is the charge it was     *)
(* opened for.  Only Toss's own windows need an action of the customer.     *)
(***************************************************************************)
EXTENDS Integers, FiniteSets, FiniteSetsExt

CONSTANTS
  Requests,    \* requests at work on the intent
  Nobody,      \* holds the row lock of the intent
  Payable,     \* payableAmount
  PointsPart,  \* what a composite plan pays with points
  \* Bounds of the model, not of the code:
  MaxCharges, MaxFaults, MaxStarts

ASSUME PaymentsAssumption ==
  /\ Nobody \notin Requests
  /\ Payable \in Nat /\ PointsPart \in 1 .. Payable - 1
  /\ MaxCharges \in Nat /\ MaxFaults \in Nat /\ MaxStarts \in Nat

Charges == 1 .. MaxCharges
None == 0

VARIABLES
  intent,    \* its status
  deferred,  \* approvalMode = DEFERRED
  charge,    \* the rows of AUTHORIZE charges
  made,      \* how many ids are taken
  captured,  \* status of the CAPTURE charge that belongs to a charge
  hold,      \* the point hold of a charge
  payment,   \* Toss, by order number
  notices,   \* orders of which Toss has something to tell
  receipts,  \* <<order, status>> of the webhooks that were received
  flagged,   \* orders left to a human: DEPOSIT_ON_CANCELED_CHARGE
  req,       \* the requests
  lock,      \* who holds the row of the intent over several steps
  \* history
  raced,     \* charges were released under another request's hands, or released
             \* and the intent did not follow, or set back under a later attempt
  dead,      \* charges whose request died
  lost,      \* orders that were paid and then refused, whose webhook was not carried
             \* through, or whose charge another order decided
  starts,    \* operations begun
  faults

rows == <<charge, made, captured>>
ledger == <<hold>>
toss == <<payment, notices>>
hooks == <<receipts, flagged>>
history == <<raced, dead, lost, faults>>
vars == <<intent, deferred, rows, ledger, toss, hooks, req, lock, history, starts>>

Unpaid == {"CREATED", "PROCESSING", "REQUIRES_ACTION"}
Active(c) == charge[c].status \in {"CREATED", "REQUIRES_ACTION"}
ActiveCharges == {c \in Charges : Active(c)}
Succeeded == {c \in Charges : charge[c].status = "SUCCEEDED"}
PointsHeld == {c \in Succeeded : charge[c].method = "POINTS"}
\* One is looked for, in no order.
StaleHold == IF PointsHeld = {} THEN {} ELSE {Min(PointsHeld)}

IdleRequest == [op |-> "none", at |-> "idle", c |-> None, pay |-> None, ok |-> FALSE,
                was |-> "none", legs |-> {}, got |-> {}, missed |-> {}]
NoCharge == [method |-> "none", amount |-> 0, status |-> "none",
             key |-> None, staged |-> None]

Init ==
  /\ intent = "CREATED" /\ deferred \in BOOLEAN
  /\ charge = [c \in Charges |-> NoCharge] /\ made = 0
  /\ captured = [c \in Charges |-> "none"]
  /\ hold = [c \in Charges |-> "none"]
  /\ payment = [c \in Charges |-> "none"] /\ notices = {}
  /\ receipts = {} /\ flagged = {}
  /\ req = [r \in Requests |-> IdleRequest] /\ lock = Nobody
  /\ raced = FALSE /\ dead = {} /\ lost = {} /\ starts = 0 /\ faults = 0

Idle(r) == req[r].at = "idle"
Ends(r) == req' = [req EXCEPT ![r] = IdleRequest]
Goes(r, at) == req' = [req EXCEPT ![r].at = at]
Unlocked == lock = Nobody
Fault == faults < MaxFaults /\ faults' = faults + 1

\* A transaction that has written the charge waits for the intent with it.
RowHeld(c) == \E r \in Requests : req[r].at = "waiting" /\ req[r].c = c

\* transitionIntent: the rules. What is not allowed throws and rolls back.
Allowed(from, to) ==
  \/ from = "CREATED" /\ to \in {"PROCESSING", "CANCELED"}
  \/ from = "PROCESSING" /\ to \in {"AUTHORIZED", "REQUIRES_ACTION", "CREATED", "CANCELED"}
  \/ from = "REQUIRES_ACTION" /\ to \in {"PROCESSING", "AUTHORIZED", "CREATED", "CANCELED"}
  \/ from = "AUTHORIZED" /\ to \in {"CAPTURED", "PARTIALLY_CAPTURED", "CANCELED"}
  \/ from = "PARTIALLY_CAPTURED" /\ to \in {"CAPTURED", "CANCELED"}

-----------------------------------------------------------------------------
(* History: a charge is released or failed while another request has it in  *)
(* hand, or written while another request is about to release it            *)

InHand(q, c) ==
  req[q].at # "idle" /\ (c = req[q].c \/ c \in req[q].legs \/ req[q].op = "cancel")
Releasing(q, c) ==
  \/ req[q].op = "cancel" /\ req[q].at # "idle"
  \/ req[q].at = "drop" /\ c = req[q].c
  \/ req[q].at = "undo" /\ c \in req[q].legs
Releases(r, cs) ==
  raced' = (raced \/ \E q \in Requests \ {r}, c \in cs : InHand(q, c))
Writes(r, cs) ==
  raced' = (raced \/ \E q \in Requests \ {r}, c \in cs : Releasing(q, c))

-----------------------------------------------------------------------------
(* ConfirmService, phase 1 *)

\* Mutant: the charge is cancelled and the ledger is not told.
Unheld_NotTold(cs) == UNCHANGED hold

\* cancelSucceededPointsHold: on a connection of its own, and the charge becomes
\* CANCELED whatever the ledger answers.
Unheld(cs) ==
  hold' = [c \in Charges |-> IF c \in cs /\ hold[c] = "AUTHORIZED"
                             THEN "CANCELLED" ELSE hold[c]]
Status(cs, status) ==
  [c \in Charges |-> IF c \in cs THEN [charge[c] EXCEPT !.status = status] ELSE charge[c]]

NewCharge(method, amount) ==
  [NoCharge EXCEPT !.method = method, !.amount = amount, !.status = "CREATED"]

FirstCharge(plan) ==
  CASE plan = "points" -> NewCharge("POINTS", Payable)
    [] plan = "toss" -> NewCharge("TOSS", Payable)
    [] plan = "both" -> NewCharge("POINTS", PointsPart)

\* Mutant: the points of an earlier attempt are forgotten.
Confirm_ForgetsPoints(r, plan) ==
  LET c == made + 1
      old == ActiveCharges
  IN
  /\ Idle(r) /\ Unlocked /\ intent \in {"CREATED", "REQUIRES_ACTION"}
  /\ made + (IF plan = "both" THEN 2 ELSE 1) <= MaxCharges
  /\ \A o \in old : ~RowHeld(o)
  /\ UNCHANGED hold
  /\ charge' = [Status(old, "CANCELED") EXCEPT ![c] = FirstCharge(plan)]
  /\ made' = made + (IF plan = "both" THEN 2 ELSE 1)
  /\ intent' = "PROCESSING"
  /\ req' = [req EXCEPT ![r].op = "confirm", ![r].c = c,
                        ![r].at = IF plan = "both" THEN "discount" ELSE "primary"]
  /\ Releases(r, old \cup {c})
  /\ UNCHANGED <<deferred, captured, toss, hooks, lock, dead, lost, faults>>

\* The charge that is still active and the points that are held are released, the
\* first charge of the plan is made.
Confirm(r, plan) ==
  LET c == made + 1
      old == ActiveCharges \cup StaleHold
  IN
  /\ Idle(r) /\ Unlocked /\ intent \in {"CREATED", "REQUIRES_ACTION"}
  /\ made + (IF plan = "both" THEN 2 ELSE 1) <= MaxCharges
  /\ \A o \in old : ~RowHeld(o)
  /\ Unheld(StaleHold)
  /\ charge' = [Status(old, "CANCELED") EXCEPT ![c] = FirstCharge(plan)]
  /\ made' = made + (IF plan = "both" THEN 2 ELSE 1)
  /\ intent' = "PROCESSING"
  /\ req' = [req EXCEPT ![r].op = "confirm", ![r].c = c,
                        ![r].at = IF plan = "both" THEN "discount" ELSE "primary"]
  /\ Releases(r, old \cup {c})
  /\ UNCHANGED <<deferred, captured, toss, hooks, lock, dead, lost, faults>>

\* An intent that is PROCESSING cannot become it again, a method may not be found:
\* all is rolled back but the release of the points.
ConfirmAgain(r) ==
  /\ Idle(r) /\ Unlocked /\ intent \in Unpaid /\ PointsHeld # {}
  /\ Unheld(StaleHold) /\ charge' = Status(StaleHold, "CANCELED")
  /\ raced' = TRUE
  /\ UNCHANGED <<intent, deferred, made, captured, toss, hooks, req, lock,
                 dead, lost, faults>>

-----------------------------------------------------------------------------
(* ConfirmService, phase 2 *)

\* PointsLedgerService.authorize; the balance may not suffice.
HoldPoints(r) ==
  /\ req[r].at = "discount"
  /\ charge' = Status(StaleHold, "CANCELED") /\ Releases(r, StaleHold)
  /\ \/ hold' = [c \in Charges |->
                   IF c = req[r].c THEN "AUTHORIZED"
                   ELSE IF c \in StaleHold /\ hold[c] = "AUTHORIZED" THEN "CANCELLED"
                   ELSE hold[c]]
        /\ Goes(r, "held")
     \/ Unheld(StaleHold) /\ req' = [req EXCEPT ![r].at = "finish", ![r].ok = FALSE]
  /\ UNCHANGED <<intent, deferred, made, captured, toss, hooks, lock, dead, lost, faults>>

MarkHeld(r) ==
  /\ req[r].at = "held" /\ ~RowHeld(req[r].c)
  /\ charge' = Status({req[r].c}, "SUCCEEDED") /\ Writes(r, {req[r].c})
  /\ Goes(r, "split")
  /\ UNCHANGED <<intent, deferred, made, captured, ledger, toss, hooks, lock,
                 dead, lost, faults>>

\* One charge of an intent may be active (uq_charges_active_intent_operation).
MakePrimary(r) ==
  /\ req[r].at = "split"
  /\ IF ActiveCharges # {}
     THEN Ends(r) /\ UNCHANGED <<charge, raced>>
     ELSE LET c == req[r].c + 1 IN
          /\ charge' = [charge EXCEPT ![c] = NewCharge("TOSS", Payable - PointsPart)]
          /\ req' = [req EXCEPT ![r].at = "primary", ![r].c = c, ![r].legs = {req[r].c}]
          /\ Writes(r, {c})
  /\ UNCHANGED <<intent, deferred, made, captured, ledger, toss, hooks, lock,
                 dead, lost, faults>>

PointsPrimary(r) ==
  /\ req[r].at = "primary" /\ charge[req[r].c].method = "POINTS"
  /\ \/ hold' = [hold EXCEPT ![req[r].c] = "AUTHORIZED"]
        /\ req' = [req EXCEPT ![r].at = "finish", ![r].ok = TRUE]
     \/ UNCHANGED hold /\ Goes(r, "refused")
  /\ UNCHANGED <<intent, deferred, rows, toss, hooks, lock, history>>

\* The order is only named to the customer.
TossPrimary(r) ==
  LET c == req[r].c IN
  /\ req[r].at = "primary" /\ charge[c].method = "TOSS" /\ ~RowHeld(c)
  /\ IF ActiveCharges \ {c} # {}
     THEN Ends(r) /\ UNCHANGED <<charge, raced>>
     ELSE /\ charge' = Status({c}, "REQUIRES_ACTION") /\ Writes(r, {c})
          /\ Goes(r, "acting")
  /\ UNCHANGED <<intent, deferred, made, captured, ledger, toss, hooks, lock,
                 dead, lost, faults>>

AskCustomer(r) ==
  /\ req[r].at = "acting" /\ Unlocked
  /\ IF Allowed(intent, "REQUIRES_ACTION")
     THEN /\ intent' = "REQUIRES_ACTION"
          /\ payment' = [payment EXCEPT ![req[r].c] = "ready"]
     ELSE UNCHANGED <<intent, payment>>
  /\ Ends(r)
  /\ UNCHANGED <<deferred, rows, ledger, notices, hooks, lock, history>>

\* Points refused as the primary: two updates, not a transaction.
Refused(r) ==
  \/ /\ req[r].at = "refused" /\ ~RowHeld(req[r].c)
     /\ charge' = Status({req[r].c}, "FAILED") /\ Releases(r, {req[r].c})
     /\ Goes(r, "back")
     /\ UNCHANGED <<intent, deferred, made, captured, ledger, toss, hooks, lock,
                    dead, lost, faults>>
  \/ /\ req[r].at = "back" /\ Unlocked
     /\ intent' = IF Allowed(intent, "CREATED") THEN "CREATED" ELSE intent
     /\ Ends(r)
     /\ raced' = (raced \/ ActiveCharges # {} \/
                    \E q \in Requests \ {r} : req[q].op = "confirm")
     /\ UNCHANGED <<deferred, rows, ledger, toss, hooks, lock, dead, lost, faults>>

\* handleFinalChargeSuccess, handleProviderFailure, finalizeApproval and
\* finalizeFailure: a transaction that writes the charge and then the intent.
Finish(r) ==
  LET c == req[r].c
      to == IF req[r].ok THEN "AUTHORIZED" ELSE "CREATED"
      done == IF req[r].ok THEN "SUCCEEDED" ELSE "FAILED"
  IN
  /\ req[r].at = "waiting" \/ (req[r].at = "finish" /\ ~RowHeld(c))
  /\ Unlocked
  /\ IF Allowed(intent, to)
     THEN /\ intent' = to
          /\ charge' = [charge EXCEPT ![c].status = done,
                          ![c].key = IF req[r].ok THEN req[r].pay ELSE @]
          /\ IF req[r].ok
             THEN Writes(r, {c}) /\ req' = [req EXCEPT ![r] =
                    [IdleRequest EXCEPT !.op = req[r].op, !.at = "capture"]]
             ELSE Releases(r, {c}) /\ Ends(r)
     ELSE Ends(r) /\ UNCHANGED <<intent, charge, raced>>
  /\ lost' = IF IF Allowed(intent, to) THEN req[r].pay \notin {None, c}
                                      ELSE req[r].op = "webhook"
             THEN lost \cup {c} ELSE lost
  /\ UNCHANGED <<deferred, made, captured, ledger, toss, hooks, lock, dead, faults>>

\* The intent is locked by another: the transaction waits and keeps the charge.
Wait(r) ==
  /\ req[r].at = "finish" /\ ~Unlocked /\ ~RowHeld(req[r].c)
  /\ Goes(r, "waiting")
  /\ UNCHANGED <<intent, deferred, rows, ledger, toss, hooks, lock, history>>

-----------------------------------------------------------------------------
(* CaptureService; AutoCaptureService after each authorization *)

CaptureStarts(r) ==
  /\ Idle(r) /\ intent = "AUTHORIZED"
  /\ req' = [req EXCEPT ![r].op = "capture", ![r].at = "capture"]
  /\ UNCHANGED <<intent, deferred, rows, ledger, toss, hooks, lock, history>>

ListLegs(r) ==
  /\ req[r].at = "capture"
  /\ IF Succeeded = {} THEN Ends(r)
     ELSE req' = [req EXCEPT ![r].at = "legs", ![r].legs = Succeeded]
  /\ UNCHANGED <<intent, deferred, rows, ledger, toss, hooks, lock, history>>

\* A leg that was captured is not captured again. Toss has the money already, the
\* ledger redeems what is held.
CaptureLeg(r) ==
  LET c == Min(req[r].legs)
      ok == \/ captured[c] = "SUCCEEDED"
            \/ charge[c].method = "TOSS"
            \/ hold[c] \in {"AUTHORIZED", "CAPTURED"}
  IN
  /\ req[r].at = "legs" /\ req[r].legs # {}
  /\ captured' = [captured EXCEPT ![c] = IF ok THEN "SUCCEEDED" ELSE "FAILED"]
  /\ hold' = [hold EXCEPT ![c] = IF @ = "AUTHORIZED" THEN "CAPTURED" ELSE @]
  /\ req' = [req EXCEPT ![r].legs = @ \ {c},
                        ![r].got = IF ok THEN @ \cup {c} ELSE @,
                        ![r].missed = IF ok THEN @ ELSE @ \cup {c}]
  /\ Writes(r, {c})
  /\ UNCHANGED <<intent, deferred, charge, made, toss, hooks, lock, dead, lost, faults>>

Capture(r) ==
  LET to == IF req[r].missed = {} THEN "CAPTURED" ELSE "PARTIALLY_CAPTURED" IN
  /\ req[r].at = "legs" /\ req[r].legs = {} /\ Unlocked
  /\ intent' = IF req[r].got # {} /\ Allowed(intent, to) THEN to ELSE intent
  /\ Ends(r)
  /\ UNCHANGED <<deferred, rows, ledger, toss, hooks, lock, history>>

-----------------------------------------------------------------------------
(* TossApproveService, DeferredApprovalService *)

\* Mutant: the order is not compared with the charge.
Approve_AnyOrder(r, order) ==
  /\ Idle(r) /\ payment[order] = "ready"
  /\ \E c \in ActiveCharges :
       /\ charge[c].status = "REQUIRES_ACTION"
       /\ req' = [req EXCEPT ![r].op = "approve", ![r].c = c, ![r].pay = order,
                             ![r].at = IF deferred THEN "stage" ELSE "pay"]
  /\ UNCHANGED <<intent, deferred, rows, ledger, toss, hooks, lock, history>>

\* The customer is through with the window of an order. The active charge is looked
\* up by the intent.
Approve(r, order) ==
  /\ Idle(r) /\ payment[order] = "ready"
  /\ \E c \in ActiveCharges :
       /\ charge[c].status = "REQUIRES_ACTION"
       /\ deferred => c = order
       /\ req' = [req EXCEPT ![r].op = "approve", ![r].c = c, ![r].pay = order,
                             ![r].at = IF deferred THEN "stage" ELSE "pay"]
  /\ UNCHANGED <<intent, deferred, rows, ledger, toss, hooks, lock, history>>

\* The update that stages the approval also writes REQUIRES_ACTION, over whatever
\* the charge has become since it was read.
Stage(r) ==
  LET c == req[r].c IN
  /\ req[r].at = "stage" /\ ~RowHeld(c)
  /\ IF ActiveCharges \ {c} # {}
     THEN UNCHANGED <<charge, raced>>
     ELSE /\ charge' = [charge EXCEPT ![c].status = "REQUIRES_ACTION",
                                      ![c].staged = req[r].pay]
          /\ raced' = (raced \/ charge[c].status # "REQUIRES_ACTION"
                             \/ \E q \in Requests \ {r} : Releasing(q, c))
  /\ Ends(r)
  /\ UNCHANGED <<intent, deferred, made, captured, ledger, toss, hooks, lock,
                 dead, lost, faults>>

\* Medusa has made the order.
FinalizeDeferred(r) ==
  /\ Idle(r) /\ deferred /\ intent \in Unpaid \cup {"CANCELED"}
  /\ \E c \in ActiveCharges :
       /\ charge[c].status = "REQUIRES_ACTION" /\ charge[c].staged # None
       /\ req' = [req EXCEPT ![r].op = "approve", ![r].c = c, ![r].pay = charge[c].staged,
                             ![r].at = "pay"]
  /\ UNCHANGED <<intent, deferred, rows, ledger, toss, hooks, lock, history>>

\* confirmPayment: Toss takes the money, or refuses (a second time always).
Pay(r) ==
  LET o == req[r].pay IN
  /\ req[r].at = "pay"
  /\ \/ /\ payment[o] = "ready"
        /\ payment' = [payment EXCEPT ![o] = "done"] /\ notices' = notices \cup {o}
        /\ req' = [req EXCEPT ![r].at = "finish", ![r].ok = TRUE]
     \/ /\ payment[o] = "ready"
        /\ payment' = [payment EXCEPT ![o] = "aborted"] /\ notices' = notices \cup {o}
        /\ req' = [req EXCEPT ![r].at = "finish", ![r].ok = FALSE]
     \/ /\ payment[o] # "ready" /\ UNCHANGED toss
        /\ req' = [req EXCEPT ![r].at = "finish", ![r].ok = FALSE]
  /\ lost' = IF payment[o] = "done" THEN lost \cup {o} ELSE lost
  /\ UNCHANGED <<intent, deferred, rows, ledger, hooks, lock, raced, dead, faults>>

-----------------------------------------------------------------------------
(* TossWebhookService *)

\* Mutant: taken for news although nothing is settled.
NoticeComes_Early(r, o) ==
  /\ Idle(r) /\ charge[o].status = "REQUIRES_ACTION"
  /\ req' = [req EXCEPT ![r].op = "webhook", ![r].at = "query", ![r].c = o,
                        ![r].pay = o, ![r].was = charge[o].status]
  /\ UNCHANGED <<intent, deferred, rows, ledger, toss, hooks, lock, history>>

\* The charge is read first,
NoticeComes(r, o) ==
  /\ Idle(r) /\ o \in notices
  /\ req' = [req EXCEPT ![r].op = "webhook", ![r].at = "query", ![r].c = o,
                        ![r].pay = o, ![r].was = charge[o].status]
  /\ UNCHANGED <<intent, deferred, rows, ledger, toss, hooks, lock, history>>

\* Mutant: a deposit on a cancelled charge is passed over.
Query_Silent(r) ==
  LET o == req[r].pay
      n == <<o, payment[o]>>
      waits == req[r].was = "REQUIRES_ACTION"
      settled == payment[o] \in {"done", "aborted", "expired", "returned"}
  IN
  /\ req[r].at = "query"
  /\ notices' = notices \ {o} /\ receipts' = receipts \cup {n}
  /\ IF n \notin receipts /\ settled /\ waits
     THEN /\ req' = [req EXCEPT ![r].at = "finish", ![r].ok = (payment[o] = "done")]
          /\ UNCHANGED flagged
     ELSE /\ Ends(r)
          /\ UNCHANGED flagged
  /\ UNCHANGED <<intent, deferred, rows, ledger, payment, lock, history>>

\* then Toss is asked, and its answer is received once.
Query(r) ==
  LET o == req[r].pay
      n == <<o, payment[o]>>
      waits == req[r].was = "REQUIRES_ACTION"
      settled == payment[o] \in {"done", "aborted", "expired", "returned"}
  IN
  /\ req[r].at = "query"
  /\ notices' = notices \ {o} /\ receipts' = receipts \cup {n}
  /\ IF n \notin receipts /\ settled /\ waits
     THEN /\ req' = [req EXCEPT ![r].at = "finish", ![r].ok = (payment[o] = "done")]
          /\ UNCHANGED flagged
     ELSE /\ Ends(r)
          /\ flagged' = IF n \notin receipts /\ payment[o] = "done" /\ req[r].was = "CANCELED"
                        THEN flagged \cup {o} ELSE flagged
  /\ UNCHANGED <<intent, deferred, rows, ledger, payment, lock, history>>

-----------------------------------------------------------------------------
(* AbandonService (also for TossActionExpirationJob), CancelService,         *)
(* ExpirationJob, ChargeReleaseService                                       *)

\* The intent stays locked to the end.
Abandon(r) ==
  /\ Idle(r) /\ Unlocked /\ intent \in {"REQUIRES_ACTION", "PROCESSING"}
  /\ lock' = r
  /\ req' = [req EXCEPT ![r].op = "abandon", ![r].at = "release"]
  /\ UNCHANGED <<intent, deferred, rows, ledger, toss, hooks, history>>

\* The intent is only read. An intent that has expired may be at any time.
Cancel(r) ==
  /\ Idle(r)
  /\ intent \in Unpaid \cup {"AUTHORIZED"}
  /\ req' = [req EXCEPT ![r].op = "cancel", ![r].at = "release"]
  /\ UNCHANGED <<intent, deferred, rows, ledger, toss, hooks, lock, history>>

FindActive(r) ==
  /\ req[r].at = "release"
  /\ \/ \E c \in ActiveCharges : req' = [req EXCEPT ![r].at = "drop", ![r].c = c]
     \/ ActiveCharges = {} /\ Goes(r, "list")
  /\ UNCHANGED <<intent, deferred, rows, ledger, toss, hooks, lock, history>>

\* Not by the transaction that has the intent.
DropActive(r) ==
  /\ req[r].at = "drop" /\ ~RowHeld(req[r].c)
  /\ charge' = Status({req[r].c}, "CANCELED") /\ Releases(r, {req[r].c})
  /\ req' = [req EXCEPT ![r].at = "list", ![r].c = None]
  /\ UNCHANGED <<intent, deferred, made, captured, ledger, toss, hooks, lock,
                 dead, lost, faults>>

\* Mutant: only Toss is asked to give back.
ListSucceeded_TossOnly(r) ==
  /\ req[r].at = "list"
  /\ req' = [req EXCEPT ![r].at = "undo", ![r].legs = Succeeded \ PointsHeld]
  /\ UNCHANGED <<intent, deferred, rows, ledger, toss, hooks, lock, history>>

ListSucceeded(r) ==
  /\ req[r].at = "list"
  /\ req' = [req EXCEPT ![r].at = "undo", ![r].legs = Succeeded]
  /\ UNCHANGED <<intent, deferred, rows, ledger, toss, hooks, lock, history>>

Unlock(r) == lock' = IF lock = r THEN Nobody ELSE lock

\* The provider must give back what it holds; else the release stops.
UndoLeg(r) ==
  LET c == Min(req[r].legs)
      k == charge[c].key
      ok == IF charge[c].method = "POINTS" THEN hold[c] \in {"AUTHORIZED", "CANCELLED"}
            ELSE k # None /\ payment[k] = "done"
  IN
  /\ req[r].at = "undo" /\ req[r].legs # {} /\ ~RowHeld(c)
  /\ IF ok
     THEN /\ IF charge[c].method = "POINTS"
             THEN Unheld({c}) /\ UNCHANGED toss
             ELSE /\ payment' = [payment EXCEPT ![k] = "returned"]
                  /\ notices' = notices \cup {k} /\ UNCHANGED hold
          /\ charge' = Status({c}, "CANCELED") /\ Releases(r, {c})
          /\ req' = [req EXCEPT ![r].legs = @ \ {c}, ![r].got = @ \cup {c}]
          /\ UNCHANGED lock
     ELSE /\ Ends(r) /\ Unlock(r) /\ raced' = (raced \/ req[r].got # {})
          /\ UNCHANGED <<charge, hold, toss>>
  /\ UNCHANGED <<intent, deferred, made, captured, hooks, dead, lost, faults>>

CloseIntent(r) ==
  LET to == IF req[r].op = "abandon" THEN "CREATED" ELSE "CANCELED" IN
  /\ req[r].at = "undo" /\ req[r].legs = {} /\ lock \in {Nobody, r}
  /\ intent' = IF Allowed(intent, to) THEN to ELSE intent
  /\ Ends(r) /\ Unlock(r)
  /\ raced' = (raced \/ (req[r].got # {} /\ ~Allowed(intent, to)))
  /\ UNCHANGED <<deferred, rows, ledger, toss, hooks, dead, lost, faults>>

-----------------------------------------------------------------------------
(* Toss, faults *)

\* Toss lets a window expire that was not approved.
WindowExpires(o) ==
  /\ payment[o] = "ready"
  /\ payment' = [payment EXCEPT ![o] = "expired"] /\ notices' = notices \cup {o}
  /\ UNCHANGED <<intent, deferred, rows, ledger, hooks, req, lock, history>>

\* The process dies, or an answer of a provider or of the database is lost. Toss
\* repeats a webhook that failed; once received it is not looked at again.
Dies(r) ==
  /\ ~Idle(r) /\ Fault
  /\ dead' = dead \cup ({req[r].c} \ {None}) \cup req[r].legs
  /\ raced' = (raced \/ (req[r].at = "undo" /\ req[r].got # {}))
  /\ lost' = IF req[r].op = "webhook" /\ req[r].at # "query"
             THEN lost \cup {req[r].pay} ELSE lost
  /\ Ends(r) /\ Unlock(r)
  /\ UNCHANGED <<intent, deferred, rows, ledger, toss, hooks>>

-----------------------------------------------------------------------------

Plans == {"points", "toss", "both"}
Confirmation(r) ==
  \/ HoldPoints(r) \/ MarkHeld(r) \/ MakePrimary(r) \/ PointsPrimary(r)
  \/ TossPrimary(r) \/ AskCustomer(r) \/ Refused(r)
Completion(r) ==
  Finish(r) \/ Wait(r) \/ ListLegs(r) \/ CaptureLeg(r) \/ Capture(r)
Release(r) ==
  FindActive(r) \/ DropActive(r) \/ ListSucceeded(r) \/ UndoLeg(r) \/ CloseIntent(r)
Step(r) ==
  Confirmation(r) \/ Stage(r) \/ Pay(r) \/ Query(r) \/ Completion(r) \/ Release(r)
Start(r) ==
  \/ \E plan \in Plans : Confirm(r, plan)
  \/ ConfirmAgain(r) \/ CaptureStarts(r) \/ FinalizeDeferred(r) \/ Abandon(r) \/ Cancel(r)
  \/ \E o \in Charges : Approve(r, o) \/ NoticeComes(r, o)

Next ==
  \/ /\ starts < MaxStarts /\ starts' = starts + 1
     /\ \E r \in Requests : Start(r)
  \/ UNCHANGED starts /\ \E r \in Requests : Step(r) \/ Dies(r)
  \/ UNCHANGED starts /\ \E o \in Charges : WindowExpires(o)

Spec == Init /\ [][Next]_vars

-----------------------------------------------------------------------------

\* Types; Toss has news of settled orders only.
TypeOK ==
  /\ intent \in Unpaid \cup {"AUTHORIZED", "CAPTURED", "PARTIALLY_CAPTURED", "CANCELED"}
  /\ deferred \in BOOLEAN /\ raced \in BOOLEAN
  /\ made \in 0 .. MaxCharges /\ starts \in 0 .. MaxStarts /\ faults \in 0 .. MaxFaults
  /\ charge \in [Charges -> [method : {"none", "POINTS", "TOSS"}, amount : 0 .. Payable,
       status : {"none", "CREATED", "REQUIRES_ACTION", "SUCCEEDED", "FAILED", "CANCELED"},
       key : Charges \cup {None}, staged : Charges \cup {None}]]
  /\ captured \in [Charges -> {"none", "SUCCEEDED", "FAILED"}]
  /\ hold \in [Charges -> {"none", "AUTHORIZED", "CAPTURED", "CANCELLED"}]
  /\ payment \in [Charges -> {"none", "ready", "done", "aborted", "expired", "returned"}]
  /\ notices \subseteq Charges /\ flagged \subseteq Charges /\ dead \subseteq Charges
  /\ receipts \subseteq Charges \X {"done", "aborted", "expired", "returned"}
  /\ lock \in Requests \cup {Nobody}
  /\ \A r \in Requests :
       /\ req[r].c \in Charges \cup {None} /\ req[r].pay \in Charges \cup {None}
       /\ req[r].legs \cup req[r].got \cup req[r].missed \subseteq Charges

Sum(cs) == MapThenSumSet(LAMBDA c : charge[c].amount, cs)
ReleaseUnderWay == \E r \in Requests : req[r].at = "undo" /\ req[r].got # {}

\* An intent counts as AUTHORIZED or CAPTURED only while the charges that succeeded
\* make up the amount due, whichever attempts went before and whoever settled them:
\* the response, the webhook or the finalization. Not while a cancellation has given
\* part of it back.
PaidInFull ==
  intent \in {"AUTHORIZED", "CAPTURED"} /\ ~raced /\ ~ReleaseUnderWay =>
    Sum(Succeeded) = Payable

\* No points stay held for a charge that is CANCELED or FAILED: a later attempt, an
\* abandonment and a cancellation all give them back. Charges whose request died are
\* excused: DB CANCELED is taken to be enough for them, and it is not.
HoldsAreBacked ==
  raced \/ \A c \in Charges \ dead :
    hold[c] = "AUTHORIZED" => charge[c].status \notin {"CANCELED", "FAILED"}

\* Money that Toss has taken is on record, is flagged for a human, or someone is
\* still to learn of it: a charge that was given up meanwhile does not hide it.
MoneyIsKnown ==
  raced \/ \A o \in Charges \ lost :
    payment[o] = "done" =>
      \/ \E c \in Succeeded : charge[c].key = o
      \/ o \in flagged
      \/ o \in notices /\ <<o, "done">> \notin receipts
      \/ \E r \in Requests : req[r].pay = o

\* For an intent that is CANCELED no points stay taken, and money only if the webhook
\* that flags it has come or is to come.
CanceledIsReleased ==
  intent = "CANCELED" /\ ~raced =>
    \A c \in Charges \ (dead \cup lost) :
      /\ hold[c] \notin {"AUTHORIZED", "CAPTURED"}
      /\ payment[c] = "done" => c \in notices \cup flagged

\* With deferred approval the customer never pays more than is due, over all the
\* attempts and windows: a window of an earlier attempt cannot be approved.
NotPaidTwice ==
  deferred /\ ~raced =>
    Sum({c \in Charges \ dead : payment[c] = "done" \/ hold[c] \in {"AUTHORIZED", "CAPTURED"}})
      <= Payable

\* An abandonment comes after a webhook or confirmation that is under way, as its
\* comment says; it does not wait for one that waits for it.
Serialises ==
  ~ \E r \in Requests : lock = r /\ req[r].at = "drop" /\ RowHeld(req[r].c)
=============================================================================
