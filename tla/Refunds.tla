------------------------------- MODULE Refunds -------------------------------
(***************************************************************************)
(* The refunds of one charge in apps/wallet (RefundsService).              *)
(*                                                                         *)
(* A refund is a row: PENDING while its money is on the way, SUCCEEDED or  *)
(* FAILED.  The payment gateway is called outside any transaction with the *)
(* row's idempotency key wallet:refund:<id>, so a row whose answer was     *)
(* lost (FAILED, PROVIDER_EXCEPTION) is revived and sent again instead of  *)
(* a new one, and a cron resends rows that got stuck.  Where the gateway   *)
(* cannot do it an operator transfers the money and closes the row.        *)
(*                                                                         *)
(* A step of a slot is one statement or one transaction of a request or of *)
(* the cron; a successful end is split in two, as it reads the other rows  *)
(* without locking the charge.                                             *)
(***************************************************************************)
EXTENDS Naturals, FiniteSets, Functions

CONSTANTS
  Requests,    \* slots of HTTP requests and operator clicks
  Cron,        \* the run of refund-stuck-resend
  Amount,      \* charge.amount
  Methods,     \* payment methods the charge may have
  \* Bounds of the model, not of the code:
  NumRows,     \* refunds of the charge
  MaxLost,     \* answers of the gateway that are lost
  MaxAged,     \* refunds that get older than fourteen days
  MaxCrashes   \* processes that die

Rows == 1 .. NumRows   \* in the order of (created_at, id)
Amounts == 1 .. Amount
Slots == Requests \cup {Cron}

ASSUME RefundsAssumption ==
  /\ Amount \in Nat \ {0} /\ Methods \subseteq {"TOSS", "BANK_TRANSFER"}
  /\ NumRows \in Nat /\ MaxLost \in Nat /\ MaxAged \in Nat /\ MaxCrashes \in Nat
  /\ Cron \notin Requests

VARIABLES
  method,     \* type of the charge's payment method
  charge,     \* status of the charge
  status, amount, execution,  \* columns of refunds, "none" before the insert
  unknown,    \* failure_code = PROVIDER_EXCEPTION
  fresh,      \* updated_at is younger than STUCK_PENDING_AFTER_MS
  young,      \* created_at is younger than AMBIGUOUS_RESEND_WINDOW_MS
  pg,         \* what the gateway knows under the key of a row
  hand,       \* the operator has transferred the money of a row
  pc, row, answer,  \* where each slot is, with which row, and what it was told
  todo,       \* rows a slot still has to send before it refuses its plan
  full,       \* the success a slot commits covers the charge
  blind,      \* history: money was promised again while some was unaccounted for
  lost, crashes

refund == <<status, amount, execution, unknown, fresh, young>>
outside == <<pg, hand>>
slot == <<pc, row, answer, todo, full>>
bounds == <<lost, crashes>>
vars == <<method, charge, refund, outside, slot, blind, bounds>>

Statuses == {"none", "PENDING", "SUCCEEDED", "FAILED"}
Answers == {"none", "exception", "processing", "refused", "paid", "manual"}
Steps == {"idle", "checked", "settling", "sending", "waiting", "answered", "coded", "committing"}

Init ==
  /\ method \in Methods
  /\ charge = "SUCCEEDED"
  /\ status = [r \in Rows |-> "none"] /\ amount = [r \in Rows |-> 0]
  /\ execution = [r \in Rows |-> "AUTO"] /\ unknown = [r \in Rows |-> FALSE]
  /\ fresh = [r \in Rows |-> TRUE] /\ young = [r \in Rows |-> TRUE]
  /\ pg = [r \in Rows |-> "new"] /\ hand = [r \in Rows |-> FALSE]
  /\ pc = [s \in Slots |-> "idle"] /\ row = [s \in Slots |-> 0]
  /\ answer = [s \in Slots |-> "none"] /\ todo = [s \in Slots |-> {}]
  /\ full = [s \in Slots |-> FALSE]
  /\ blind = FALSE /\ lost = 0 /\ crashes = 0

-----------------------------------------------------------------------------
(* Queries *)

Total(S) == FoldFunctionOnSet(+, 0, amount, S)
WithStatus(S) == {r \in Rows : status[r] \in S}

\* getRefundedTotalInTx: what is on the way is no longer available.
Available == Amount - Total(WithStatus({"SUCCEEDED", "PENDING"}))

\* The answer of the gateway was lost: nobody knows where the money is.
Unknown(r) == status[r] = "FAILED" /\ unknown[r] /\ execution[r] = "AUTO"

\* ambiguousWhere
Ambiguous_Never == {}
Ambiguous == {r \in Rows : Unknown(r) /\ young[r]}
Oldest(S) == CHOOSE r \in S : \A q \in S : r <= q

\* A transaction that has updated r has not committed yet.
Locked(r) == \E s \in Slots : pc[s] = "committing" /\ row[s] = r

\* isManuallyConfirmable
Confirmable(r) == status[r] = "PENDING" /\ (execution[r] = "MANUAL" \/ method = "BANK_TRANSFER")

\* A slot is done with a row: it goes on with its list or is free.
Done(s) ==
  /\ pc' = [pc EXCEPT ![s] = IF todo[s] = {} THEN "idle" ELSE "settling"]
  /\ row' = [row EXCEPT ![s] = 0]
  /\ answer' = [answer EXCEPT ![s] = "none"]
  /\ full' = [full EXCEPT ![s] = FALSE]
  /\ UNCHANGED todo

Abort_KeepsList(s) ==
  /\ pc' = [pc EXCEPT ![s] = "idle"] /\ row' = [row EXCEPT ![s] = 0]
  /\ answer' = [answer EXCEPT ![s] = "none"] /\ full' = [full EXCEPT ![s] = FALSE]
  /\ UNCHANGED todo

\* A slot stops with an exception, or its process dies.
Abort(s) ==
  /\ pc' = [pc EXCEPT ![s] = "idle"] /\ row' = [row EXCEPT ![s] = 0]
  /\ answer' = [answer EXCEPT ![s] = "none"] /\ full' = [full EXCEPT ![s] = FALSE]
  /\ todo' = [todo EXCEPT ![s] = {}]

Send(s, r) ==
  /\ pc' = [pc EXCEPT ![s] = "sending"] /\ row' = [row EXCEPT ![s] = r]
  /\ UNCHANGED <<answer, full>>

-----------------------------------------------------------------------------
(* A refund is requested *)

\* create reads the charge before it locks it.
CheckCharge(s) ==
  /\ pc[s] = "idle" /\ charge = "SUCCEEDED"
  /\ pc' = [pc EXCEPT ![s] = "checked"]
  /\ UNCHANGED <<method, charge, refund, outside, row, answer, todo, full, blind, bounds>>

Revivable(r) == status[r] = "FAILED"

\* FAILED -> PENDING, under the lock of the charge.
Revive(r) ==
  /\ status' = [status EXCEPT ![r] = "PENDING"]
  /\ fresh' = [fresh EXCEPT ![r] = TRUE]
  /\ UNCHANGED <<amount, execution, unknown, young>>

\* An AUTO request sends the oldest row of unknown outcome again, whatever amount
\* it asks for.  Without an account a bank transfer cannot be sent: refused.
ResumeOldest(s) ==
  /\ pc[s] = "checked" /\ Ambiguous # {}
  /\ Revive(Oldest(Ambiguous))
  /\ Send(s, Oldest(Ambiguous)) /\ UNCHANGED todo
  /\ UNCHANGED <<method, charge, outside, blind, bounds>>

\* Otherwise a new row is inserted; a MANUAL one is not sent.
Insert(s, a, e) ==
  LET r == Cardinality(Rows \ WithStatus({"none"})) + 1 IN
  /\ pc[s] = "checked"
  /\ e = "AUTO" => Ambiguous = {}
  /\ a <= Available
  /\ r \in Rows
  /\ status' = [status EXCEPT ![r] = "PENDING"]
  /\ amount' = [amount EXCEPT ![r] = a]
  /\ execution' = [execution EXCEPT ![r] = e]
  /\ IF e = "AUTO" THEN Send(s, r) /\ UNCHANGED todo ELSE Abort(s)
  /\ blind' = (blind \/ \E q \in Rows : Unknown(q) /\ (e = "MANUAL" \/ ~ young[q]))
  /\ UNCHANGED <<method, charge, unknown, fresh, young, outside, bounds>>

\* The amount is not available, or a refusal of another kind.
Refuse(s) ==
  /\ pc[s] = "checked"
  /\ Abort(s)
  /\ UNCHANGED <<method, charge, refund, outside, blind, bounds>>

\* settleAmbiguousBeforePlan: createByIntent resends all rows of unknown outcome
\* and refuses the request, unless it can be the retry of the only one.
SettleFirst(s) ==
  /\ pc[s] = "idle" /\ charge = "SUCCEEDED" /\ Available > 0 /\ Ambiguous # {}
  /\ todo' = [todo EXCEPT ![s] = Ambiguous]
  /\ pc' = [pc EXCEPT ![s] = "settling"]
  /\ UNCHANGED <<method, charge, refund, outside, row, answer, full, blind, bounds>>

\* The list is as it was read; the transition insists on FAILED.
ResumeListed(s) ==
  LET r == Oldest(todo[s]) IN
  /\ pc[s] = "settling"
  /\ ~ Locked(r)
  /\ \/ /\ Revivable(r)
        /\ Revive(r)
        /\ Send(s, r) /\ todo' = [todo EXCEPT ![s] = @ \ {r}]
     \/ ~ Revivable(r) /\ Abort(s) /\ UNCHANGED refund
  /\ UNCHANGED <<method, charge, outside, blind, bounds>>

Stuck_SameTimestamp(r) == FALSE
Stuck(r) == status[r] = "PENDING" /\ execution[r] = "AUTO" /\ ~ fresh[r]
            /\ method = "TOSS" /\ young[r]

\* resendStuckAutoPending: the conditional update takes the row.
Resend(r) ==
  /\ pc[Cron] = "idle" /\ Stuck(r) /\ ~ Locked(r)
  /\ fresh' = [fresh EXCEPT ![r] = TRUE]
  /\ Send(Cron, r) /\ UNCHANGED todo
  /\ UNCHANGED <<method, charge, status, amount, execution, unknown, young, outside, blind, bounds>>

-----------------------------------------------------------------------------
(* dispatch, up to the answer; the gateway is external *)

Answered(s, a) ==
  /\ pc' = [pc EXCEPT ![s] = "answered"]
  /\ answer' = [answer EXCEPT ![s] = a]
  /\ UNCHANGED <<row, todo, full>>

\* A key the gateway sees for the first time is processed; later requests with it
\* get the first result, or an error while there is none.
Arrive(s) ==
  LET r == row[s] IN
  /\ pc[s] = "sending"
  /\ \/ /\ pg[r] = "new"
        /\ pg' = [pg EXCEPT ![r] = "open"]
        /\ pc' = [pc EXCEPT ![s] = "waiting"]
        /\ UNCHANGED <<row, answer, todo, full>>
     \/ pg[r] = "open" /\ Answered(s, "processing") /\ UNCHANGED pg
     \/ pg[r] \in {"paid", "refused"} /\ Answered(s, pg[r]) /\ UNCHANGED pg
  /\ UNCHANGED <<method, charge, refund, hand, blind, bounds>>

Decide(r) ==
  /\ pg[r] = "open"
  /\ \E d \in {"paid", "refused"} : pg' = [pg EXCEPT ![r] = d]
  /\ UNCHANGED <<method, charge, refund, hand, slot, blind, bounds>>

Reply(s) ==
  /\ pc[s] = "waiting" /\ pg[row[s]] \in {"paid", "refused"}
  /\ Answered(s, pg[row[s]])
  /\ UNCHANGED <<method, charge, refund, outside, blind, bounds>>

\* The request or its answer is lost: provider.refund throws.
Lose(s) ==
  /\ pc[s] \in {"sending", "waiting"} /\ lost < MaxLost
  /\ lost' = lost + 1
  /\ Answered(s, "exception")
  /\ UNCHANGED <<method, charge, refund, outside, blind, crashes>>

\* A bank transfer without an account is left to the operator, unsent.
NoAccount(s) ==
  /\ pc[s] = "sending" /\ method = "BANK_TRANSFER" /\ pg[row[s]] = "new" /\ ~ unknown[row[s]]
  /\ Answered(s, "manual")
  /\ UNCHANGED <<method, charge, refund, outside, blind, bounds>>

-----------------------------------------------------------------------------
(* dispatch, from the answer *)

MakeManual(s) ==
  /\ pc[s] = "answered" /\ answer[s] = "manual" /\ ~ Locked(row[s])
  /\ execution' = [execution EXCEPT ![row[s]] = "MANUAL"]
  /\ fresh' = [fresh EXCEPT ![row[s]] = TRUE]
  /\ Done(s)
  /\ UNCHANGED <<method, charge, status, amount, unknown, young, outside, blind, bounds>>

Indefinite_OnlyThrown(a) == a = "exception"
\* What leaves the outcome open: a lost answer, and IDEMPOTENT_REQUEST_PROCESSING.
Indefinite(a) == a \in {"exception", "processing"}

\* failure_code is written on its own, whatever became of the row.
WriteCode(s) ==
  /\ pc[s] = "answered" /\ answer[s] \in {"exception", "processing", "refused"}
  /\ ~ Locked(row[s])
  /\ unknown' = [unknown EXCEPT ![row[s]] = Indefinite(answer[s])]
  /\ fresh' = [fresh EXCEPT ![row[s]] = TRUE]
  /\ pc' = [pc EXCEPT ![s] = "coded"]
  /\ UNCHANGED <<method, charge, status, amount, execution, young, outside,
                 row, answer, todo, full, blind, bounds>>

\* PENDING -> FAILED; any other state throws.
Fail(s) ==
  LET r == row[s] IN
  /\ pc[s] = "coded" /\ ~ Locked(r)
  /\ \/ /\ status[r] = "PENDING"
        /\ status' = [status EXCEPT ![r] = "FAILED"]
        /\ fresh' = [fresh EXCEPT ![r] = TRUE]
        /\ Done(s)
     \/ status[r] # "PENDING" /\ Abort(s) /\ UNCHANGED <<status, fresh>>
  /\ UNCHANGED <<method, charge, amount, execution, unknown, young, outside, blind, bounds>>

\* getSucceededRefundedTotalInTx sees its own row and what others have committed.
CoversCharge(r) == Total(WithStatus({"SUCCEEDED"}) \cup {r}) >= Amount

\* The success transaction takes the row and adds up the committed successes.
TakeSuccess(s, r) ==
  /\ pc' = [pc EXCEPT ![s] = "committing"] /\ row' = [row EXCEPT ![s] = r]
  /\ full' = [full EXCEPT ![s] = CoversCharge(r)]
  /\ UNCHANGED <<answer, todo>>

Succeed(s) ==
  LET r == row[s] IN
  /\ pc[s] = "answered" /\ answer[s] = "paid" /\ ~ Locked(r)
  /\ \/ status[r] = "PENDING" /\ TakeSuccess(s, r)
     \/ status[r] # "PENDING" /\ Abort(s)
  /\ UNCHANGED <<method, charge, refund, outside, blind, bounds>>

\* The charge goes SUCCEEDED -> REFUNDED; when it already did, all is rolled back.
Commit(s) ==
  LET r == row[s] IN
  /\ pc[s] = "committing"
  /\ \/ /\ full[s] => charge = "SUCCEEDED"
        /\ status' = [status EXCEPT ![r] = "SUCCEEDED"]
        /\ unknown' = [unknown EXCEPT ![r] = @ /\ answer[s] # "paid"]
        /\ fresh' = [fresh EXCEPT ![r] = TRUE]
        /\ charge' = IF full[s] THEN "REFUNDED" ELSE charge
        /\ Done(s)
     \/ full[s] /\ charge # "SUCCEEDED" /\ Abort(s) /\ UNCHANGED <<status, unknown, fresh, charge>>
  /\ UNCHANGED <<method, amount, execution, young, outside, blind, bounds>>

-----------------------------------------------------------------------------
(* The operator, time and crashes *)

\* The operator transfers the money of a row he is offered to close.
Transfer(r) ==
  /\ Confirmable(r) /\ ~ hand[r]
  /\ hand' = [hand EXCEPT ![r] = TRUE]
  /\ blind' = (blind \/ execution[r] = "AUTO")
  /\ UNCHANGED <<method, charge, refund, pg, slot, bounds>>

ConfirmManual(s, r) ==
  /\ pc[s] = "idle"
  /\ Confirmable(r) /\ hand[r] /\ ~ Locked(r)
  /\ TakeSuccess(s, r)
  /\ UNCHANGED <<method, charge, refund, outside, blind, bounds>>

\* Thirty minutes without an update.
GoesStale(r) ==
  /\ status[r] = "PENDING" /\ execution[r] = "AUTO" /\ fresh[r]
  /\ fresh' = [fresh EXCEPT ![r] = FALSE]
  /\ UNCHANGED <<method, charge, status, amount, execution, unknown, young, outside, slot, blind, bounds>>

\* Fourteen days since the insert, whatever has become of the row and whoever has
\* it in hand: a row may be revived or sent again just before.  Older rows first.
Ages(r) ==
  /\ status[r] # "none" /\ young[r]
  /\ r <= MaxAged /\ \A q \in Rows : q < r => ~ young[q]
  /\ young' = [young EXCEPT ![r] = FALSE]
  /\ UNCHANGED <<method, charge, status, amount, execution, unknown, fresh, outside, slot, blind, bounds>>

Crash(s) ==
  /\ pc[s] # "idle" /\ crashes < MaxCrashes
  /\ crashes' = crashes + 1
  /\ Abort(s)
  /\ UNCHANGED <<method, charge, refund, outside, blind, lost>>

-----------------------------------------------------------------------------
\* What a slot does of its own accord once it has begun.
Continue(s) ==
  \/ Refuse(s) \/ ResumeListed(s) \/ Arrive(s) \/ Reply(s)
  \/ MakeManual(s) \/ WriteCode(s) \/ Fail(s) \/ Succeed(s) \/ Commit(s)

Next ==
  \/ \E s \in Requests :
       \/ CheckCharge(s) \/ ResumeOldest(s) \/ SettleFirst(s) \/ NoAccount(s)
       \/ \E a \in Amounts, e \in {"AUTO", "MANUAL"} : Insert(s, a, e)
       \/ \E r \in Rows : ConfirmManual(s, r)
  \/ \E s \in Slots : Continue(s) \/ Lose(s) \/ Crash(s)
  \/ \E r \in Rows : Resend(r) \/ Decide(r) \/ Transfer(r) \/ GoesStale(r) \/ Ages(r)

Spec == Init /\ [][Next]_vars

\* Requests and queries end, the gateway decides, time passes, the cron runs every
\* five minutes.
Fairness ==
  /\ \A s \in Slots : WF_vars(Continue(s))
  /\ \A r \in Rows : WF_vars(Resend(r)) /\ WF_vars(Decide(r)) /\ WF_vars(GoesStale(r))

LiveSpec == Spec /\ Fairness

-----------------------------------------------------------------------------
(* Properties *)

\* Also: a free slot remembers nothing.
TypeOK ==
  /\ method \in Methods /\ charge \in {"SUCCEEDED", "REFUNDED"}
  /\ status \in [Rows -> Statuses] /\ amount \in [Rows -> 0 .. Amount]
  /\ execution \in [Rows -> {"AUTO", "MANUAL"}]
  /\ unknown \in [Rows -> BOOLEAN] /\ fresh \in [Rows -> BOOLEAN] /\ young \in [Rows -> BOOLEAN]
  /\ pg \in [Rows -> {"new", "open", "paid", "refused"}] /\ hand \in [Rows -> BOOLEAN]
  /\ pc \in [Slots -> Steps] /\ row \in [Slots -> Rows \cup {0}]
  /\ answer \in [Slots -> Answers] /\ todo \in [Slots -> SUBSET Rows]
  /\ full \in [Slots -> BOOLEAN] /\ blind \in BOOLEAN
  /\ lost \in Nat /\ crashes \in Nat
  /\ \A s \in Slots : pc[s] = "idle" => row[s] = 0 /\ answer[s] = "none" /\ todo[s] = {}

PaidOut == Total({r \in Rows : pg[r] = "paid"}) + Total({r \in Rows : hand[r]})

\* The customer never gets more than he paid (create, dispatch): whatever answers
\* are lost and whoever resends, unless a human promised money while the outcome
\* of an AUTO row was open, or it stayed open for more than fourteen days.
NoOverRefund == blind \/ PaidOut <= Amount

\* Money that has left is never written off: its row is on its way, succeeded, or
\* known to be of unknown outcome, so that it is sent again with the same key.
MoneyIsTracked ==
  \A r \in Rows : pg[r] = "paid" => status[r] \in {"PENDING", "SUCCEEDED"} \/ unknown[r]

\* A success is final: its event is published once and the row is not sent again,
\* although lists of rows to resend are read long before they are used.
SuccessIsFinal ==
  [][\A r \in Rows : status[r] = "SUCCEEDED" => status'[r] = "SUCCEEDED"]_vars

\* PENDING, too old for the cron, and in nobody's hands.
Stranded(r) == status[r] = "PENDING" /\ ~ young[r] /\ \A s \in Slots : row[s] # r

\* The cron finishes what a dead process left behind: an AUTO row of a method with
\* idempotency keys does not stay PENDING.  The cron leaves out rows of more than
\* fourteen days, so one that gets that old before it is taken stays as it is;
\* one that gets that old in somebody's hands is still finished by him.
StuckIsResolved ==
  \A r \in Rows :
    status[r] = "PENDING" /\ execution[r] = "AUTO" /\ method = "TOSS"
      ~> status[r] # "PENDING" \/ Stranded(r) \/ blind
=============================================================================
