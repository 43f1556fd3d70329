------------------------------- MODULE Billing ------------------------------
(***************************************************************************)
(* Recurring billing of one membership contract on the CHARGE path: the    *)
(* schedulers and outcome handlers of apps/membership, and the             *)
(* BillingChargeConsumer of apps/wallet with CMS (bank withdrawals) as its *)
(* provider.                                                               *)
(*                                                                         *)
(* Membership claims the contract (billingInProgress) with a key made of   *)
(* the due date and the dunning attempt, and sends the key to wallet as a  *)
(* command.  Wallet makes at most one intent per key, orders the           *)
(* withdrawal and announces its end.  Membership records each end once     *)
(* (billing_events), extends or duns, and releases the claim.  A claim     *)
(* that stays is reconciled by asking wallet about its key.                *)
(*                                                                         *)
(* Contracts share nothing, so one is modelled.  A date counts periods: an *)
(* extension makes the entitlement end one later.                          *)
(***************************************************************************)
EXTENDS Integers, Sequences

CONSTANTS
  DUNNING_MAX_ATTEMPTS,
  NoKey,       \* billing_idempotency_key is null
  \* Bounds of the model, not of the code:
  MaxDay,      \* the calendar stops
  MaxIncidents \* days passed, failed steps, deaths, lost and repeated messages, people's acts

ASSUME BillingAssumption ==
  /\ DUNNING_MAX_ATTEMPTS \in Nat \ {0}
  /\ MaxDay \in Nat \ {0} /\ MaxIncidents \in Nat

None == 0                       \* a null date, no entitlement
Dates == 0 .. MaxDay + 2
Attempts == 0 .. DUNNING_MAX_ATTEMPTS
Keys == Dates \X Attempts       \* membership:billing:<contract>:<date>:<attempt>

ASSUME KeyAssumption == NoKey \notin Keys

VARIABLES
  today,
  \* membership
  contract,    \* the row of subscription_contracts
  ends,        \* endsAt of the current entitlement
  dunning,     \* the row of membership_dunning_queue, attempts = 0: no row
  recorded,    \* billing_events: <<key, type>>
  biller,      \* the daily scheduler and an administrator's retry
  listed,      \* the entitlement the expiration check is about to close
  toldNone,    \* reconcile was answered that the intent does not exist
  failing,     \* a handleFailure that has read the contract, not yet written
  ending,      \* the wallet mandate of a cancelled contract: no | now | queued
  \* wallet
  agreed,      \* an active billing agreement
  commands,    \* undelivered; those of a contract are consumed one by one
  events,      \* undelivered, of any intent in any order
  intent,      \* of each key
  worker,      \* how far the consumer is with the first command
  stale,       \* intents not updated for fifteen minutes
  order,       \* the row of cms_withdrawals
  \* the bank
  bank,
  \* history
  astray,      \* keys given up, or whose worker died or works on a closed intent
  raced,       \* a failure was written for a contract that had stopped renewing
  crossed,     \* a claim was given back for another key than its own
  incidents

membership ==
  <<contract, ends, dunning, recorded, biller, listed, toldNone, failing>>
books == <<events, intent, worker, stale, order, bank>>
wallet == <<commands, books, astray>>
past == <<raced, crossed>>
vars == <<today, membership, ending, agreed, wallet, past, incidents>>

Open == {"CREATED", "PROCESSING", "PENDING_SETTLEMENT"}
IdleBiller == [at |-> "idle", next |-> None, attempt |-> 0]
NoDunning == [attempts |-> 0, due |-> FALSE]
NoFailure == [on |-> FALSE, key |-> NoKey, noMethod |-> FALSE, renews |-> FALSE]

Init ==
  /\ today = 1
  /\ contract = [status |-> "ACTIVE", autoRenewal |-> TRUE, resigned |-> FALSE,
                 next |-> 1, busy |-> FALSE, overdue |-> FALSE, key |-> NoKey]
  /\ ends = 1 /\ dunning = NoDunning /\ recorded = {}
  /\ biller = [b \in {"cron", "admin"} |-> IdleBiller]
  /\ listed = None /\ toldNone = FALSE /\ failing = NoFailure
  /\ ending = "no" /\ agreed = TRUE
  /\ commands = <<>> /\ events = {}
  /\ intent = [k \in Keys |-> "none"] /\ worker = "off"
  /\ stale = {} /\ order = [k \in Keys |-> "none"]
  /\ bank = [k \in Keys |-> "none"]
  /\ astray = {} /\ raced = FALSE /\ crossed = FALSE /\ incidents = 0

Incident ==
  /\ incidents + today <= MaxIncidents
  /\ incidents' = incidents + 1
Active == contract.status = "ACTIVE"
\* handleFailure and handleCanceled take any other contract for ended.
Renewing == Active /\ contract.autoRenewal /\ ~contract.resigned
Due(date) == date # None /\ date <= today

-----------------------------------------------------------------------------
(* Claim and publish: RecurringBillingService, BillingManager *)

Moves(b, at, next, attempt) ==
  biller' = [biller EXCEPT ![b] = [at |-> at, next |-> next, attempt |-> attempt]]

\* findDueContracts: the list is worked through later, one contract a second.
FindDue ==
  /\ biller["cron"].at = "idle"
  /\ Active /\ contract.autoRenewal /\ ~contract.busy /\ Due(contract.next)
  /\ ends # None /\ dunning.attempts = 0
  /\ Moves("cron", "claim", contract.next, 0)

\* findDunningItems looks at the claim, not at the state of the contract.
FindDunning ==
  /\ biller["cron"].at = "idle"
  /\ dunning.attempts > 0 /\ dunning.due /\ ~contract.busy
  /\ Moves("cron", "reread", None, dunning.attempts)

RereadContract ==
  /\ biller["cron"].at = "reread"
  /\ Moves("cron", "claim", contract.next, biller["cron"].attempt)

\* retryContractBilling: the contract must be in dunning or due.
AskRetry ==
  /\ biller["admin"].at = "idle" /\ Incident
  /\ Active /\ contract.autoRenewal /\ ~contract.busy
  /\ dunning.attempts > 0 \/ Due(contract.next)
  /\ Moves("admin", "claim", contract.next, dunning.attempts)

Look ==
  /\ \/ /\ FindDue \/ FindDunning \/ RereadContract
        /\ UNCHANGED incidents
     \/ AskRetry
  /\ UNCHANGED <<today, contract, ends, dunning, recorded, listed, toldNone,
                 failing, ending, agreed, wallet, past>>

KeyOf(b) == <<biller[b].next, biller[b].attempt>>

\* The only condition is that nobody holds the claim.  What is due after the last
\* of the Dates is out of bounds.
Claim(b) ==
  /\ biller[b].at = "claim" /\ KeyOf(b) \in Keys
  /\ IF contract.busy
     THEN Moves(b, "idle", None, 0) /\ UNCHANGED contract
     ELSE /\ contract' = [contract EXCEPT !.busy = TRUE, !.overdue = FALSE,
                            !.key = KeyOf(b)]
          /\ Moves(b, "publish", biller[b].next, biller[b].attempt)
  /\ UNCHANGED <<today, ends, dunning, recorded, listed, toldNone, failing,
                 ending, agreed, wallet, past, incidents>>

Send(k) == commands' = Append(commands, k)

Publish(b) ==
  /\ biller[b].at = "publish"
  /\ Send(KeyOf(b)) /\ UNCHANGED <<books, astray>>
  /\ Moves(b, "idle", None, 0)
  /\ UNCHANGED <<today, contract, ends, dunning, recorded, listed, toldNone,
                 failing, ending, agreed, past, incidents>>

\* releaseBillingLock and the catch of processSingleBilling: no condition.
Unclaim ==
  contract' = [contract EXCEPT !.busy = FALSE, !.overdue = FALSE, !.key = NoKey]

\* What gives a claim back for k does not look whether it is the claim of k.
Lets(k) ==
  crossed' = (crossed \/ (contract.busy /\ ~contract'.busy /\ contract.key # k))

\* The plan is gone or publishing fails, which may have sent the command.
PublishFails(b) ==
  /\ biller[b].at = "publish" /\ Incident
  /\ Send(KeyOf(b)) \/ UNCHANGED commands
  /\ Unclaim /\ Lets(KeyOf(b)) /\ astray' = astray \cup {KeyOf(b)}
  /\ Moves(b, "idle", None, 0)
  /\ UNCHANGED <<today, ends, dunning, recorded, listed, toldNone, failing,
                 ending, agreed, books, raced>>

BillerDies(b) ==
  /\ biller[b].at = "publish" /\ Incident
  /\ Moves(b, "idle", None, 0)
  /\ UNCHANGED <<today, contract, ends, dunning, recorded, listed, toldNone,
                 failing, ending, agreed, wallet, past>>

-----------------------------------------------------------------------------
(* Outcomes: BillingOutcomeHandler *)

Release == contract' = [contract EXCEPT !.busy = FALSE, !.overdue = FALSE]

Terminate ==
  /\ contract' = [contract EXCEPT !.status = "CANCELLED", !.autoRenewal = FALSE,
                    !.next = None, !.busy = FALSE, !.overdue = FALSE]
  /\ ends' = None /\ dunning' = NoDunning

Later(date) == IF date > today THEN date + 1 ELSE today + 1

HandleSuccess_Unrecorded(k) ==
  IF ~Active \/ ends = None
  THEN Release /\ UNCHANGED <<ends, dunning, recorded>>
  ELSE /\ ends' = Later(ends) /\ dunning' = NoDunning /\ UNCHANGED recorded
       /\ contract' = [contract EXCEPT !.next = Later(ends), !.busy = FALSE]

HandleSuccess(k) ==
  IF <<k, "CHARGE_SUCCESS">> \in recorded
  THEN UNCHANGED <<contract, ends, dunning, recorded>>
  ELSE /\ recorded' = recorded \cup {<<k, "CHARGE_SUCCESS">>}
       /\ IF ~Active \/ ends = None
          THEN Release /\ UNCHANGED <<ends, dunning>>
          ELSE /\ ends' = Later(ends)
               /\ contract' = [contract EXCEPT !.next = Later(ends),
                                 !.busy = FALSE, !.overdue = FALSE]
               /\ dunning' = NoDunning

Dun_Unlimited(due) ==
  /\ dunning' = [attempts |-> dunning.attempts + 1, due |-> due]
  /\ Release /\ UNCHANGED ends

\* The next attempt carries another key; the last one terminates.
Dun(due) ==
  IF dunning.attempts < DUNNING_MAX_ATTEMPTS
  THEN /\ dunning' = [attempts |-> dunning.attempts + 1, due |-> due]
       /\ Release /\ UNCHANGED ends
  ELSE Terminate

\* An intent that was never made is known by its key, not by an intent id.
FailMark(k, noMethod) ==
  <<k, IF noMethod THEN "CHARGE_FAIL_NO_INTENT" ELSE "CHARGE_FAIL">>

\* renews is what was read of the contract, which is not locked.
HandleFailure(k, noMethod, renews) ==
  IF FailMark(k, noMethod) \in recorded
  THEN UNCHANGED <<contract, ends, dunning, recorded>>
  ELSE /\ recorded' = recorded \cup {FailMark(k, noMethod)}
       /\ IF ~renews
          THEN Release /\ dunning' = NoDunning /\ UNCHANGED ends
          ELSE IF noMethod THEN Terminate ELSE Dun(FALSE)

HandleCanceled_EndedToo(k) ==
  IF <<k, "CHARGE_CANCELED">> \in recorded \/ ~contract.busy
  THEN UNCHANGED <<contract, ends, dunning, recorded>>
  ELSE recorded' = recorded \cup {<<k, "CHARGE_CANCELED">>} /\ Dun(TRUE)

HandleCanceled(k) ==
  IF <<k, "CHARGE_CANCELED">> \in recorded
  THEN UNCHANGED <<contract, ends, dunning, recorded>>
  ELSE /\ recorded' = recorded \cup {<<k, "CHARGE_CANCELED">>}
       /\ IF ~contract.busy THEN UNCHANGED <<contract, ends, dunning>>
          ELSE IF ~Renewing THEN Release /\ dunning' = NoDunning /\ UNCHANGED ends
          ELSE Dun(TRUE)

\* handleFailure first reads the contract. Cancelling at the period's end, its
\* withdrawal and the renewal switch do not take the lock it holds.
ReadForFailure(k, noMethod) ==
  /\ ~failing.on
  /\ failing' = [on |-> TRUE, key |-> k, noMethod |-> noMethod, renews |-> Renewing]
  /\ UNCHANGED <<contract, ends, dunning, recorded>>

WriteFailure ==
  /\ failing.on
  /\ HandleFailure(failing.key, failing.noMethod, failing.renews)
  /\ failing' = NoFailure
  /\ raced' = (raced \/ (failing.renews /\ ~Renewing))
  /\ Lets(failing.key)
  /\ UNCHANGED <<today, biller, listed, toldNone, ending, agreed, wallet, incidents>>

\* The handlers run under the lock of the user.
Unlocked == ~failing.on
Outcome(type, k) ==
  \/ type = "AUTHORIZED" /\ Unlocked /\ HandleSuccess(k) /\ UNCHANGED failing
  \/ type = "CANCELED" /\ Unlocked /\ HandleCanceled(k) /\ UNCHANGED failing
  \/ type \in {"FAILED", "NO_METHOD"} /\ ReadForFailure(k, type = "NO_METHOD")

\* BillingResultConsumer
HandleEvent(e) ==
  /\ e \in events
  /\ Outcome(e.type, e.key) /\ Lets(e.key)
  /\ \/ events' = events \ {e} /\ UNCHANGED incidents
     \/ UNCHANGED events /\ Incident     \* it comes again
  /\ UNCHANGED <<today, biller, listed, toldNone, ending, agreed, commands,
                 intent, worker, stale, order, bank, astray, raced>>

\* reconcileStuckBillings
Overdue == contract.busy /\ contract.overdue /\ contract.key # NoKey

Reconcile_ForgetsFailed ==
  /\ Overdue /\ intent[contract.key] \in {"AUTHORIZED", "CANCELED"}
  /\ Outcome(intent[contract.key], contract.key)
  /\ UNCHANGED <<today, biller, listed, toldNone, ending, agreed, wallet, past,
                 incidents>>

Reconcile ==
  /\ Overdue
  /\ intent[contract.key] \in {"AUTHORIZED", "FAILED", "CANCELED"}
  /\ Outcome(intent[contract.key], contract.key)
  /\ UNCHANGED <<today, biller, listed, toldNone, ending, agreed, wallet, past,
                 incidents>>

ReconcileFindsNone ==
  /\ Overdue /\ intent[contract.key] = "none"
  /\ toldNone' = TRUE
  /\ UNCHANGED <<today, contract, ends, dunning, recorded, biller, listed,
                 failing, ending, agreed, wallet, past, incidents>>

ReleaseLost ==
  /\ toldNone
  /\ toldNone' = FALSE
  /\ Unclaim /\ astray' = astray \cup ({contract.key} \ {NoKey})
  /\ UNCHANGED <<today, ends, dunning, recorded, biller, listed, failing,
                 ending, agreed, commands, books, past, incidents>>

-----------------------------------------------------------------------------
(* The customer, the administrator, the calendar *)

\* cancelRecurringPayment, not under the lock
Resign ==
  /\ Incident
  /\ Renewing /\ ends # None
  /\ contract' = [contract EXCEPT !.resigned = TRUE, !.autoRenewal = FALSE,
                    !.next = None]
  /\ dunning' = NoDunning
  /\ ending' = "now"
  /\ UNCHANGED <<today, ends, recorded, biller, listed, toldNone, failing,
                 agreed, wallet, past>>

\* undoCancellation makes the agreement first.
Undo ==
  /\ Active /\ contract.resigned /\ ends # None
  /\ contract' = [contract EXCEPT !.resigned = FALSE, !.autoRenewal = TRUE,
                    !.next = ends]
  /\ agreed' = TRUE
  /\ UNCHANGED <<today, ends, dunning, recorded, biller, listed, toldNone,
                 failing, ending, wallet, past, incidents>>

\* cancelImmediately, forceCancelSubscription
CancelNow ==
  /\ Incident
  /\ Active /\ Unlocked
  /\ contract' = [contract EXCEPT !.status = "CANCELLED", !.autoRenewal = FALSE,
                    !.next = None]
  /\ ends' = None /\ dunning' = NoDunning
  /\ ending' = "now"
  /\ UNCHANGED <<today, recorded, biller, listed, toldNone, failing, agreed,
                 wallet, past>>

\* updateAutoRenewal leaves the due date and the dunning row alone.
SwitchRenewalOff ==
  /\ Incident
  /\ Active /\ contract.autoRenewal
  /\ contract' = [contract EXCEPT !.autoRenewal = FALSE]
  /\ UNCHANGED <<today, ends, dunning, recorded, biller, listed, toldNone,
                 failing, ending, agreed, wallet, past>>

\* ... and it restores what a cancellation at the period's end has taken away.
SwitchRenewalOn ==
  /\ Incident
  /\ ~contract.autoRenewal /\ (contract.next # None \/ ends # None)
  /\ contract' = [contract EXCEPT !.resigned = FALSE, !.autoRenewal = TRUE,
                    !.next = IF @ = None THEN ends ELSE @]
  /\ agreed' = TRUE
  /\ UNCHANGED <<today, ends, dunning, recorded, biller, listed, toldNone,
                 failing, ending, wallet, past>>

\* terminateMandateBySubscriberRef: withdrawals that are not out yet are deleted
\* at the bank, as far as it lets them; their intents are left alone.
EndMandate ==
  \/ /\ ending = "now" \/ (ending = "queued" /\ ~Renewing)
     /\ \E gone \in SUBSET {k \in Keys : order[k] = "REQUESTED" /\ bank[k] = "asked"} :
          /\ order' = [k \in Keys |-> IF k \in gone THEN "DELETED" ELSE order[k]]
          /\ bank' = [k \in Keys |-> IF k \in gone THEN "deleted" ELSE bank[k]]
     /\ agreed' = FALSE /\ ending' = "no" /\ UNCHANGED incidents
  \/ /\ ending = "now" /\ Incident /\ ending' = "queued"
     /\ UNCHANGED <<order, bank, agreed>>
  \/ ending = "queued" /\ Renewing /\ ending' = "no"
     /\ UNCHANGED <<order, bank, agreed, incidents>>

RevokeAgreement ==
  /\ EndMandate
  /\ UNCHANGED <<today, membership, commands, events, intent, worker, stale, astray,
                 past>>

\* findExpiredEntitlements, findStuckEntitlements (one day of grace)
ListExpired ==
  /\ listed = None /\ Active /\ ends # None
  /\ \/ ~contract.autoRenewal /\ ends < today
     \/ /\ contract.autoRenewal /\ ~contract.busy /\ dunning.attempts = 0
        /\ ends < today - 1
  /\ listed' = ends
  /\ UNCHANGED <<today, contract, ends, dunning, recorded, biller, toldNone,
                 failing, ending, agreed, wallet, past, incidents>>

HandleExpiration ==
  /\ listed # None /\ Unlocked
  /\ IF ends = listed /\ ends < today
     THEN ends' = None /\ contract' = [contract EXCEPT !.status = "EXPIRED"]
     ELSE UNCHANGED <<ends, contract>>
  /\ listed' = None
  /\ UNCHANGED <<today, dunning, recorded, biller, toldNone, failing, ending,
                 agreed, wallet, past, incidents>>

\* What takes minutes or days outlasts every step a process has begun; a list
\* may outlast minutes, and a message that does is an incident.
Quiet(waits) ==
  /\ \A b \in {"cron", "admin"} : biller[b].at \in {"idle"} \cup waits
  /\ worker = "off" /\ ~toldNone /\ ~failing.on /\ listed = None
Delay ==
  IF commands = <<>> /\ events = {} THEN UNCHANGED incidents ELSE Incident
Minutes == Quiet({"claim"})
Days == Quiet({}) /\ Delay

NextDay ==
  /\ Days /\ today < MaxDay /\ incidents' + today <= MaxIncidents
  /\ today' = today + 1
  /\ UNCHANGED <<membership, ending, agreed, wallet, past>>

RetryComesDue ==
  /\ Days /\ dunning.attempts > 0 /\ ~dunning.due
  /\ dunning' = [dunning EXCEPT !.due = TRUE]
  /\ UNCHANGED <<today, contract, ends, recorded, biller, listed, toldNone,
                 failing, ending, agreed, wallet, past>>

\* Thirty minutes
ClaimGoesOverdue ==
  /\ Minutes /\ Delay /\ contract.busy /\ ~contract.overdue
  /\ contract' = [contract EXCEPT !.overdue = TRUE]
  /\ UNCHANGED <<today, ends, dunning, recorded, biller, listed, toldNone,
                 failing, ending, agreed, wallet, past>>

Stay == UNCHANGED <<today, membership, ending, agreed, past>>

-----------------------------------------------------------------------------
(* Wallet: BillingChargeConsumer.onBillingCharge *)

Announce(type, k) == events' = events \cup {[type |-> type, key |-> k]}
\* A FAILED event of the intent is in the outbox.
Announced(k) == [type |-> "FAILED", key |-> k] \in events \/ FailMark(k, FALSE) \in recorded
Served == IF commands = <<>> THEN {} ELSE {Head(commands)}
Delivered(k) == worker = "off" /\ k \in Served
Working(k) == worker # "off" /\ k \in Served
\* An update: the intent is not stale any more.
Update(k, status) ==
  intent' = [intent EXCEPT ![k] = status] /\ stale' = stale \ {k}
Acknowledge == commands' = Tail(commands) /\ worker' = "off"

\* No agreement: nothing is made, whatever became of the key before.
Reject(k) ==
  /\ Delivered(k) /\ ~agreed
  /\ Acknowledge /\ Announce("NO_METHOD", k)
  /\ UNCHANGED <<intent, stale, order, bank, astray, incidents>>

CreateIntent_Unchecked(k) ==
  /\ Delivered(k) /\ agreed
  /\ intent' = [intent EXCEPT ![k] = "CREATED"]
  /\ worker' = "created"
  /\ UNCHANGED <<commands, events, stale, order, bank, astray, incidents>>

CreateIntent(k) ==
  /\ Delivered(k) /\ agreed /\ intent[k] = "none"
  /\ intent' = [intent EXCEPT ![k] = "CREATED"]
  /\ worker' = "created"
  /\ UNCHANGED <<commands, events, stale, order, bank, astray, incidents>>

\* The key has an intent: nothing is charged. One that is stuck becomes FAILED,
\* one that failed without an announcement is announced.
Repeat(k) ==
  /\ Delivered(k) /\ agreed /\ intent[k] # "none"
  /\ Acknowledge
  /\ IF intent[k] \in {"CREATED", "PROCESSING"} /\ k \in stale
     THEN Update(k, "FAILED") /\ Announce("FAILED", k)
     ELSE /\ UNCHANGED <<intent, stale>>
          /\ IF intent[k] = "FAILED" /\ ~Announced(k)
             THEN Announce("FAILED", k) ELSE UNCHANGED events
  /\ UNCHANGED <<order, bank, astray, incidents>>

\* The charge is inserted without a look at the intent.
CreateCharge(k) ==
  /\ Working(k) /\ worker = "created"
  /\ worker' = "charged"
  /\ intent' = [intent EXCEPT ![k] = IF @ = "CREATED" THEN "PROCESSING" ELSE @]
  /\ UNCHANGED <<commands, events, stale, order, bank, astray, incidents>>

\* CmsBatchProvider.authorize: the row is written before the bank is asked.
WriteAhead(k) ==
  /\ Working(k) /\ worker = "charged"
  /\ \/ order' = [order EXCEPT ![k] = "REQUESTED"] /\ worker' = "ordering"
     \/ UNCHANGED order /\ worker' = "refused"
  /\ UNCHANGED <<commands, events, intent, stale, bank, astray, incidents>>

\* A 4xx is a refusal; of a 5xx nobody knows whether the bank has the order.
AskBank(k) ==
  /\ Working(k) /\ worker = "ordering"
  /\ \/ /\ bank' = [bank EXCEPT ![k] = IF @ = "none" THEN "asked" ELSE "twice"]
        /\ UNCHANGED order /\ worker' = "ordered"
     \/ UNCHANGED <<bank, order>> /\ worker' = "ordered"
     \/ /\ UNCHANGED bank /\ order' = [order EXCEPT ![k] = "DELETED"]
        /\ worker' = "refused"
  /\ UNCHANGED <<commands, events, intent, stale, astray, incidents>>

\* PENDING and FAILED: a transition the intent's state does not allow throws,
\* and the command is delivered again.
StoreResult(k) ==
  /\ Working(k) /\ worker \in {"ordered", "refused"}
  /\ IF intent[k] # "PROCESSING"
     THEN worker' = "off" /\ UNCHANGED <<commands, events, intent, stale>>
     ELSE /\ Acknowledge
          /\ IF worker = "ordered"
             THEN Update(k, "PENDING_SETTLEMENT") /\ UNCHANGED events
             ELSE Update(k, "FAILED") /\ Announce("FAILED", k)
  /\ UNCHANGED <<order, bank, astray, incidents>>

\* A database error inside authorize: FAILED without an announcement.
ProviderThrows(k) ==
  /\ Working(k) /\ worker = "charged" /\ Incident
  /\ worker' = "off"
  /\ IF intent[k] = "PROCESSING" THEN Update(k, "FAILED") ELSE UNCHANGED <<intent, stale>>
  /\ UNCHANGED <<commands, events, order, bank, astray>>

\* The process dies, or storing the result throws: the command comes again.
WorkerDies(k) ==
  /\ Working(k) /\ Incident
  /\ worker' = "off"
  /\ astray' = astray \cup {k}
  /\ UNCHANGED <<commands, events, intent, stale, order, bank>>

\* A command or an event ends among the dead letters.
LoseMessage ==
  /\ Incident
  /\ \/ worker = "off" /\ commands # <<>> /\ Acknowledge /\ UNCHANGED events
     \/ \E e \in events : events' = events \ {e} /\ UNCHANGED <<commands, worker>>
  /\ UNCHANGED <<intent, stale, order, bank, astray>>

GoStale(k) ==
  /\ intent[k] \in {"CREATED", "PROCESSING"} /\ Minutes /\ k \notin stale
  /\ stale' = stale \cup {k}
  /\ UNCHANGED <<commands, events, intent, worker, order, bank, astray, incidents>>

-----------------------------------------------------------------------------
(* Wallet: CmsSettlementPoller, ExpirationJob, CancelService; the bank *)

BankSettles(k) ==
  /\ bank[k] = "asked" /\ Days
  /\ \E end \in {"taken", "refused"} : bank' = [bank EXCEPT ![k] = end]
  /\ UNCHANGED <<commands, events, intent, worker, stale, order, astray>>

\* What the poller is told: an order that is not there is lost from the next day.
Answer(k) ==
  IF bank[k] = "taken" THEN "SUCCEEDED"
  ELSE IF bank[k] = "refused" \/ (bank[k] = "none" /\ ~Working(k)) THEN "FAILED"
  ELSE "wait"

\* The intent must be PENDING_SETTLEMENT; one that is closed is not revived, and
\* one still PROCESSING makes the whole transaction fail, every time.
Poll(k) ==
  /\ order[k] = "REQUESTED" /\ Answer(k) # "wait"
  /\ order' = [order EXCEPT ![k] = Answer(k)]
  /\ \/ /\ intent[k] \in {"FAILED", "CANCELED"}
        /\ UNCHANGED <<intent, events>>
     \/ /\ intent[k] = "PENDING_SETTLEMENT"
        /\ LET end == IF Answer(k) = "SUCCEEDED" THEN "AUTHORIZED" ELSE "FAILED"
           IN intent' = [intent EXCEPT ![k] = end] /\ Announce(end, k)
  /\ UNCHANGED <<commands, worker, stale, bank, astray, incidents>>

\* The withdrawal of an active charge must be deleted at the bank first; without
\* an order to delete the cancellation is refused.
Cancel(k) ==
  /\ \/ intent[k] = "CREATED" /\ UNCHANGED <<order, bank>>
     \/ /\ intent[k] \in {"PROCESSING", "PENDING_SETTLEMENT"}
        /\ order[k] = "DELETED" \/ (order[k] = "REQUESTED" /\ bank[k] = "asked")
        /\ order' = [order EXCEPT ![k] = "DELETED"]
        /\ bank' = [bank EXCEPT ![k] = IF @ = "asked" THEN "deleted" ELSE @]
  /\ Update(k, "CANCELED")
  /\ Announce("CANCELED", k)
  /\ astray' = IF Working(k) THEN astray \cup {k} ELSE astray
  /\ UNCHANGED <<commands, worker>>

CancelIntent(k) == Cancel(k) /\ Incident

\* EXPIRABLE_INTENT_STATUSES, a day after the intent was made
Expire(k) ==
  /\ k \in stale /\ intent[k] # "PENDING_SETTLEMENT"
  /\ Cancel(k) /\ UNCHANGED incidents

Made == {k \in Keys : intent[k] # "none"}

Charge(k) ==
  \/ Reject(k) \/ CreateIntent(k) \/ Repeat(k) \/ CreateCharge(k) \/ WriteAhead(k)
  \/ AskBank(k) \/ StoreResult(k)
Settle(k) == GoStale(k) \/ BankSettles(k) \/ Poll(k) \/ Expire(k)

-----------------------------------------------------------------------------

Membership ==
  \/ Look \/ WriteFailure \/ Reconcile \/ ReconcileFindsNone \/ ReleaseLost
  \/ \E b \in {"cron", "admin"} :
       Claim(b) \/ Publish(b) \/ PublishFails(b) \/ BillerDies(b)
  \/ \E e \in events : HandleEvent(e)
People ==
  \/ Resign \/ Undo \/ CancelNow \/ SwitchRenewalOff \/ SwitchRenewalOn
  \/ RevokeAgreement \/ ListExpired \/ HandleExpiration
Time == NextDay \/ RetryComesDue \/ ClaimGoesOverdue
Wallet ==
  /\ \/ \E k \in Served : Charge(k) \/ ProviderThrows(k) \/ WorkerDies(k)
     \/ \E k \in Made : Settle(k) \/ CancelIntent(k)
     \/ LoseMessage
  /\ Stay

Next == Membership \/ People \/ Time \/ Wallet

Spec == Init /\ [][Next]_vars

\* Every process goes on and every answer comes, except people, incidents, the
\* end of a mandate, the calendar and the schedulers that only find something to do.
Fairness ==
  /\ WF_vars(\/ biller["cron"].at = "reread" /\ Look
             \/ \E b \in {"cron", "admin"} : Claim(b) \/ Publish(b))
  /\ WF_vars(Reconcile \/ ReconcileFindsNone \/ ReleaseLost \/ WriteFailure)
  /\ WF_vars(HandleExpiration) /\ WF_vars(ClaimGoesOverdue)
  /\ WF_vars(\E e \in events : HandleEvent(e) /\ events' # events)
  /\ WF_vars(\E k \in Served : Charge(k) /\ Stay)
  /\ WF_vars(\E k \in Made : Settle(k) /\ Stay)

FairSpec == Spec /\ Fairness

-----------------------------------------------------------------------------
(* Properties *)

\* Types of all variables.
TypeOK ==
  /\ today \in 1 .. MaxDay /\ ends \in Nat
  /\ contract \in [status : {"ACTIVE", "CANCELLED", "EXPIRED"},
                    autoRenewal : BOOLEAN, resigned : BOOLEAN, next : Nat,
                    busy : BOOLEAN, overdue : BOOLEAN, key : Keys \cup {NoKey}]
  /\ dunning \in [attempts : Attempts, due : BOOLEAN]
  /\ recorded \subseteq Keys \X {"CHARGE_SUCCESS", "CHARGE_FAIL",
                                 "CHARGE_FAIL_NO_INTENT", "CHARGE_CANCELED"}
  /\ biller \in [{"cron", "admin"} -> [at : {"idle", "reread", "claim", "publish"},
                                      next : Nat, attempt : Attempts]]
  /\ listed \in Nat /\ toldNone \in BOOLEAN
  /\ raced \in BOOLEAN /\ crossed \in BOOLEAN
  /\ failing \in [on : BOOLEAN, key : Keys \cup {NoKey}, noMethod : BOOLEAN,
                   renews : BOOLEAN]
  /\ failing.on => failing.key \in Keys
  /\ ending \in {"no", "now", "queued"} /\ agreed \in BOOLEAN
  /\ commands \in Seq(Keys) /\ stale \subseteq Keys /\ astray \subseteq Keys
  /\ events \subseteq [type : {"AUTHORIZED", "FAILED", "CANCELED", "NO_METHOD"}, key : Keys]
  /\ intent \in [Keys -> Open \cup {"none", "AUTHORIZED", "FAILED", "CANCELED"}]
  /\ worker \in {"off", "created", "charged", "ordering", "ordered", "refused"}
  /\ order \in [Keys -> {"none", "REQUESTED", "SUCCEEDED", "FAILED", "DELETED"}]
  /\ bank \in [Keys -> {"none", "asked", "twice", "taken", "refused", "deleted"}]

\* A key is sent to the bank once; and a period is drawn once, however often its
\* charge is tried, except for keys that went astray, for a contract that has lost
\* its due date or has expired, and once a claim was given back for another key.
Drawn == {k \in Keys : bank[k] \in {"asked", "taken"}} \ astray
DrawnOnce ==
  /\ \A k \in Keys : bank[k] # "twice"
  /\ contract.status # "EXPIRED" /\ ~crossed =>
       \A j \in Drawn : \A k \in Drawn \ {j} : j[1] = k[1] => j[1] = None

\* Every extension uses up a payment of its own, which the bank has made.
ExtendedOnlyWhenPaid ==
  [][ends' > ends =>
       \E k \in Keys : /\ bank[k] = "taken"
                       /\ <<k, "CHARGE_SUCCESS">> \in recorded' \ recorded]_vars

\* A contract that is cancelled or resigned is not dunned.
NoDunningOnceEnded ==
  dunning.attempts > 0 /\ (contract.resigned \/ contract.status = "CANCELLED") => raced

\* A claim is held for ever only if its outcome had been recorded before, if its
\* intent is left PROCESSING by a death, or if its withdrawal was deleted with the
\* mandate.
Stranded ==
  LET k == contract.key IN
    \/ \E r \in recorded : r[1] = k
    \/ k \in astray /\ intent[k] = "PROCESSING"
    \/ k # NoKey /\ intent[k] = "PENDING_SETTLEMENT" /\ order[k] = "DELETED"
ClaimsEnd == <>[]contract.busy => <>[]Stranded
=============================================================================
