--------------------------- MODULE BillingProofs ----------------------------
(***************************************************************************)
(* Proofs about Billing for every number of dunning attempts, days and     *)
(* incidents.                                                              *)
(***************************************************************************)
EXTENDS Billing, TLAPS

Billers == {"cron", "admin"}
EventTypes == {"AUTHORIZED", "FAILED", "CANCELED", "NO_METHOD"}

\* What is published was claimed; who has not looked yet knows no date.
Publishing ==
  \A b \in Billers :
    /\ biller[b].at = "publish" => KeyOf(b) \in Keys
    /\ biller[b].at \in {"idle", "reread"} => biller[b].next = None

Contracts ==
  [status : {"ACTIVE", "CANCELLED", "EXPIRED"}, autoRenewal : BOOLEAN, resigned : BOOLEAN,
   next : Nat, busy : BOOLEAN, overdue : BOOLEAN, key : Keys \cup {NoKey}]

\* The rows of membership, its schedulers and handlers.
MemberTypes ==
  /\ today \in 1 .. MaxDay /\ ends \in Nat
  /\ contract \in Contracts
  /\ dunning \in [attempts : Attempts, due : BOOLEAN]
  /\ recorded \subseteq Keys \X {"CHARGE_SUCCESS", "CHARGE_FAIL",
                                 "CHARGE_FAIL_NO_INTENT", "CHARGE_CANCELED"}
  /\ biller \in [Billers -> [at : {"idle", "reread", "claim", "publish"},
                             next : Nat, attempt : Attempts]]
  /\ failing \in [on : BOOLEAN, key : Keys \cup {NoKey}, noMethod : BOOLEAN,
                   renews : BOOLEAN]
  /\ failing.on => failing.key \in Keys
  /\ Publishing

\* The tables of wallet, the messages and the bank.
WalletTypes ==
  /\ commands \in Seq(Keys) /\ stale \subseteq Keys /\ astray \subseteq Keys
  /\ events \subseteq [type : EventTypes, key : Keys]
  /\ intent \in [Keys -> Open \cup {"none", "AUTHORIZED", "FAILED", "CANCELED"}]
  /\ worker \in {"off", "created", "charged", "ordering", "ordered", "refused"}
  /\ order \in [Keys -> {"none", "REQUESTED", "SUCCEEDED", "FAILED", "DELETED"}]
  /\ bank \in [Keys -> {"none", "asked", "twice", "taken", "refused", "deleted"}]

OtherTypes ==
  /\ listed \in Nat /\ toldNone \in BOOLEAN
  /\ raced \in BOOLEAN /\ crossed \in BOOLEAN
  /\ ending \in {"no", "now", "queued"} /\ agreed \in BOOLEAN

Types == MemberTypes /\ WalletTypes /\ OtherTypes

\* The key the worker is at: its intent is made; its withdrawal is written ahead
\* before the bank is asked, and asked once. Only who is astray sees it closed.
AskingFor(k) ==
  /\ intent[k] # "none"
  /\ worker \in {"created", "charged"} => order[k] = "none"
  /\ worker = "ordering" => order[k] = "REQUESTED"
  /\ worker \in {"created", "charged", "ordering", "refused"} => bank[k] = "none"
  /\ worker # "created" => intent[k] # "CREATED"
  /\ k \notin astray => intent[k] = IF worker = "created" THEN "CREATED" ELSE "PROCESSING"
Asking ==
  /\ worker # "off" => commands # <<>>
  /\ \A k \in Keys : Working(k) => AskingFor(k)

\* What the intent, the row of the withdrawal and the bank know of one key.
DrawingOf(k) ==
  /\ intent[k] \in {"none", "CREATED"} => order[k] = "none" /\ bank[k] = "none"
  /\ bank[k] # "twice"
  /\ bank[k] = "asked" => order[k] = "REQUESTED"
  /\ bank[k] = "taken" => order[k] \in {"REQUESTED", "SUCCEEDED"}
  /\ intent[k] = "AUTHORIZED" => bank[k] = "taken"
Drawing == \A k \in Keys : DrawingOf(k)

\* What membership is told, and what it has recorded of a payment, is the end of
\* the intent.
Succeeded(k) == <<k, "CHARGE_SUCCESS">> \in recorded
Told ==
  /\ \A e \in events : e.type # "NO_METHOD" => intent[e.key] = e.type
  /\ failing.on /\ ~failing.noMethod => intent[failing.key] = "FAILED"
  /\ \A k \in Keys : Succeeded(k) => intent[k] = "AUTHORIZED"

Books == Types /\ Asking /\ Drawing /\ Told

\* No due date is later than the end of the entitlement; a cancelled contract has
\* neither; who has read the contract for a failure finds it active when he writes.
Standing ==
  /\ Active => /\ ends # None /\ contract.next \in {None, ends}
               /\ \A b \in Billers : biller[b].next <= ends
               /\ contract.key # NoKey => contract.key[1] <= ends
  /\ contract.status = "CANCELLED" => ends = None /\ contract.next = None
  /\ failing.on /\ failing.renews => Active

\* A key that may still lead to a payment nobody has recorded; once it cannot, it
\* never will.
Live(k) ==
  /\ k \notin astray
  /\ \/ intent[k] \in Open \cup {"none"}
     \/ intent[k] = "AUTHORIZED" /\ ~Succeeded(k)

\* Where a key can be: with a scheduler, in a command, in an intent, in the answer
\* that no intent was made.
Sends(b, k) == biller[b].at = "publish" /\ KeyOf(b) = k
Sent(k) == \E i \in DOMAIN commands : commands[i] = k
Unmet(k) ==
  /\ FailMark(k, TRUE) \notin recorded
  /\ \/ [type |-> "NO_METHOD", key |-> k] \in events
     \/ failing.on /\ failing.key = k /\ failing.noMethod
InPlay(k) == (\E b \in Billers : Sends(b, k)) \/ Sent(k) \/ intent[k] # "none" \/ Unmet(k)

Once(k) == \A i, j \in DOMAIN commands : commands[i] = k /\ commands[j] = k => i = j
InOnePlace(k) ==
  /\ \A b \in Billers : Sends(b, k) => /\ ~Sent(k) /\ intent[k] = "none" /\ ~Unmet(k)
                                       /\ \A c \in Billers : Sends(c, k) => c = b
  /\ Once(k)
  /\ Sent(k) => ~Unmet(k) /\ (intent[k] # "none" => Working(k))
  /\ Unmet(k) => intent[k] = "none"
Resting == \A b \in Billers : biller[b].at = "idle"

\* A live key is in one place, and while it is in play it holds the claim; from the
\* day the bank has paid for it no scheduler is busy.
Orderly(k) ==
  /\ InPlay(k) => contract.busy /\ contract.key = k
  /\ InOnePlace(k)
  /\ bank[k] = "taken" => Resting

\* What is drawn and not astray belongs to an intent that did not fail.
Backed == \A k \in Drawn : intent[k] \in Open \cup {"AUTHORIZED"}

OneClaim == ~crossed => Backed /\ \A k \in Keys : Live(k) => Orderly(k)

\* The keys whose payment is recorded; that of a contract without a due date is of
\* no period.
Done == {k \in Keys \ astray : Succeeded(k) /\ k[1] # None}
\* The period is behind: nobody plans, claims or charges it again.
Behind(period) ==
  /\ Active => period < ends
  /\ \A b \in Billers : biller[b].next # period
  /\ contract.busy /\ contract.key # NoKey => contract.key[1] # period
Periods ==
  contract.status # "EXPIRED" /\ ~crossed =>
    \A j \in Done : Behind(j[1]) /\ \A k \in Done \ {j} : j[1] # k[1]

IInv == Books /\ Standing /\ OneClaim /\ Periods

-----------------------------------------------------------------------------
(* Types *)

LEMMA TypesOK == Types <=> TypeOK /\ Publishing
  BY DEF Types, MemberTypes, WalletTypes, OtherTypes, TypeOK, Contracts, Billers, EventTypes

LEMMA DataTypes ==
  /\ None \in Nat /\ \A k \in Keys : k[1] \in Nat
  /\ Attempts \subseteq Nat /\ 0 \in Attempts /\ <<1, 0>> \in Keys
  BY BillingAssumption DEF None, Keys, Dates, Attempts

LEMMA InitTypes == Init => Types
  <1> SUFFICES ASSUME Init PROVE Types
    OBVIOUS
  <1> USE BillingAssumption, DataTypes
  <1>1. MemberTypes
    BY DEF Init, MemberTypes, Contracts, Publishing, Billers, IdleBiller, NoDunning, NoFailure, None
  <1>2. WalletTypes
    BY DEF Init, WalletTypes, Open
  <1>3. OtherTypes
    BY DEF Init, OtherTypes, None
  <1> QED BY <1>1, <1>2, <1>3 DEF Types

\* What the schedulers see and remember.
LEMMA MovesTypes ==
  ASSUME MemberTypes, NEW b \in Billers, NEW at \in {"idle", "reread", "claim", "publish"},
         NEW next \in Nat, NEW attempt \in Attempts, Moves(b, at, next, attempt),
         at = "publish" => <<next, attempt>> \in Keys,
         at \in {"idle", "reread"} => next = None
  PROVE  /\ biller' \in [Billers -> [at : {"idle", "reread", "claim", "publish"},
                                     next : Nat, attempt : Attempts]]
         /\ Publishing'
  BY DEF MemberTypes, Publishing, Moves, KeyOf

LEMMA LookTypes ==
  ASSUME Types, Look PROVE Types'
  <1> USE DataTypes DEF Types
  <1>1. /\ dunning.attempts \in Attempts /\ contract.next \in Nat /\ "cron" \in Billers
        /\ "admin" \in Billers /\ biller["cron"].attempt \in Attempts
    BY DEF MemberTypes, Contracts, Billers
  <1>2. MemberTypes'
    <2>1. CASE FindDue
      BY <1>1, <2>1, MovesTypes DEF FindDue, Look, MemberTypes
    <2>2. CASE FindDunning
      BY <1>1, <2>2, MovesTypes DEF FindDunning, Look, MemberTypes
    <2>3. CASE RereadContract
      <3>1. Moves("cron", "claim", contract.next, biller["cron"].attempt)
        BY <2>3 DEF RereadContract
      <3>2. /\ biller' \in [Billers -> [at : {"idle", "reread", "claim", "publish"},
                                      next : Nat, attempt : Attempts]]
            /\ Publishing'
        BY <1>1, <3>1, MovesTypes
      <3> QED BY <3>2 DEF Look, MemberTypes
    <2>4. CASE AskRetry
      BY <1>1, <2>4, MovesTypes DEF AskRetry, Look, MemberTypes
    <2> QED BY <2>1, <2>2, <2>3, <2>4 DEF Look
  <1>3. WalletTypes' /\ OtherTypes'
    BY DEF Look, wallet, books, past, WalletTypes, OtherTypes
  <1> QED BY <1>2, <1>3

LEMMA SendTypes ==
  ASSUME commands \in Seq(Keys), NEW k \in Keys, Send(k) PROVE commands' \in Seq(Keys)
  BY DEF Send

LEMMA BillerTypes ==
  ASSUME Types, NEW b \in Billers,
         Claim(b) \/ Publish(b) \/ PublishFails(b) \/ BillerDies(b)
  PROVE  Types'
  <1> USE DataTypes DEF Types
  <1>1. /\ biller[b].next \in Nat /\ biller[b].attempt \in Attempts
        /\ biller[b].at = "publish" => KeyOf(b) \in Keys
    BY DEF MemberTypes, Publishing
  <1>2. CASE Claim(b)
    <2>1. MemberTypes'
      <3>1. CASE contract.busy
        BY <1>1, <1>2, <3>1, MovesTypes DEF Claim, MemberTypes
      <3>2. CASE ~contract.busy
        <4>1. /\ contract' \in Contracts
              /\ Moves(b, "publish", biller[b].next, biller[b].attempt)
          BY <1>2, <3>2 DEF Claim, MemberTypes, Contracts
        <4>2. <<biller[b].next, biller[b].attempt>> \in Keys
          BY <1>2 DEF Claim, KeyOf
        <4> QED BY <1>1, <1>2, <4>1, <4>2, MovesTypes DEF Claim, MemberTypes
      <3> QED BY <3>1, <3>2
    <2>2. WalletTypes' /\ OtherTypes'
      BY <1>2 DEF Claim, wallet, books, past, WalletTypes, OtherTypes
    <2> QED BY <2>1, <2>2
  <1>3. CASE Publish(b)
    <2>1. MemberTypes'
      BY <1>1, <1>3, MovesTypes DEF Publish, MemberTypes
    <2>2. WalletTypes' /\ OtherTypes'
      BY <1>1, <1>3, SendTypes DEF Publish, books, past, WalletTypes, OtherTypes
    <2> QED BY <2>1, <2>2
  <1>4. CASE PublishFails(b)
    <2>1. contract' \in Contracts
      BY <1>4 DEF PublishFails, Unclaim, MemberTypes, Contracts
    <2>2. MemberTypes'
      BY <1>1, <1>4, <2>1, MovesTypes DEF PublishFails, MemberTypes
    <2>3. WalletTypes'
      BY <1>1, <1>4, SendTypes DEF PublishFails, books, WalletTypes
    <2>4. OtherTypes'
      BY <1>4 DEF PublishFails, Lets, OtherTypes, MemberTypes
    <2> QED BY <2>2, <2>3, <2>4
  <1>5. CASE BillerDies(b)
    <2>1. MemberTypes'
      BY <1>1, <1>5, MovesTypes DEF BillerDies, MemberTypes
    <2>2. WalletTypes' /\ OtherTypes'
      BY <1>5 DEF BillerDies, wallet, books, past, WalletTypes, OtherTypes
    <2> QED BY <2>1, <2>2
  <1> QED BY <1>2, <1>3, <1>4, <1>5

\* What an outcome may change.
LEMMA OutcomeTypes ==
  ASSUME Types, NEW k \in Keys,
         \/ HandleSuccess(k)
         \/ HandleCanceled(k)
         \/ \E m \in BOOLEAN, r \in BOOLEAN : HandleFailure(k, m, r)
  PROVE  /\ contract' \in Contracts /\ ends' \in Nat
         /\ dunning' \in [attempts : Attempts, due : BOOLEAN]
         /\ recorded' \subseteq Keys \X {"CHARGE_SUCCESS", "CHARGE_FAIL",
                                         "CHARGE_FAIL_NO_INTENT", "CHARGE_CANCELED"}
  <1> USE DataTypes DEF Types
  <1>0. /\ contract \in Contracts /\ ends \in Nat /\ today \in Nat
        /\ dunning \in [attempts : Attempts, due : BOOLEAN]
        /\ NoDunning \in [attempts : Attempts, due : BOOLEAN]
        /\ recorded \subseteq Keys \X {"CHARGE_SUCCESS", "CHARGE_FAIL",
                                       "CHARGE_FAIL_NO_INTENT", "CHARGE_CANCELED"}
    BY DEF MemberTypes, NoDunning
  <1>1. Release => contract' \in Contracts
    BY <1>0 DEF Release, Contracts
  <1>2. Terminate => /\ contract' \in Contracts /\ ends' \in Nat
                     /\ dunning' \in [attempts : Attempts, due : BOOLEAN]
    BY <1>0 DEF Terminate, Contracts
  <1>3. ASSUME NEW due \in BOOLEAN, Dun(due)
        PROVE  /\ contract' \in Contracts /\ ends' \in Nat
               /\ dunning' \in [attempts : Attempts, due : BOOLEAN]
    <2>1. CASE dunning.attempts < DUNNING_MAX_ATTEMPTS
      <3>1. dunning.attempts + 1 \in Attempts
        BY <1>0, <2>1, BillingAssumption DEF Attempts
      <3> QED BY <1>0, <1>1, <1>3, <2>1, <3>1 DEF Dun
    <2> QED BY <1>2, <1>3, <2>1 DEF Dun
  <1>4. ASSUME NEW mark \in {"CHARGE_SUCCESS", "CHARGE_FAIL", "CHARGE_FAIL_NO_INTENT",
                             "CHARGE_CANCELED"}
        PROVE  recorded \cup {<<k, mark>>} \subseteq
                 Keys \X {"CHARGE_SUCCESS", "CHARGE_FAIL", "CHARGE_FAIL_NO_INTENT",
                          "CHARGE_CANCELED"}
    BY <1>0
  <1>5. \A m \in BOOLEAN : recorded \cup {FailMark(k, m)} \subseteq
                 Keys \X {"CHARGE_SUCCESS", "CHARGE_FAIL", "CHARGE_FAIL_NO_INTENT",
                          "CHARGE_CANCELED"}
    BY <1>4 DEF FailMark
  <1>6. CASE HandleSuccess(k)
    <2>1. Later(ends) \in Nat
      BY <1>0 DEF Later
    <2>2. CASE <<k, "CHARGE_SUCCESS">> \in recorded
      BY <1>0, <1>6, <2>2 DEF HandleSuccess
    <2>3. CASE <<k, "CHARGE_SUCCESS">> \notin recorded /\ (~Active \/ ends = None)
      BY <1>0, <1>1, <1>6, <1>4, <2>3 DEF HandleSuccess
    <2>4. CASE <<k, "CHARGE_SUCCESS">> \notin recorded /\ ~(~Active \/ ends = None)
      <3>1. contract' \in Contracts
        BY <1>0, <1>6, <2>1, <2>4 DEF HandleSuccess, Contracts
      <3> QED BY <1>0, <1>6, <1>4, <2>1, <2>4, <3>1 DEF HandleSuccess
    <2> QED BY <2>2, <2>3, <2>4
  <1>7. CASE HandleCanceled(k)
    <2>1. CASE <<k, "CHARGE_CANCELED">> \in recorded
      BY <1>0, <1>7, <2>1 DEF HandleCanceled
    <2>2. CASE <<k, "CHARGE_CANCELED">> \notin recorded /\ (~contract.busy \/ ~Renewing)
      BY <1>0, <1>1, <1>7, <1>4, <2>2 DEF HandleCanceled
    <2>3. CASE <<k, "CHARGE_CANCELED">> \notin recorded /\ contract.busy /\ Renewing
      <3>1. Dun(TRUE)
        BY <1>7, <2>3 DEF HandleCanceled
      <3> QED BY <1>3, <1>7, <1>4, <2>3, <3>1 DEF HandleCanceled
    <2> QED BY <2>1, <2>2, <2>3
  <1>8. ASSUME NEW m \in BOOLEAN, NEW r \in BOOLEAN, HandleFailure(k, m, r)
        PROVE  /\ contract' \in Contracts /\ ends' \in Nat
               /\ dunning' \in [attempts : Attempts, due : BOOLEAN]
               /\ recorded' \subseteq Keys \X {"CHARGE_SUCCESS", "CHARGE_FAIL",
                                               "CHARGE_FAIL_NO_INTENT", "CHARGE_CANCELED"}
    <2>1. CASE FailMark(k, m) \in recorded
      BY <1>0, <1>8, <2>1 DEF HandleFailure
    <2>2. CASE FailMark(k, m) \notin recorded /\ ~r
      BY <1>0, <1>1, <1>8, <1>5, <2>2 DEF HandleFailure
    <2>3. CASE FailMark(k, m) \notin recorded /\ r
      <3>1. Terminate \/ Dun(FALSE)
        BY <1>8, <2>3 DEF HandleFailure
      <3> QED BY <1>2, <1>3, <1>8, <1>5, <2>3, <3>1 DEF HandleFailure
    <2> QED BY <2>1, <2>2, <2>3
  <1> QED BY <1>6, <1>7, <1>8

LEMMA ReadTypes ==
  ASSUME Types, NEW k \in Keys, NEW m \in BOOLEAN, ReadForFailure(k, m)
  PROVE  /\ contract' \in Contracts /\ ends' \in Nat
         /\ dunning' \in [attempts : Attempts, due : BOOLEAN]
         /\ recorded' \subseteq Keys \X {"CHARGE_SUCCESS", "CHARGE_FAIL",
                                         "CHARGE_FAIL_NO_INTENT", "CHARGE_CANCELED"}
         /\ failing' \in [on : BOOLEAN, key : Keys \cup {NoKey}, noMethod : BOOLEAN,
                          renews : BOOLEAN]
         /\ failing'.on => failing'.key \in Keys
  <1>1. Renewing \in BOOLEAN
    BY DEF Types, MemberTypes, Contracts, Renewing, Active
  <1> QED BY <1>1 DEF Types, MemberTypes, ReadForFailure

LEMMA AnyOutcomeTypes ==
  ASSUME Types, NEW k \in Keys, NEW type, Outcome(type, k),
         UNCHANGED <<today, biller>>
  PROVE  MemberTypes'
  <1>1. CASE type = "AUTHORIZED" /\ HandleSuccess(k) /\ UNCHANGED failing
    BY <1>1, OutcomeTypes DEF Types, MemberTypes, Publishing, KeyOf
  <1>2. CASE type = "CANCELED" /\ HandleCanceled(k) /\ UNCHANGED failing
    BY <1>2, OutcomeTypes DEF Types, MemberTypes, Publishing, KeyOf
  <1>3. CASE ReadForFailure(k, type = "NO_METHOD")
    <2>1. (type = "NO_METHOD") \in BOOLEAN
      OBVIOUS
    <2> QED BY <1>3, <2>1, ReadTypes DEF Types, MemberTypes, Publishing, KeyOf
  <1> QED BY <1>1, <1>2, <1>3 DEF Outcome

LEMMA HandlerTypes ==
  ASSUME Types,
         \/ WriteFailure \/ Reconcile \/ ReconcileFindsNone \/ ReleaseLost
         \/ \E e \in events : HandleEvent(e)
  PROVE  Types'
  <1> USE DEF Types
  <1>1. CASE WriteFailure
    <2>1. /\ failing.key \in Keys /\ failing.noMethod \in BOOLEAN /\ failing.renews \in BOOLEAN
      BY <1>1 DEF WriteFailure, MemberTypes
    <2>2. MemberTypes'
      BY <1>1, <2>1, OutcomeTypes DEF WriteFailure, MemberTypes, NoFailure, Publishing, KeyOf
    <2>3. WalletTypes'
      BY <1>1 DEF WriteFailure, wallet, books, WalletTypes
    <2>4. OtherTypes'
      BY <1>1, <2>1 DEF WriteFailure, Lets, OtherTypes, MemberTypes, Contracts
    <2> QED BY <2>2, <2>3, <2>4
  <1>2. CASE Reconcile
    <2>1. contract.key \in Keys
      BY <1>2 DEF Reconcile, Overdue, MemberTypes, Contracts
    <2>2. MemberTypes'
      BY <1>2, <2>1, AnyOutcomeTypes DEF Reconcile
    <2>3. WalletTypes' /\ OtherTypes'
      BY <1>2 DEF Reconcile, wallet, books, past, WalletTypes, OtherTypes
    <2> QED BY <2>2, <2>3
  <1>3. CASE ReconcileFindsNone
    <2>1. MemberTypes'
      BY <1>3 DEF ReconcileFindsNone, MemberTypes, Publishing, KeyOf
    <2>2. WalletTypes' /\ OtherTypes'
      BY <1>3 DEF ReconcileFindsNone, wallet, books, past, WalletTypes, OtherTypes
    <2> QED BY <2>1, <2>2
  <1>4. CASE ReleaseLost
    <2>1. contract' \in Contracts
      BY <1>4 DEF ReleaseLost, Unclaim, MemberTypes, Contracts
    <2>2. MemberTypes'
      BY <1>4, <2>1 DEF ReleaseLost, MemberTypes, Publishing, KeyOf
    <2>3. WalletTypes' /\ OtherTypes'
      <3>1. {contract.key} \ {NoKey} \subseteq Keys
        BY DEF MemberTypes, Contracts
      <3> QED BY <1>4, <3>1 DEF ReleaseLost, books, past, WalletTypes, OtherTypes
    <2> QED BY <2>2, <2>3
  <1>5. ASSUME NEW e \in events, HandleEvent(e) PROVE Types'
    <2>1. e.key \in Keys
      BY DEF WalletTypes
    <2>2. MemberTypes'
      BY <1>5, <2>1, AnyOutcomeTypes DEF HandleEvent
    <2>3. WalletTypes'
      BY <1>5 DEF HandleEvent, WalletTypes
    <2>4. OtherTypes'
      <3>1. contract' \in Contracts
        BY <2>2 DEF MemberTypes
      <3> QED BY <1>5, <3>1 DEF HandleEvent, Lets, OtherTypes, MemberTypes, Contracts
    <2> QED BY <2>2, <2>3, <2>4
  <1> QED BY <1>1, <1>2, <1>3, <1>4, <1>5

LEMMA PeopleTypes ==
  ASSUME Types, People PROVE Types'
  <1> USE DataTypes DEF Types
  <1>0. /\ contract \in Contracts /\ ends \in Nat
        /\ NoDunning \in [attempts : Attempts, due : BOOLEAN]
    BY DEF MemberTypes, NoDunning
  <1>1. ASSUME Resign \/ Undo \/ CancelNow \/ SwitchRenewalOff \/ SwitchRenewalOn
        PROVE  Types'
    <2>1. contract' \in Contracts /\ ends' \in Nat
          /\ dunning' \in [attempts : Attempts, due : BOOLEAN]
      <3>1. CASE Resign
        BY <1>0, <3>1 DEF Resign, Contracts
      <3>2. CASE Undo
        BY <1>0, <3>2 DEF Undo, Contracts, MemberTypes
      <3>3. CASE CancelNow
        BY <1>0, <3>3 DEF CancelNow, Contracts
      <3>4. CASE SwitchRenewalOff
        BY <1>0, <3>4 DEF SwitchRenewalOff, Contracts, MemberTypes
      <3>5. CASE SwitchRenewalOn
        BY <1>0, <3>5 DEF SwitchRenewalOn, Contracts, MemberTypes
      <3> QED BY <1>1, <3>1, <3>2, <3>3, <3>4, <3>5
    <2>2. UNCHANGED <<today, recorded, biller, listed, toldNone, failing, wallet, past>>
      BY <1>1 DEF Resign, Undo, CancelNow, SwitchRenewalOff, SwitchRenewalOn
    <2>3. ending' \in {"no", "now", "queued"} /\ agreed' \in BOOLEAN
      BY <1>1 DEF Resign, Undo, CancelNow, SwitchRenewalOff, SwitchRenewalOn, OtherTypes
    <2>4. MemberTypes'
      BY <2>1, <2>2 DEF MemberTypes, Publishing, KeyOf
    <2>5. WalletTypes' /\ OtherTypes'
      BY <2>2, <2>3 DEF wallet, books, past, WalletTypes, OtherTypes
    <2> QED BY <2>4, <2>5
  <1>2. CASE RevokeAgreement
    <2>1. order' \in [Keys -> {"none", "REQUESTED", "SUCCEEDED", "FAILED", "DELETED"}]
          /\ bank' \in [Keys -> {"none", "asked", "twice", "taken", "refused", "deleted"}]
      BY <1>2 DEF RevokeAgreement, EndMandate, WalletTypes
    <2>2. MemberTypes'
      BY <1>2 DEF RevokeAgreement, membership, MemberTypes, Publishing, KeyOf
    <2>3. WalletTypes'
      BY <1>2, <2>1 DEF RevokeAgreement, WalletTypes
    <2>4. OtherTypes'
      BY <1>2 DEF RevokeAgreement, EndMandate, membership, past, OtherTypes
    <2> QED BY <2>2, <2>3, <2>4
  <1>3. CASE ListExpired
    <2>1. MemberTypes'
      BY <1>3 DEF ListExpired, MemberTypes, Publishing, KeyOf
    <2>2. WalletTypes' /\ OtherTypes'
      BY <1>0, <1>3 DEF ListExpired, wallet, books, past, WalletTypes, OtherTypes
    <2> QED BY <2>1, <2>2
  <1>4. CASE HandleExpiration
    <2>1. contract' \in Contracts /\ ends' \in Nat
      BY <1>0, <1>4 DEF HandleExpiration, Contracts
    <2>2. MemberTypes'
      BY <1>4, <2>1 DEF HandleExpiration, MemberTypes, Publishing, KeyOf
    <2>3. WalletTypes' /\ OtherTypes'
      BY <1>4 DEF HandleExpiration, wallet, books, past, WalletTypes, OtherTypes
    <2> QED BY <2>2, <2>3
  <1> QED BY <1>1, <1>2, <1>3, <1>4 DEF People

LEMMA TimeTypes ==
  ASSUME Types, Time PROVE Types'
  <1> USE DataTypes DEF Types
  <1>1. CASE NextDay
    <2>1. today' \in 1 .. MaxDay
      BY <1>1, BillingAssumption DEF NextDay, MemberTypes
    <2>2. MemberTypes'
      BY <1>1, <2>1 DEF NextDay, membership, MemberTypes, Publishing, KeyOf
    <2>3. WalletTypes' /\ OtherTypes'
      BY <1>1 DEF NextDay, membership, wallet, books, past, WalletTypes, OtherTypes
    <2> QED BY <2>2, <2>3
  <1>2. CASE RetryComesDue
    <2>1. MemberTypes'
      BY <1>2 DEF RetryComesDue, MemberTypes, Publishing, KeyOf
    <2>2. WalletTypes' /\ OtherTypes'
      BY <1>2 DEF RetryComesDue, wallet, books, past, WalletTypes, OtherTypes
    <2> QED BY <2>1, <2>2
  <1>3. CASE ClaimGoesOverdue
    <2>1. contract' \in Contracts
      BY <1>3 DEF ClaimGoesOverdue, MemberTypes, Contracts
    <2>2. MemberTypes'
      BY <1>3, <2>1 DEF ClaimGoesOverdue, MemberTypes, Publishing, KeyOf
    <2>3. WalletTypes' /\ OtherTypes'
      BY <1>3 DEF ClaimGoesOverdue, wallet, books, past, WalletTypes, OtherTypes
    <2> QED BY <2>2, <2>3
  <1> QED BY <1>1, <1>2, <1>3 DEF Time

LEMMA StayTypes ==
  ASSUME Types, Stay PROVE MemberTypes' /\ OtherTypes'
  BY DEF Types, Stay, membership, past, MemberTypes, OtherTypes, Publishing, KeyOf

\* The command that is served, and what is announced.
LEMMA ServedTypes ==
  ASSUME commands \in Seq(Keys), NEW k \in Served
  PROVE  /\ k \in Keys /\ commands # <<>> /\ k = Head(commands)
         /\ Tail(commands) \in Seq(Keys)
  <1>1. commands # <<>> /\ k = Head(commands)
    BY DEF Served
  <1> QED BY <1>1

LEMMA AnnounceTypes ==
  ASSUME events \subseteq [type : EventTypes, key : Keys], NEW k \in Keys,
         NEW type \in EventTypes, Announce(type, k)
  PROVE  events' \subseteq [type : EventTypes, key : Keys]
  BY DEF Announce

LEMMA UpdateTypes ==
  ASSUME WalletTypes, NEW k \in Keys,
         NEW status \in Open \cup {"none", "AUTHORIZED", "FAILED", "CANCELED"}, Update(k, status)
  PROVE  /\ intent' \in [Keys -> Open \cup {"none", "AUTHORIZED", "FAILED", "CANCELED"}]
         /\ stale' \subseteq Keys
  BY DEF WalletTypes, Update

LEMMA ChargeTypes ==
  ASSUME WalletTypes, NEW k \in Served, Charge(k) \/ ProviderThrows(k) \/ WorkerDies(k)
  PROVE  WalletTypes'
  <1>0. /\ commands \in Seq(Keys) /\ events \subseteq [type : EventTypes, key : Keys]
        /\ {"FAILED", "NO_METHOD"} \subseteq EventTypes
        /\ {"CREATED", "PROCESSING", "PENDING_SETTLEMENT"} \subseteq Open
    BY DEF WalletTypes, EventTypes, Open
  <1>a. k \in Keys /\ Tail(commands) \in Seq(Keys)
    BY <1>0, ServedTypes
  <1> USE <1>0, <1>a
  <1>1. CASE Reject(k)
    BY <1>1, AnnounceTypes DEF Reject, Acknowledge, WalletTypes
  <1>2. CASE CreateIntent(k)
    BY <1>2 DEF CreateIntent, WalletTypes
  <1>3. CASE Repeat(k)
    <2>1. CASE intent[k] \in {"CREATED", "PROCESSING"} /\ k \in stale
      BY <1>3, <2>1, AnnounceTypes, UpdateTypes DEF Repeat, Acknowledge, WalletTypes
    <2>2. CASE ~(intent[k] \in {"CREATED", "PROCESSING"} /\ k \in stale)
      BY <1>3, <2>2, AnnounceTypes DEF Repeat, Acknowledge, WalletTypes
    <2> QED BY <2>1, <2>2
  <1>4. CASE CreateCharge(k)
    BY <1>4 DEF CreateCharge, WalletTypes
  <1>5. CASE WriteAhead(k)
    BY <1>5 DEF WriteAhead, WalletTypes
  <1>6. CASE AskBank(k)
    BY <1>6 DEF AskBank, WalletTypes
  <1>7. CASE StoreResult(k)
    <2>1. CASE intent[k] # "PROCESSING"
      BY <1>7, <2>1 DEF StoreResult, WalletTypes
    <2>2. CASE intent[k] = "PROCESSING" /\ worker = "ordered"
      BY <1>7, <2>2, UpdateTypes DEF StoreResult, Acknowledge, WalletTypes
    <2>3. CASE intent[k] = "PROCESSING" /\ worker # "ordered"
      BY <1>7, <2>3, AnnounceTypes, UpdateTypes DEF StoreResult, Acknowledge, WalletTypes
    <2> QED BY <2>1, <2>2, <2>3
  <1>8. CASE ProviderThrows(k)
    BY <1>8, UpdateTypes DEF ProviderThrows, WalletTypes
  <1>9. CASE WorkerDies(k)
    BY <1>9 DEF WorkerDies, WalletTypes
  <1> QED BY <1>1, <1>2, <1>3, <1>4, <1>5, <1>6, <1>7, <1>8, <1>9 DEF Charge

LEMMA SettleTypes ==
  ASSUME WalletTypes, NEW k \in Made, Settle(k) \/ CancelIntent(k)
  PROVE  WalletTypes'
  <1>0. /\ commands \in Seq(Keys) /\ events \subseteq [type : EventTypes, key : Keys]
        /\ {"AUTHORIZED", "FAILED", "CANCELED"} \subseteq EventTypes /\ k \in Keys
    BY DEF WalletTypes, EventTypes, Made
  <1> USE <1>0
  <1>1. CASE GoStale(k)
    BY <1>1 DEF GoStale, WalletTypes
  <1>2. CASE BankSettles(k)
    BY <1>2 DEF BankSettles, WalletTypes
  <1>3. CASE Poll(k)
    <2>1. order' \in [Keys -> {"none", "REQUESTED", "SUCCEEDED", "FAILED", "DELETED"}]
      BY <1>3 DEF Poll, Answer, WalletTypes
    <2>2. /\ intent' \in [Keys -> Open \cup {"none", "AUTHORIZED", "FAILED", "CANCELED"}]
          /\ events' \subseteq [type : EventTypes, key : Keys]
      BY <1>3 DEF Poll, Answer, WalletTypes, Announce
    <2> QED BY <1>3, <2>1, <2>2 DEF Poll, WalletTypes
  <1>4. ASSUME Cancel(k) PROVE WalletTypes'
    <2>1. order' \in [Keys -> {"none", "REQUESTED", "SUCCEEDED", "FAILED", "DELETED"}]
          /\ bank' \in [Keys -> {"none", "asked", "twice", "taken", "refused", "deleted"}]
      BY <1>4 DEF Cancel, WalletTypes
    <2>2. Update(k, "CANCELED") /\ Announce("CANCELED", k)
      BY <1>4 DEF Cancel
    <2>3. /\ intent' \in [Keys -> Open \cup {"none", "AUTHORIZED", "FAILED", "CANCELED"}]
          /\ stale' \subseteq Keys /\ events' \subseteq [type : EventTypes, key : Keys]
      BY <2>2, AnnounceTypes, UpdateTypes
    <2> QED BY <1>4, <2>1, <2>3 DEF Cancel, WalletTypes
  <1> QED BY <1>1, <1>2, <1>3, <1>4 DEF Settle, Expire, CancelIntent

LEMMA LoseTypes ==
  ASSUME WalletTypes, LoseMessage PROVE WalletTypes'
  <1>1. CASE commands # <<>> /\ Acknowledge /\ UNCHANGED events
    <2>1. Tail(commands) \in Seq(Keys)
      BY <1>1 DEF WalletTypes
    <2> QED BY <1>1, <2>1 DEF LoseMessage, Acknowledge, WalletTypes
  <1>2. CASE \E e \in events : events' = events \ {e} /\ UNCHANGED <<commands, worker>>
    BY <1>2 DEF LoseMessage, WalletTypes
  <1> QED BY <1>1, <1>2 DEF LoseMessage

LEMMA NextTypes ==
  ASSUME Types, [Next]_vars PROVE Types'
  <1>1. CASE Membership
    <2>1. ASSUME NEW b \in {"cron", "admin"},
                 Claim(b) \/ Publish(b) \/ PublishFails(b) \/ BillerDies(b)
          PROVE  Types'
      BY <2>1, BillerTypes DEF Billers
    <2> QED BY <1>1, <2>1, LookTypes, HandlerTypes DEF Membership
  <1>2. CASE People
    BY <1>2, PeopleTypes
  <1>3. CASE Time
    BY <1>3, TimeTypes
  <1>4. CASE Wallet
    <2>1. WalletTypes'
      BY <1>4, ChargeTypes, SettleTypes, LoseTypes DEF Wallet, Types
    <2> QED BY <1>4, <2>1, StayTypes DEF Wallet, Types
  <1>5. CASE UNCHANGED vars
    BY <1>5 DEF vars, membership, wallet, books, past, Types, MemberTypes, WalletTypes,
         OtherTypes, Publishing, KeyOf
  <1> QED BY <1>1, <1>2, <1>3, <1>4, <1>5 DEF Next

\* The types of all variables hold: no attempt is made beyond DUNNING_MAX_ATTEMPTS,
\* and every message and every row is of a key that was claimed.
THEOREM TypeCorrect == Spec => []TypeOK
  <1>1. Spec => []Types
    BY InitTypes, NextTypes, PTL DEF Spec
  <1> QED BY <1>1, TypesOK, PTL

-----------------------------------------------------------------------------
(* Dunning ends with the contract *)

LEMMA Ended ==
  ASSUME Types, NoDunningOnceEnded, [Next]_vars PROVE NoDunningOnceEnded'
  <1> USE DEF NoDunningOnceEnded
  <1>0. contract \in Contracts
    BY DEF Types, MemberTypes
  <1>1. ASSUME UNCHANGED <<contract, dunning, raced>> PROVE NoDunningOnceEnded'
    BY <1>1
  <1>2. ASSUME contract'.status = contract.status, contract'.resigned = contract.resigned,
               UNCHANGED <<dunning, raced>>
        PROVE  NoDunningOnceEnded'
    BY <1>2
  <1>3. ASSUME dunning' = NoDunning PROVE NoDunningOnceEnded'
    BY <1>3 DEF NoDunning
  <1>4. Release => contract'.status = contract.status /\ contract'.resigned = contract.resigned
    BY <1>0 DEF Release, Contracts
  <1>5. ASSUME NEW due, Dun(due), Renewing PROVE NoDunningOnceEnded'
    <2>1. CASE Terminate
      BY <1>3, <2>1 DEF Terminate
    <2>2. CASE Release
      BY <1>4, <1>5, <2>2 DEF Renewing, Active
    <2> QED BY <1>5, <2>1, <2>2 DEF Dun
  <1>6. ASSUME NEW k, HandleSuccess(k), UNCHANGED raced PROVE NoDunningOnceEnded'
    <2>1. CASE UNCHANGED <<contract, dunning>>
      BY <1>1, <1>6, <2>1
    <2>2. CASE Release /\ UNCHANGED dunning
      BY <1>2, <1>4, <1>6, <2>2
    <2>3. CASE dunning' = NoDunning
      BY <1>3, <2>3
    <2> QED BY <1>6, <2>1, <2>2, <2>3 DEF HandleSuccess
  <1>7. ASSUME NEW k, HandleCanceled(k), UNCHANGED raced PROVE NoDunningOnceEnded'
    <2>1. CASE UNCHANGED <<contract, dunning>>
      BY <1>1, <1>7, <2>1
    <2>2. CASE dunning' = NoDunning
      BY <1>3, <2>2
    <2>3. CASE Renewing /\ Dun(TRUE)
      BY <1>5, <2>3
    <2> QED BY <1>7, <2>1, <2>2, <2>3 DEF HandleCanceled
  <1>8. ASSUME NEW k, NEW type, Outcome(type, k), UNCHANGED raced PROVE NoDunningOnceEnded'
    BY <1>1, <1>6, <1>7, <1>8 DEF Outcome, ReadForFailure
  <1>9. CASE WriteFailure
    <2>1. CASE UNCHANGED <<contract, dunning>>
      <3>1. raced => raced'
        BY <1>9 DEF WriteFailure
      <3> QED BY <2>1, <3>1
    <2>2. CASE dunning' = NoDunning
      BY <1>3, <2>2
    <2>3. CASE Terminate
      BY <1>3, <2>3 DEF Terminate
    <2>4. CASE failing.renews /\ Dun(FALSE)
      <3>1. CASE Renewing
        BY <1>5, <2>4, <3>1
      <3>2. CASE ~Renewing
        BY <1>9, <2>4, <3>2 DEF WriteFailure
      <3> QED BY <3>1, <3>2
    <2> QED BY <1>9, <2>1, <2>2, <2>3, <2>4 DEF WriteFailure, HandleFailure
  <1>10. CASE \E e \in events : HandleEvent(e)
    BY <1>8, <1>10 DEF HandleEvent
  <1>11. CASE Reconcile
    BY <1>8, <1>11 DEF Reconcile, past
  <1>12. CASE \/ Look \/ ReconcileFindsNone \/ RevokeAgreement \/ ListExpired \/ NextDay
              \/ \E b \in Billers : Publish(b) \/ BillerDies(b)
    BY <1>1, <1>12 DEF Look, ReconcileFindsNone, RevokeAgreement, membership, ListExpired,
         NextDay, Publish, BillerDies, past
  <1>13. CASE ReleaseLost \/ \E b \in Billers : PublishFails(b)
    <2>1. UNCHANGED <<dunning, raced>> /\ Unclaim
      BY <1>13 DEF ReleaseLost, PublishFails, past
    <2> QED BY <1>0, <1>2, <2>1 DEF Unclaim, Contracts
  <1>14. ASSUME NEW b \in Billers, Claim(b) PROVE NoDunningOnceEnded'
    <2>1. CASE UNCHANGED contract
      BY <1>1, <1>14, <2>1 DEF Claim, past
    <2>2. CASE contract' = [contract EXCEPT !.busy = TRUE, !.overdue = FALSE, !.key = KeyOf(b)]
      BY <1>0, <1>2, <1>14, <2>2 DEF Claim, past, Contracts
    <2> QED BY <1>14, <2>1, <2>2 DEF Claim
  <1>15. CASE SwitchRenewalOff \/ ClaimGoesOverdue
    BY <1>0, <1>2, <1>15 DEF SwitchRenewalOff, ClaimGoesOverdue, past, Contracts
  <1>16. CASE Resign \/ CancelNow
    BY <1>3, <1>16 DEF Resign, CancelNow
  <1>17. CASE Undo \/ SwitchRenewalOn
    BY <1>0, <1>17 DEF Undo, SwitchRenewalOn, past, Active, Contracts
  <1>18. CASE HandleExpiration
    BY <1>0, <1>18 DEF HandleExpiration, past, Contracts
  <1>19. CASE RetryComesDue
    <2>1. dunning'.attempts = dunning.attempts
      BY <1>19 DEF RetryComesDue, Types, MemberTypes
    <2> QED BY <1>19, <2>1 DEF RetryComesDue, past
  <1>20. CASE Wallet \/ UNCHANGED vars
    BY <1>1, <1>20 DEF Wallet, Stay, vars, membership, past
  <1> QED BY <1>9, <1>10, <1>11, <1>12, <1>13, <1>14, <1>15, <1>16, <1>17, <1>18, <1>19, <1>20
        DEF Next, Membership, People, Time, Billers

\* A contract that is cancelled or resigned has no dunning row, unless a failure was
\* written that had read the contract before it was resigned.
THEOREM EndedNotDunned == Spec => []NoDunningOnceEnded
  <1>1. Init => Types /\ NoDunningOnceEnded
    BY InitTypes DEF Init, NoDunning, NoDunningOnceEnded
  <1> QED BY <1>1, NextTypes, Ended, PTL DEF Spec

-----------------------------------------------------------------------------
(* Intents, withdrawals and the bank *)

Final == {"AUTHORIZED", "FAILED", "CANCELED"}

LEMMA OneServed ==
  ASSUME NEW k \in Served, NEW j, Working(j) PROVE j = k
  BY DEF Served, Working

\* An intent that has ended stays as it is.
FinalKept == \A j \in Keys : intent[j] \in Final => intent'[j] = intent[j]
\* An event that is new tells the end of an intent or that none was made.
NewsTrue == \A e \in events' : \/ e \in events
                               \/ e.type = "NO_METHOD"
                               \/ e.key \in Keys /\ intent'[e.key] = e.type
Same(j) == intent'[j] = intent[j] /\ order'[j] = order[j] /\ bank'[j] = bank[j]

LEMMA ToldKept ==
  ASSUME Types, Told, FinalKept, NewsTrue, UNCHANGED <<failing, recorded>> PROVE Told'
  <1>1. ASSUME NEW e \in events', e.type # "NO_METHOD" PROVE intent'[e.key] = e.type
    <2>1. CASE e \in events
      <3>1. e.key \in Keys /\ e.type \in Final
        BY <1>1, <2>1 DEF Types, WalletTypes, EventTypes, Final
      <3> QED BY <1>1, <2>1, <3>1 DEF Told, FinalKept
    <2> QED BY <1>1, <2>1 DEF NewsTrue
  <1>2. failing.on /\ ~failing.noMethod => intent'[failing.key] = "FAILED"
    BY DEF Told, FinalKept, Final, Types, MemberTypes
  <1>3. \A k \in Keys : Succeeded(k) => intent'[k] = "AUTHORIZED"
    BY DEF Told, FinalKept, Final
  <1> QED BY <1>1, <1>2, <1>3 DEF Told, Succeeded

LEMMA AnnounceTrue ==
  ASSUME NEW k \in Keys, NEW type, Announce(type, k), type = "NO_METHOD" \/ intent'[k] = type
  PROVE  NewsTrue
  BY DEF Announce, NewsTrue

LEMMA UpdateKeeps ==
  ASSUME WalletTypes, NEW k \in Keys, NEW status, Update(k, status), intent[k] \notin Final
  PROVE  FinalKept /\ intent'[k] = status /\ \A j \in Keys \ {k} : intent'[j] = intent[j]
  BY DEF Update, FinalKept, WalletTypes

LEMMA ChargeNews ==
  ASSUME WalletTypes, Asking, NEW k \in Served, Charge(k) \/ ProviderThrows(k) \/ WorkerDies(k)
  PROVE  FinalKept /\ NewsTrue
  <1>0. k \in Keys
    BY ServedTypes DEF WalletTypes
  <1> USE <1>0
  <1>1. ASSUME UNCHANGED intent PROVE FinalKept
    BY <1>1 DEF FinalKept
  <1>2. ASSUME UNCHANGED events PROVE NewsTrue
    BY <1>2 DEF NewsTrue
  <1>3. CASE Reject(k)
    BY <1>1, <1>3, AnnounceTrue DEF Reject
  <1>4. CASE CreateIntent(k)
    BY <1>2, <1>4 DEF CreateIntent, FinalKept, Final, WalletTypes
  <1>5. CASE Repeat(k)
    <2>1. CASE intent[k] \in {"CREATED", "PROCESSING"} /\ k \in stale
      <3>1. Update(k, "FAILED") /\ Announce("FAILED", k) /\ intent[k] \notin Final
        BY <1>5, <2>1 DEF Repeat, Final
      <3>2. FinalKept /\ intent'[k] = "FAILED"
        BY <3>1, UpdateKeeps
      <3> QED BY <3>1, <3>2, AnnounceTrue
    <2>2. CASE ~(intent[k] \in {"CREATED", "PROCESSING"} /\ k \in stale)
      BY <1>1, <1>2, <1>5, <2>2, AnnounceTrue DEF Repeat
    <2> QED BY <2>1, <2>2
  <1>6. CASE CreateCharge(k)
    BY <1>2, <1>6 DEF CreateCharge, FinalKept, Final, WalletTypes
  <1>7. CASE WriteAhead(k) \/ AskBank(k) \/ WorkerDies(k)
    BY <1>1, <1>2, <1>7 DEF WriteAhead, AskBank, WorkerDies
  <1>8. CASE StoreResult(k)
    <2>1. CASE intent[k] # "PROCESSING"
      BY <1>1, <1>2, <1>8, <2>1 DEF StoreResult
    <2>2. CASE intent[k] = "PROCESSING" /\ worker = "ordered"
      BY <1>2, <1>8, <2>2, UpdateKeeps DEF StoreResult, Final
    <2>3. CASE intent[k] = "PROCESSING" /\ worker # "ordered"
      BY <1>8, <2>3, UpdateKeeps, AnnounceTrue DEF StoreResult, Final
    <2> QED BY <2>1, <2>2, <2>3
  <1>9. CASE ProviderThrows(k)
    BY <1>1, <1>2, <1>9, UpdateKeeps DEF ProviderThrows, Final
  <1> QED BY <1>3, <1>4, <1>5, <1>6, <1>7, <1>8, <1>9 DEF Charge

LEMMA SettleNews ==
  ASSUME WalletTypes, Drawing, NEW k \in Made, Settle(k) \/ CancelIntent(k)
  PROVE  FinalKept /\ NewsTrue
  <1>0. k \in Keys
    BY DEF Made
  <1> USE <1>0
  <1>1. CASE GoStale(k) \/ BankSettles(k)
    BY <1>1 DEF GoStale, BankSettles, FinalKept, NewsTrue
  <1>2. CASE Poll(k)
    <2>1. CASE UNCHANGED <<intent, events>>
      BY <2>1 DEF FinalKept, NewsTrue
    <2>2. CASE /\ intent[k] = "PENDING_SETTLEMENT"
               /\ LET end == IF Answer(k) = "SUCCEEDED" THEN "AUTHORIZED" ELSE "FAILED"
                  IN  intent' = [intent EXCEPT ![k] = end] /\ Announce(end, k)
      <3> DEFINE end == IF Answer(k) = "SUCCEEDED" THEN "AUTHORIZED" ELSE "FAILED"
      <3>1. FinalKept /\ intent'[k] = end
        BY <2>2 DEF FinalKept, Final, WalletTypes
      <3> QED BY <2>2, <3>1, AnnounceTrue
    <2> QED BY <1>2, <2>1, <2>2 DEF Poll
  <1>3. ASSUME Cancel(k) PROVE FinalKept /\ NewsTrue
    <2>1. intent[k] \notin Final /\ Update(k, "CANCELED") /\ Announce("CANCELED", k)
      BY <1>3 DEF Cancel, Final
    <2> QED BY <2>1, UpdateKeeps, AnnounceTrue
  <1> QED BY <1>1, <1>2, <1>3 DEF Settle, Expire, CancelIntent

LEMMA LoseNews ==
  ASSUME LoseMessage PROVE FinalKept /\ NewsTrue
  BY DEF LoseMessage, FinalKept, NewsTrue

\* Asking and Drawing through the steps of the consumer.
LEMMA ChargeDrawing ==
  ASSUME WalletTypes, Asking, Drawing, NEW k \in Served,
         Charge(k) \/ ProviderThrows(k) \/ WorkerDies(k)
  PROVE  Asking' /\ Drawing'
  <1>0. k \in Keys /\ DrawingOf(k) /\ (worker # "off" => AskingFor(k)) /\ commands # <<>>
    BY ServedTypes DEF WalletTypes, Drawing, Asking, Working
  <1> USE <1>0
  <1>1. ASSUME \A j \in Keys \ {k} : Same(j), DrawingOf(k)' PROVE Drawing'
    BY <1>1 DEF Drawing, DrawingOf, Same
  <1>2. ASSUME worker' = "off" PROVE Asking'
    BY <1>2 DEF Asking, Working
  <1>3. ASSUME UNCHANGED commands, AskingFor(k)' PROVE Asking'
    <2>1. \A j \in Keys : Working(j)' => j = k
      BY <1>3 DEF Working, Served
    <2> QED BY <1>3, <2>1 DEF Asking
  <1>4. ASSUME UNCHANGED <<intent, order, bank>> PROVE Drawing'
    BY <1>4 DEF Drawing, DrawingOf
  <1>5. CASE Reject(k)
    BY <1>2, <1>4, <1>5 DEF Reject, Acknowledge
  <1>6. CASE CreateIntent(k)
    <2>1. (\A j \in Keys \ {k} : Same(j)) /\ intent'[k] = "CREATED"
      BY <1>6 DEF CreateIntent, Same, WalletTypes
    <2>2. DrawingOf(k)' /\ AskingFor(k)'
      BY <1>6, <2>1 DEF CreateIntent, DrawingOf, AskingFor
    <2> QED BY <1>1, <1>3, <1>6, <2>1, <2>2 DEF CreateIntent
  <1>7. CASE Repeat(k)
    <2>1. CASE UNCHANGED intent
      BY <1>2, <1>4, <1>7, <2>1 DEF Repeat, Acknowledge
    <2>2. CASE Update(k, "FAILED") /\ intent[k] \notin Final
      <3>1. intent'[k] = "FAILED" /\ \A j \in Keys \ {k} : Same(j)
        BY <1>7, <2>2, UpdateKeeps DEF Repeat, Same
      <3>2. DrawingOf(k)'
        BY <1>7, <3>1 DEF Repeat, DrawingOf
      <3> QED BY <1>1, <1>2, <1>7, <3>1, <3>2 DEF Repeat, Acknowledge
    <2> QED BY <1>7, <2>1, <2>2 DEF Repeat, Final
  <1>8. CASE CreateCharge(k)
    <2>1. /\ \A j \in Keys \ {k} : Same(j)
          /\ intent'[k] = IF intent[k] = "CREATED" THEN "PROCESSING" ELSE intent[k]
          /\ worker = "created" /\ worker' = "charged" /\ UNCHANGED <<commands, order, bank, astray>>
      BY <1>8 DEF CreateCharge, Same, WalletTypes
    <2>2. DrawingOf(k)' /\ AskingFor(k)'
      BY <2>1 DEF DrawingOf, AskingFor
    <2> QED BY <1>1, <1>3, <2>1, <2>2
  <1>9. CASE WriteAhead(k)
    <2>1. /\ \A j \in Keys \ {k} : Same(j)
          /\ worker = "charged" /\ UNCHANGED <<commands, intent, bank, astray>>
          /\ \/ order'[k] = "REQUESTED" /\ worker' = "ordering"
             \/ order'[k] = order[k] /\ worker' = "refused"
      BY <1>9 DEF WriteAhead, Same, WalletTypes
    <2>2. DrawingOf(k)' /\ AskingFor(k)'
      BY <2>1 DEF DrawingOf, AskingFor
    <2> QED BY <1>1, <1>3, <2>1, <2>2
  <1>10. CASE AskBank(k)
    <2>1. /\ \A j \in Keys \ {k} : Same(j)
          /\ worker = "ordering" /\ UNCHANGED <<commands, intent, astray>>
          /\ \/ /\ bank'[k] = (IF bank[k] = "none" THEN "asked" ELSE "twice")
                /\ order'[k] = order[k] /\ worker' = "ordered"
             \/ bank'[k] = bank[k] /\ order'[k] = order[k] /\ worker' = "ordered"
             \/ bank'[k] = bank[k] /\ order'[k] = "DELETED" /\ worker' = "refused"
      BY <1>10 DEF AskBank, Same, WalletTypes
    <2>2. DrawingOf(k)' /\ AskingFor(k)'
      BY <2>1 DEF DrawingOf, AskingFor
    <2> QED BY <1>1, <1>3, <2>1, <2>2
  <1>11. CASE StoreResult(k)
    <2>1. CASE intent[k] # "PROCESSING"
      BY <1>2, <1>4, <1>11, <2>1 DEF StoreResult
    <2>2. CASE intent[k] = "PROCESSING"
      <3>1. PICK status \in {"PENDING_SETTLEMENT", "FAILED"} : Update(k, status)
        BY <1>11, <2>2 DEF StoreResult
      <3>2. intent'[k] = status /\ \A j \in Keys \ {k} : Same(j)
        BY <1>11, <2>2, <3>1, UpdateKeeps DEF StoreResult, Same, Final
      <3>3. DrawingOf(k)'
        BY <1>11, <3>2 DEF StoreResult, DrawingOf
      <3> QED BY <1>1, <1>2, <1>11, <2>2, <3>2, <3>3 DEF StoreResult, Acknowledge
    <2> QED BY <2>1, <2>2
  <1>12. CASE ProviderThrows(k)
    <2>1. CASE UNCHANGED intent
      BY <1>2, <1>4, <1>12, <2>1 DEF ProviderThrows
    <2>2. CASE Update(k, "FAILED") /\ intent[k] \notin Final
      <3>1. intent'[k] = "FAILED" /\ \A j \in Keys \ {k} : Same(j)
        BY <1>12, <2>2, UpdateKeeps DEF ProviderThrows, Same
      <3>2. DrawingOf(k)'
        BY <1>12, <3>1 DEF ProviderThrows, DrawingOf
      <3> QED BY <1>1, <1>2, <1>12, <3>1, <3>2 DEF ProviderThrows
    <2> QED BY <1>12, <2>1, <2>2 DEF ProviderThrows, Final
  <1>13. CASE WorkerDies(k)
    BY <1>2, <1>4, <1>13 DEF WorkerDies
  <1> QED BY <1>5, <1>6, <1>7, <1>8, <1>9, <1>10, <1>11, <1>12, <1>13 DEF Charge

\* ... of the poller, the bank and the cancellation.
LEMMA SettleDrawing ==
  ASSUME WalletTypes, Asking, Drawing, NEW k \in Made, Settle(k) \/ CancelIntent(k)
  PROVE  Asking' /\ Drawing'
  <1>0. k \in Keys /\ DrawingOf(k) /\ (Working(k) => AskingFor(k))
    BY DEF Drawing, Asking, Made
  <1> USE <1>0
  <1>1. ASSUME \A j \in Keys \ {k} : Same(j), DrawingOf(k)' PROVE Drawing'
    BY <1>1 DEF Drawing, DrawingOf, Same
  <1>2. ASSUME UNCHANGED <<commands, worker>>, \A j \in Keys \ {k} : Same(j),
               astray \subseteq astray', Working(k) => AskingFor(k)'
        PROVE  Asking'
    <2>1. \A j \in Keys : Working(j)' <=> Working(j)
      BY <1>2 DEF Working, Served
    <2>2. ASSUME NEW j \in Keys \ {k}, Working(j) PROVE AskingFor(j)'
      BY <1>2, <2>2 DEF Asking, AskingFor, Same
    <2> QED BY <1>2, <2>1, <2>2 DEF Asking
  <1>3. CASE GoStale(k)
    <2>1. UNCHANGED <<commands, intent, worker, order, bank, astray>>
      BY <1>3 DEF GoStale
    <2> QED BY <2>1 DEF Asking, AskingFor, Working, Served, Drawing, DrawingOf
  <1>4. CASE BankSettles(k)
    <2>1. /\ \A j \in Keys \ {k} : Same(j)
          /\ UNCHANGED <<commands, intent, worker, order, astray>>
          /\ bank[k] = "asked" /\ worker = "off" /\ bank'[k] \in {"taken", "refused"}
      BY <1>4 DEF BankSettles, Days, Quiet, Same, WalletTypes
    <2>2. DrawingOf(k)'
      BY <2>1 DEF DrawingOf
    <2>3. ~Working(k)
      BY <2>1 DEF Working
    <2> QED BY <1>1, <1>2, <2>1, <2>2, <2>3
  <1>5. CASE Poll(k)
    <2>1. /\ UNCHANGED <<commands, worker, bank, astray>> /\ order[k] = "REQUESTED"
          /\ order'[k] = Answer(k) /\ Answer(k) # "wait"
          /\ \A j \in Keys \ {k} : Same(j)
      BY <1>5 DEF Poll, Same, WalletTypes
    <2>2. \/ intent[k] \in {"FAILED", "CANCELED"} /\ intent'[k] = intent[k]
          \/ /\ intent[k] = "PENDING_SETTLEMENT"
             /\ intent'[k] = IF Answer(k) = "SUCCEEDED" THEN "AUTHORIZED" ELSE "FAILED"
      BY <1>5 DEF Poll, WalletTypes
    <2>3. DrawingOf(k)'
      BY <2>1, <2>2 DEF DrawingOf, Answer
    <2>4. ASSUME Working(k) PROVE AskingFor(k)'
      <3>1. AskingFor(k) /\ worker \notin {"created", "charged", "ordering"}
        BY <2>1, <2>4 DEF AskingFor, Answer
      <3>2. intent[k] # "PENDING_SETTLEMENT" \/ k \in astray
        BY <3>1 DEF AskingFor
      <3> QED BY <2>1, <2>2, <3>1, <3>2 DEF AskingFor
    <2> QED BY <1>1, <1>2, <2>1, <2>3, <2>4
  <1>6. ASSUME Cancel(k) PROVE Asking' /\ Drawing'
    <2>1. intent'[k] = "CANCELED" /\ \A j \in Keys \ {k} : intent'[j] = intent[j]
      BY <1>6, UpdateKeeps DEF Cancel, Final
    <2>2. /\ \A j \in Keys \ {k} : Same(j)
          /\ UNCHANGED <<commands, worker>> /\ astray \subseteq astray'
          /\ Working(k) => k \in astray'
      BY <1>6, <2>1 DEF Cancel, Same, WalletTypes
    <2>3. \/ intent[k] = "CREATED" /\ order'[k] = order[k] /\ bank'[k] = bank[k]
          \/ /\ order[k] = "DELETED" \/ (order[k] = "REQUESTED" /\ bank[k] = "asked")
             /\ order'[k] = "DELETED"
             /\ bank'[k] = IF bank[k] = "asked" THEN "deleted" ELSE bank[k]
      BY <1>6 DEF Cancel, WalletTypes
    <2>4. DrawingOf(k)'
      BY <2>1, <2>3 DEF DrawingOf
    <2>5. ASSUME Working(k) PROVE AskingFor(k)'
      BY <2>1, <2>2, <2>3, <2>5 DEF AskingFor
    <2> QED BY <1>1, <1>2, <2>2, <2>4, <2>5
  <1> QED BY <1>3, <1>4, <1>5, <1>6 DEF Settle, Expire, CancelIntent

LEMMA LoseDrawing ==
  ASSUME WalletTypes, Asking, Drawing, LoseMessage PROVE Asking' /\ Drawing'
  <1>1. Drawing'
    BY DEF LoseMessage, Drawing, DrawingOf
  <1>2. CASE worker' = "off"
    BY <1>1, <1>2 DEF Asking, Working
  <1>3. CASE UNCHANGED <<commands, worker>>
    BY <1>1, <1>3 DEF LoseMessage, Asking, AskingFor, Working, Served
  <1> QED BY <1>2, <1>3 DEF LoseMessage, Acknowledge

\* The end of a mandate deletes withdrawals that the bank has not made.
LEMMA RevokeDrawing ==
  ASSUME WalletTypes, Asking, Drawing, RevokeAgreement PROVE Asking' /\ Drawing'
  <1>1. UNCHANGED <<commands, intent, worker, astray>>
    BY DEF RevokeAgreement
  <1>2. ASSUME NEW j \in Keys
        PROVE  \/ Same(j)
               \/ /\ order[j] = "REQUESTED" /\ bank[j] = "asked"
                  /\ order'[j] = "DELETED" /\ bank'[j] = "deleted"
    BY <1>1 DEF RevokeAgreement, EndMandate, Same
  <1>3. Drawing'
    BY <1>1, <1>2 DEF Drawing, DrawingOf, Same
  <1>4. ASSUME NEW j \in Keys, Working(j)' PROVE AskingFor(j)'
    <2>1. AskingFor(j)
      BY <1>1, <1>4 DEF Asking, Working, Served
    <2> QED BY <1>1, <1>2, <2>1 DEF AskingFor, Same
  <1> QED BY <1>1, <1>3, <1>4 DEF Asking

\* What membership does touches neither the intents nor the bank.
MemberStep ==
  \/ Membership \/ Time
  \/ Resign \/ Undo \/ CancelNow \/ SwitchRenewalOff \/ SwitchRenewalOn
  \/ ListExpired \/ HandleExpiration

LEMMA MemberFrame ==
  ASSUME Types, MemberStep
  PROVE  /\ UNCHANGED <<intent, worker, stale, order, bank>>
         /\ astray \subseteq astray' /\ events' \subseteq events
         /\ UNCHANGED commands \/ \E b \in Billers : biller[b].at = "publish" /\ Send(KeyOf(b))
  <1>1. CASE Look \/ WriteFailure \/ Reconcile \/ ReconcileFindsNone \/ ReleaseLost
    BY <1>1 DEF Look, WriteFailure, Reconcile, ReconcileFindsNone, ReleaseLost, wallet, books
  <1>2. ASSUME NEW b \in Billers, Claim(b) \/ BillerDies(b) PROVE UNCHANGED wallet
    BY <1>2 DEF Claim, BillerDies
  <1>3. ASSUME NEW b \in Billers, Publish(b) \/ PublishFails(b)
        PROVE  /\ UNCHANGED books /\ astray \subseteq astray' /\ biller[b].at = "publish"
               /\ UNCHANGED commands \/ Send(KeyOf(b))
    BY <1>3 DEF Publish, PublishFails
  <1>4. ASSUME NEW e \in events, HandleEvent(e)
        PROVE  UNCHANGED <<commands, intent, worker, stale, order, bank, astray>>
               /\ events' \subseteq events
    BY <1>4 DEF HandleEvent
  <1>5. CASE Time
    BY <1>5 DEF Time, NextDay, RetryComesDue, ClaimGoesOverdue, wallet, books
  <1>6. CASE \/ Resign \/ Undo \/ CancelNow \/ SwitchRenewalOff \/ SwitchRenewalOn
             \/ ListExpired \/ HandleExpiration
    BY <1>6 DEF Resign, Undo, CancelNow, SwitchRenewalOff, SwitchRenewalOn, ListExpired,
         HandleExpiration, wallet, books
  <1> QED BY <1>1, <1>2, <1>3, <1>4, <1>5, <1>6
        DEF MemberStep, Membership, Billers, wallet, books

LEMMA SendServes ==
  ASSUME commands \in Seq(Keys), commands # <<>>, NEW k \in Keys, Send(k)
  PROVE  commands' # <<>> /\ Served' = Served
  <1>1. commands' = Append(commands, k) /\ commands' # <<>> /\ Head(commands') = Head(commands)
    BY DEF Send
  <1> QED BY <1>1 DEF Served

LEMMA MemberDrawing ==
  ASSUME Types, Asking, Drawing, MemberStep PROVE Asking' /\ Drawing'
  <1>1. /\ UNCHANGED <<intent, worker, order, bank>> /\ astray \subseteq astray'
    BY MemberFrame
  <1>2. Drawing'
    BY <1>1 DEF Drawing, DrawingOf
  <1>3. worker # "off" => commands' # <<>> /\ Served' = Served
    <2>1. CASE UNCHANGED commands
      BY <2>1 DEF Asking, Served
    <2>2. ASSUME NEW b \in Billers, biller[b].at = "publish", Send(KeyOf(b))
          PROVE  worker # "off" => commands' # <<>> /\ Served' = Served
      BY <2>2, SendServes DEF Asking, Types, MemberTypes, WalletTypes, Publishing
    <2> QED BY <2>1, <2>2, MemberFrame
  <1>4. ASSUME NEW j \in Keys, Working(j)' PROVE AskingFor(j)'
    <2>1. AskingFor(j)
      BY <1>1, <1>3, <1>4 DEF Asking, Working
    <2> QED BY <1>1, <2>1 DEF AskingFor
  <1> QED BY <1>1, <1>2, <1>3, <1>4 DEF Asking

\* What is recorded stays, and each handler records the outcome it is called for.
LEMMA Records ==
  ASSUME NEW k
  PROVE  /\ HandleSuccess(k) => recorded \subseteq recorded'
                /\ recorded' \subseteq recorded \cup {<<k, "CHARGE_SUCCESS">>}
         /\ HandleCanceled(k) => recorded \subseteq recorded'
                /\ recorded' \subseteq recorded \cup {<<k, "CHARGE_CANCELED">>}
         /\ \A m, r : HandleFailure(k, m, r) => recorded \subseteq recorded'
                /\ recorded' \subseteq recorded \cup {FailMark(k, m)}
  BY DEF HandleSuccess, HandleCanceled, HandleFailure

LEMMA OutcomeTold ==
  ASSUME Types, Told, NEW k \in Keys, NEW type \in EventTypes, Outcome(type, k),
         type # "NO_METHOD" => intent[k] = type, UNCHANGED intent
  PROVE  /\ failing'.on /\ ~failing'.noMethod => intent'[failing'.key] = "FAILED"
         /\ \A j \in Keys : Succeeded(j)' => intent'[j] = "AUTHORIZED"
  <1>1. CASE type = "AUTHORIZED" /\ HandleSuccess(k) /\ UNCHANGED failing
    <2>1. recorded' \subseteq recorded \cup {<<k, "CHARGE_SUCCESS">>}
      BY <1>1, Records
    <2>2. \A j \in Keys : Succeeded(j)' => Succeeded(j) \/ j = k
      BY <2>1 DEF Succeeded
    <2> QED BY <1>1, <2>2 DEF Told
  <1>2. CASE type = "CANCELED" /\ HandleCanceled(k) /\ UNCHANGED failing
    <2>1. recorded' \subseteq recorded \cup {<<k, "CHARGE_CANCELED">>}
      BY <1>2, Records
    <2>2. \A j \in Keys : Succeeded(j)' => Succeeded(j)
      BY <2>1 DEF Succeeded
    <2> QED BY <1>2, <2>2 DEF Told
  <1>3. CASE type \in {"FAILED", "NO_METHOD"} /\ ReadForFailure(k, type = "NO_METHOD")
    BY <1>3 DEF ReadForFailure, Told, Succeeded
  <1> QED BY <1>1, <1>2, <1>3 DEF Outcome

LEMMA MemberTold ==
  ASSUME Types, Told, MemberStep PROVE Told'
  <1>1. UNCHANGED intent /\ events' \subseteq events
    BY MemberFrame
  <1>2. \A e \in events' : e.type # "NO_METHOD" => intent'[e.key] = e.type
    BY <1>1 DEF Told
  <1>3. ASSUME UNCHANGED <<failing, recorded>> PROVE Told'
    BY <1>1, <1>2, <1>3 DEF Told, Succeeded
  <1>4. CASE WriteFailure
    <2>1. recorded' \subseteq recorded \cup {FailMark(failing.key, failing.noMethod)} /\ ~failing'.on
      BY <1>4, Records DEF WriteFailure, NoFailure
    <2>2. \A j \in Keys : Succeeded(j)' => Succeeded(j)
      BY <2>1 DEF Succeeded, FailMark
    <2> QED BY <1>1, <1>2, <2>1, <2>2 DEF Told
  <1>5. ASSUME NEW e \in events, HandleEvent(e) PROVE Told'
    <2>1. e.key \in Keys /\ e.type \in EventTypes /\ Outcome(e.type, e.key)
      BY <1>5 DEF HandleEvent, Types, WalletTypes
    <2>2. e.type # "NO_METHOD" => intent[e.key] = e.type
      BY DEF Told
    <2> QED BY <1>1, <1>2, <2>1, <2>2, OutcomeTold DEF Told
  <1>6. CASE Reconcile
    <2>1. contract.key \in Keys
      BY <1>6 DEF Reconcile, Overdue, Types, MemberTypes, Contracts
    <2>2. intent[contract.key] \in EventTypes /\ Outcome(intent[contract.key], contract.key)
      BY <1>6 DEF Reconcile, EventTypes
    <2> QED BY <1>1, <1>2, <2>1, <2>2, OutcomeTold DEF Told
  <1>7. CASE Look \/ ReconcileFindsNone \/ ReleaseLost
    BY <1>3, <1>7 DEF Look, ReconcileFindsNone, ReleaseLost
  <1>8. ASSUME NEW b \in Billers, Claim(b) \/ Publish(b) \/ PublishFails(b) \/ BillerDies(b)
        PROVE  Told'
    BY <1>3, <1>8 DEF Claim, Publish, PublishFails, BillerDies
  <1>9. CASE \/ Time \/ Resign \/ Undo \/ CancelNow \/ SwitchRenewalOff \/ SwitchRenewalOn
             \/ ListExpired \/ HandleExpiration
    BY <1>3, <1>9 DEF Time, NextDay, RetryComesDue, ClaimGoesOverdue, membership, Resign, Undo,
         CancelNow, SwitchRenewalOff, SwitchRenewalOn, ListExpired, HandleExpiration
  <1> QED BY <1>4, <1>5, <1>6, <1>7, <1>8, <1>9 DEF MemberStep, Membership, Billers

LEMMA InitBooks == Init => Books
  <1> SUFFICES ASSUME Init PROVE Books
    OBVIOUS
  <1>1. Types
    BY InitTypes
  <1>2. Asking /\ Drawing
    BY DEF Init, Asking, Working, Drawing, DrawingOf
  <1>3. Told
    BY DEF Init, NoFailure, Told, Succeeded
  <1> QED BY <1>1, <1>2, <1>3 DEF Books

LEMMA WalletTold ==
  ASSUME Books, Wallet PROVE Told'
  <1>1. UNCHANGED <<failing, recorded>>
    BY DEF Wallet, Stay, membership
  <1>2. FinalKept /\ NewsTrue
    BY ChargeNews, SettleNews, LoseNews DEF Wallet, Books, Types
  <1> QED BY <1>1, <1>2, ToldKept DEF Books

LEMMA NextBooks ==
  ASSUME Books, [Next]_vars PROVE Books'
  <1>1. Types'
    BY NextTypes DEF Books
  <1>2. CASE MemberStep
    BY <1>1, <1>2, MemberDrawing, MemberTold DEF Books
  <1>3. CASE Wallet
    BY <1>1, <1>3, WalletTold, ChargeDrawing, SettleDrawing, LoseDrawing
       DEF Books, Types, Wallet
  <1>4. CASE RevokeAgreement
    <2>1. FinalKept /\ NewsTrue /\ UNCHANGED <<failing, recorded>>
      BY <1>4 DEF RevokeAgreement, membership, FinalKept, NewsTrue
    <2> QED BY <1>1, <1>4, <2>1, ToldKept, RevokeDrawing DEF Books, Types
  <1>5. CASE UNCHANGED vars
    <2>1. UNCHANGED <<commands, events, intent, worker, order, bank, astray, failing, recorded>>
      BY <1>5 DEF vars, membership, wallet, books
    <2> QED BY <1>1, <2>1 DEF Books, Asking, AskingFor, Working, Served, Drawing, DrawingOf, Told,
              Succeeded
  <1> QED BY <1>2, <1>3, <1>4, <1>5 DEF Next, People, MemberStep

THEOREM BooksInvariant == Spec => []Books
  BY InitBooks, NextBooks, PTL DEF Spec

-----------------------------------------------------------------------------
(* Extensions *)

LEMMA Extends ==
  ASSUME Books, Next, ends' > ends
  PROVE  \E k \in Keys : /\ bank[k] = "taken"
                         /\ <<k, "CHARGE_SUCCESS">> \in recorded' \ recorded
  <1>0. ends \in Nat /\ ~(ends > ends) /\ ~(None > ends)
    BY DEF Books, Types, MemberTypes, None
  <1>1. ASSUME NEW k \in Keys, intent[k] = "AUTHORIZED", HandleSuccess(k)
        PROVE  bank[k] = "taken" /\ <<k, "CHARGE_SUCCESS">> \in recorded' \ recorded
    <2>1. bank[k] = "taken"
      BY <1>1 DEF Books, Drawing, DrawingOf
    <2> QED BY <1>0, <1>1, <2>1 DEF HandleSuccess
  <1>2. ASSUME NEW k, NEW type, Outcome(type, k)
        PROVE  type = "AUTHORIZED" /\ HandleSuccess(k)
    <2>1. Dun(TRUE) => ends' = ends \/ ends' = None
      BY DEF Dun, Terminate
    <2>2. HandleCanceled(k) => ends' = ends \/ ends' = None
      BY <2>1 DEF HandleCanceled
    <2> QED BY <1>0, <1>2, <2>2 DEF Outcome, ReadForFailure
  <1>3. CASE \E e \in events : HandleEvent(e)
    <2>1. PICK e \in events : HandleEvent(e)
      BY <1>3
    <2>2. e.key \in Keys /\ e.type = "AUTHORIZED" /\ HandleSuccess(e.key)
      BY <1>2, <2>1 DEF HandleEvent, Books, Types, WalletTypes
    <2>3. intent[e.key] = "AUTHORIZED"
      BY <2>2 DEF Books, Told
    <2> QED BY <1>1, <2>2, <2>3
  <1>4. CASE Reconcile
    <2>1. contract.key \in Keys
      BY <1>4 DEF Reconcile, Overdue, Books, Types, MemberTypes, Contracts
    <2>2. intent[contract.key] = "AUTHORIZED" /\ HandleSuccess(contract.key)
      BY <1>2, <1>4 DEF Reconcile
    <2> QED BY <1>1, <2>1, <2>2
  <1>5. ~WriteFailure
    <2>1. WriteFailure => ends' = ends \/ ends' = None
      BY DEF WriteFailure, HandleFailure, Dun, Terminate
    <2> QED BY <1>0, <2>1
  <1>6. ~(Look \/ ReconcileFindsNone \/ ReleaseLost \/ People \/ Time \/ Wallet)
    <2>1. Look \/ ReconcileFindsNone \/ ReleaseLost \/ Time \/ Wallet => ends' = ends
      BY DEF Look, ReconcileFindsNone, ReleaseLost, Time, NextDay, RetryComesDue,
             ClaimGoesOverdue, Wallet, Stay, membership
    <2>2. People => ends' = ends \/ ends' = None
      BY DEF People, Resign, Undo, CancelNow, SwitchRenewalOff, SwitchRenewalOn, RevokeAgreement,
             membership, ListExpired, HandleExpiration
    <2> QED BY <1>0, <2>1, <2>2
  <1>7. \A b \in Billers : ~(Claim(b) \/ Publish(b) \/ PublishFails(b) \/ BillerDies(b))
    <2>1. \A b \in Billers : Claim(b) \/ Publish(b) \/ PublishFails(b) \/ BillerDies(b) => ends' = ends
      BY DEF Claim, Publish, PublishFails, BillerDies
    <2> QED BY <1>0, <2>1
  <1> QED BY <1>3, <1>4, <1>5, <1>6, <1>7 DEF Next, Membership, Billers

\* The entitlement is extended only by an outcome that was not recorded before, of a
\* key for which the bank has made the payment.
THEOREM ExtensionsArePaid == Spec => ExtendedOnlyWhenPaid
  <1>1. Books /\ [Next]_vars
          => [ends' > ends => \E k \in Keys : /\ bank[k] = "taken"
                                              /\ <<k, "CHARGE_SUCCESS">> \in recorded' \ recorded]_vars
    BY Extends
  <1> QED BY <1>1, BooksInvariant, PTL DEF Spec, ExtendedOnlyWhenPaid

-----------------------------------------------------------------------------
(* Due dates and the end of the entitlement *)

LEMMA LaterIsLater ==
  ASSUME NEW date \in Nat, today \in Nat
  PROVE  Later(date) \in Nat /\ Later(date) > date /\ Later(date) # None
  BY DEF Later, None

LEMMA StandingKept ==
  ASSUME Types, Standing,
         contract'.status = contract.status, contract'.next \in {contract.next, None},
         \/ contract'.key \in {contract.key, NoKey}
         \/ \E b \in Billers : contract'.key[1] = biller[b].next,
         UNCHANGED ends,
         \A b \in Billers : biller'[b].next \in {biller[b].next, None, contract.next},
         failing'.on /\ failing'.renews => Active \/ (failing.on /\ failing.renews)
  PROVE  Standing'
  <1>1. /\ ends \in Nat /\ \A b \in Billers : biller[b].next \in Nat
        /\ None = 0
    BY DEF Types, MemberTypes, None
  <1>2. Active => /\ contract'.next \in {None, ends}
                  /\ \A b \in Billers : biller'[b].next <= ends
                  /\ contract'.key # NoKey => contract'.key[1] <= ends
    BY <1>1 DEF Standing
  <1>3. Active' <=> Active
    BY DEF Active
  <1> QED BY <1>2, <1>3 DEF Standing

LEMMA MovesKeep ==
  ASSUME Types, NEW b \in Billers, NEW at, NEW next, NEW attempt, Moves(b, at, next, attempt),
         next \in {biller[b].next, None, contract.next}
  PROVE  \A c \in Billers : biller'[c].next \in {biller[c].next, None, contract.next}
  BY DEF Moves, Types, MemberTypes

LEMMA LookStanding ==
  ASSUME Types, Standing, Look PROVE Standing'
  <1>1. UNCHANGED <<contract, ends, failing>>
    BY DEF Look
  <1>2. \A c \in Billers : biller'[c].next \in {biller[c].next, None, contract.next}
    BY MovesKeep DEF Look, FindDue, FindDunning, RereadContract, AskRetry, Billers
  <1> QED BY <1>1, <1>2, StandingKept

LEMMA BillerStanding ==
  ASSUME Types, Standing, NEW b \in Billers,
         Claim(b) \/ Publish(b) \/ PublishFails(b) \/ BillerDies(b)
  PROVE  Standing'
  <1>1. UNCHANGED <<ends, failing>>
    BY DEF Claim, Publish, PublishFails, BillerDies
  <1>2. \A c \in Billers : biller'[c].next \in {biller[c].next, None, contract.next}
    BY MovesKeep DEF Claim, Publish, PublishFails, BillerDies
  <1>3. /\ contract'.status = contract.status /\ contract'.next = contract.next
        /\ contract'.key \in {contract.key, NoKey, KeyOf(b)}
    BY DEF Claim, Publish, PublishFails, BillerDies, Unclaim, Types, MemberTypes, Contracts
  <1>4. KeyOf(b)[1] = biller[b].next
    BY DEF KeyOf
  <1> QED BY <1>1, <1>2, <1>3, <1>4, StandingKept

LEMMA TerminateStanding ==
  ASSUME Types, Standing, Terminate, ~failing'.on
  PROVE  Standing'
  BY DEF Terminate, Types, MemberTypes, Contracts, Standing, Active

LEMMA ReleaseStanding ==
  ASSUME Types, Standing, Release, UNCHANGED <<ends, biller>>,
         ~failing'.on \/ UNCHANGED failing
  PROVE  Standing'
  <1>1. /\ contract'.status = contract.status /\ contract'.next = contract.next
        /\ contract'.key = contract.key
    BY DEF Release, Types, MemberTypes, Contracts
  <1> QED BY <1>1, StandingKept

LEMMA DunStanding ==
  ASSUME Types, Standing, NEW due, Dun(due), UNCHANGED biller, ~failing'.on
  PROVE  Standing'
  <1>1. CASE Release /\ UNCHANGED ends
    BY <1>1, ReleaseStanding
  <1>2. CASE Terminate
    BY <1>2, TerminateStanding
  <1> QED BY <1>1, <1>2 DEF Dun

LEMMA SuccessStanding ==
  ASSUME Types, Standing, NEW k, HandleSuccess(k), Unlocked, UNCHANGED <<failing, biller>>
  PROVE  Standing'
  <1>1. CASE UNCHANGED <<contract, ends>>
    BY <1>1, StandingKept
  <1>2. CASE Release /\ UNCHANGED ends
    BY <1>2, ReleaseStanding
  <1>3. CASE /\ Active /\ ends' = Later(ends)
             /\ contract' = [contract EXCEPT !.next = Later(ends), !.busy = FALSE, !.overdue = FALSE]
    <2>1. /\ ends \in Nat /\ today \in Nat /\ \A b \in Billers : biller[b].next \in Nat
          /\ contract.key # NoKey => contract.key[1] \in Nat
      BY DataTypes DEF Types, MemberTypes, Contracts
    <2>2. ends' \in Nat /\ ends' > ends /\ ends' # None
      BY <1>3, <2>1, LaterIsLater
    <2>3. contract'.status = "ACTIVE" /\ contract'.next = ends' /\ contract'.key = contract.key
      BY <1>3 DEF Active, Types, MemberTypes, Contracts
    <2>4. \A b \in Billers : biller'[b].next <= ends'
      BY <1>3, <2>1, <2>2 DEF Standing
    <2>5. contract'.key # NoKey => contract'.key[1] <= ends'
      BY <1>3, <2>1, <2>2, <2>3 DEF Standing
    <2> QED BY <2>2, <2>3, <2>4, <2>5 DEF Standing, Active, Unlocked
  <1> QED BY <1>1, <1>2, <1>3 DEF HandleSuccess

LEMMA OutcomeStanding ==
  ASSUME Types, Standing, NEW k, NEW type, Outcome(type, k), UNCHANGED biller
  PROVE  Standing'
  <1>1. CASE HandleCanceled(k) /\ Unlocked /\ UNCHANGED failing
    <2>1. CASE UNCHANGED <<contract, ends>>
      BY <1>1, <2>1, StandingKept
    <2>2. CASE Release /\ UNCHANGED ends
      BY <1>1, <2>2, ReleaseStanding
    <2>3. CASE Dun(TRUE)
      BY <1>1, <2>3, DunStanding DEF Unlocked
    <2> QED BY <1>1, <2>1, <2>2, <2>3 DEF HandleCanceled
  <1>2. CASE \E m \in BOOLEAN : ReadForFailure(k, m)
    <2>1. UNCHANGED <<contract, ends>> /\ failing'.renews = Renewing
      BY <1>2 DEF ReadForFailure
    <2> QED BY <2>1, StandingKept DEF Renewing
  <1> QED BY <1>1, <1>2, SuccessStanding DEF Outcome

LEMMA HandlerStanding ==
  ASSUME Types, Standing,
         \/ WriteFailure \/ Reconcile \/ ReconcileFindsNone \/ ReleaseLost
         \/ \E e \in events : HandleEvent(e)
  PROVE  Standing'
  <1>1. CASE WriteFailure
    <2>1. ~failing'.on /\ UNCHANGED biller
      BY <1>1 DEF WriteFailure, NoFailure
    <2>2. CASE UNCHANGED <<contract, ends>>
      BY <2>1, <2>2, StandingKept
    <2>3. CASE Release /\ UNCHANGED ends
      BY <2>1, <2>3, ReleaseStanding
    <2>4. CASE Terminate \/ Dun(FALSE)
      BY <2>1, <2>4, TerminateStanding, DunStanding
    <2> QED BY <1>1, <2>2, <2>3, <2>4 DEF WriteFailure, HandleFailure
  <1>2. CASE Reconcile \/ \E e \in events : HandleEvent(e)
    BY <1>2, OutcomeStanding DEF Reconcile, HandleEvent
  <1>3. CASE ReconcileFindsNone
    BY <1>3, StandingKept DEF ReconcileFindsNone
  <1>4. CASE ReleaseLost
    <2>1. /\ contract'.status = contract.status /\ contract'.next = contract.next
          /\ contract'.key = NoKey
      BY <1>4 DEF ReleaseLost, Unclaim, Types, MemberTypes, Contracts
    <2> QED BY <1>4, <2>1, StandingKept DEF ReleaseLost
  <1> QED BY <1>1, <1>2, <1>3, <1>4

LEMMA PeopleStanding ==
  ASSUME Types, Standing, People PROVE Standing'
  <1>0. contract \in Contracts
    BY DEF Types, MemberTypes
  <1>1. CASE Resign
    <2>1. /\ contract'.status = contract.status /\ contract'.next = None
          /\ contract'.key = contract.key /\ UNCHANGED <<ends, biller, failing>>
      BY <1>0, <1>1 DEF Resign, Contracts
    <2> QED BY <2>1, StandingKept
  <1>2. CASE Undo
    <2>1. /\ Active /\ contract'.status = contract.status /\ contract'.next = ends
          /\ contract'.key = contract.key /\ UNCHANGED <<ends, biller, failing>>
      BY <1>0, <1>2 DEF Undo, Contracts
    <2> QED BY <2>1 DEF Standing, Active
  <1>3. CASE CancelNow
    <2>1. /\ contract'.status = "CANCELLED" /\ contract'.next = None /\ ends' = None
          /\ UNCHANGED failing /\ ~failing.on
      BY <1>0, <1>3 DEF CancelNow, Contracts, Unlocked
    <2> QED BY <2>1 DEF Standing, Active
  <1>4. CASE SwitchRenewalOff
    <2>1. /\ contract'.status = contract.status /\ contract'.next = contract.next
          /\ contract'.key = contract.key /\ UNCHANGED <<ends, biller, failing>>
      BY <1>0, <1>4 DEF SwitchRenewalOff, Contracts
    <2> QED BY <2>1, StandingKept
  <1>5. CASE SwitchRenewalOn
    <2>1. /\ contract'.status = contract.status
          /\ contract'.next = (IF contract.next = None THEN ends ELSE contract.next)
          /\ contract'.key = contract.key /\ UNCHANGED <<ends, biller, failing>>
      BY <1>0, <1>5 DEF SwitchRenewalOn, Contracts
    <2> QED BY <2>1 DEF Standing, Active
  <1>6. CASE RevokeAgreement \/ ListExpired
    BY <1>6, StandingKept DEF RevokeAgreement, membership, ListExpired
  <1>7. CASE HandleExpiration
    <2>1. CASE UNCHANGED <<contract, ends>>
      BY <1>7, <2>1, StandingKept DEF HandleExpiration
    <2>2. CASE contract' = [contract EXCEPT !.status = "EXPIRED"]
      <3>1. contract'.status = "EXPIRED" /\ ~failing'.on
        BY <1>0, <1>7, <2>2 DEF HandleExpiration, Contracts, Unlocked
      <3> QED BY <3>1 DEF Standing, Active
    <2> QED BY <1>7, <2>1, <2>2 DEF HandleExpiration
  <1> QED BY <1>1, <1>2, <1>3, <1>4, <1>5, <1>6, <1>7 DEF People

LEMMA NextStanding ==
  ASSUME Types, Standing, [Next]_vars PROVE Standing'
  <1>1. CASE NextDay \/ RetryComesDue \/ Wallet \/ UNCHANGED vars
    <2>1. UNCHANGED <<contract, ends, biller, failing>>
      BY <1>1 DEF NextDay, RetryComesDue, Wallet, Stay, vars, membership
    <2> QED BY <2>1, StandingKept
  <1>2. CASE ClaimGoesOverdue
    <2>1. /\ contract'.status = contract.status /\ contract'.next = contract.next
          /\ contract'.key = contract.key /\ UNCHANGED <<ends, biller, failing>>
      BY <1>2 DEF ClaimGoesOverdue, Types, MemberTypes, Contracts
    <2> QED BY <2>1, StandingKept
  <1> QED BY <1>1, <1>2, LookStanding, BillerStanding, HandlerStanding, PeopleStanding
          DEF Next, Membership, Time, Billers

-----------------------------------------------------------------------------
(* One claim at a time *)

LEMMA LiveBefore ==
  ASSUME NEW k \in Keys, FinalKept, intent[k] \in Open \cup Final \cup {"none"},
         astray \subseteq astray', recorded \subseteq recorded', Live(k)'
  PROVE  Live(k)
  BY DEF Live, FinalKept, Final, Succeeded, Open

\* A key to which nothing is added stays in order.
LEMMA OrderlyKept ==
  ASSUME NEW k \in Keys, Orderly(k), DrawingOf(k),
         intent'[k] = intent[k], bank'[k] = bank[k],
         Unmet(k)' => Unmet(k), \A b \in Billers : Sends(b, k)' => Sends(b, k),
         Sent(k)' => Sent(k), Once(k) => Once(k)', Working(k) => Working(k)',
         InPlay(k)' => contract'.busy /\ contract'.key = k,
         contract.busy /\ Resting => Resting'
  PROVE  Orderly(k)'
  <1>1. InOnePlace(k)'
    BY DEF Orderly, InOnePlace
  <1>2. bank'[k] = "taken" => Resting'
    BY DEF Orderly, DrawingOf, InPlay
  <1> QED BY <1>1, <1>2 DEF Orderly

LEMMA Queued ==
  ASSUME UNCHANGED commands
  PROVE  \A k : (Sent(k)' <=> Sent(k)) /\ (Once(k)' <=> Once(k))
  BY DEF Sent, Once

LEMMA Appended ==
  ASSUME commands \in Seq(Keys), NEW k \in Keys, Send(k)
  PROVE  /\ \A j : Sent(j)' => Sent(j) \/ j = k
         /\ \A j : j # k /\ Once(j) => Once(j)'
         /\ ~Sent(k) => Once(k)'
         /\ commands # <<>> => Served' = Served
  <1>1. /\ Len(commands) \in Nat /\ DOMAIN commands = 1 .. Len(commands)
        /\ DOMAIN commands' = 1 .. Len(commands) + 1
        /\ \A i \in 1 .. Len(commands) : commands'[i] = commands[i]
        /\ commands'[Len(commands) + 1] = k
    BY DEF Send
  <1>2. \A j : Sent(j)' => Sent(j) \/ j = k
    BY <1>1 DEF Sent
  <1>3. \A j : j # k /\ Once(j) => Once(j)'
    BY <1>1 DEF Once
  <1>4. ~Sent(k) => Once(k)'
    BY <1>1 DEF Sent, Once
  <1> QED BY <1>2, <1>3, <1>4, SendServes

LEMMA Dequeued ==
  ASSUME commands \in Seq(Keys), commands # <<>>, Acknowledge
  PROVE  /\ \A j : Sent(j)' => Sent(j)
         /\ \A j : Once(j) => Once(j)'
         /\ \A k \in Served : Once(k) => ~Sent(k)'
  <1>1. /\ Len(commands) \in Nat \ {0} /\ DOMAIN commands = 1 .. Len(commands)
        /\ DOMAIN commands' = 1 .. Len(commands) - 1
        /\ \A i \in 1 .. Len(commands) - 1 : commands'[i] = commands[i + 1]
        /\ Head(commands) = commands[1]
    BY DEF Acknowledge
  <1>2. \A i \in DOMAIN commands' : i + 1 \in DOMAIN commands /\ i + 1 # 1
    BY <1>1
  <1>3. \A j : Sent(j)' => Sent(j)
    BY <1>1, <1>2 DEF Sent
  <1>4. ASSUME NEW j, Once(j), NEW i \in DOMAIN commands', NEW m \in DOMAIN commands',
               commands'[i] = j, commands'[m] = j
        PROVE  i = m
    <2>1. i + 1 = m + 1
      BY <1>1, <1>2, <1>4 DEF Once
    <2> QED BY <1>1, <2>1
  <1>5. ASSUME NEW k \in Served, Once(k), NEW i \in DOMAIN commands', commands'[i] = k
        PROVE  FALSE
    <2>1. commands[1] = k /\ commands[i + 1] = k /\ 1 \in DOMAIN commands
      BY <1>1, <1>5 DEF Served
    <2> QED BY <1>2, <1>5, <2>1 DEF Once
  <1> QED BY <1>3, <1>4, <1>5 DEF Once, Sent

\* A step of wallet at k leaves the other keys in order.
LEMMA OthersOrderly ==
  ASSUME Books, Stay, NEW k \in Keys, NEW j \in Keys \ {k}, Orderly(j),
         intent'[j] = intent[j], bank'[j] = bank[j],
         \A e \in events' : e \in events \/ e.key = k,
         Sent(j)' => Sent(j), Once(j) => Once(j)', Working(j) => Working(j)'
  PROVE  Orderly(j)'
  <1>1. UNCHANGED <<contract, biller, failing, recorded>>
    BY DEF Stay, membership
  <1>2. Unmet(j)' => Unmet(j)
    BY <1>1 DEF Unmet, FailMark
  <1>3. \A b \in Billers : Sends(b, j)' => Sends(b, j)
    BY <1>1 DEF Sends, KeyOf
  <1>4. InPlay(j)' => contract'.busy /\ contract'.key = j
    BY <1>1, <1>2, <1>3 DEF InPlay, Orderly
  <1>5. Resting => Resting'
    BY <1>1 DEF Resting
  <1> QED BY <1>2, <1>3, <1>4, <1>5, OrderlyKept DEF Books, Drawing

\* The steps of the consumer.
LEMMA ChargeOrderly ==
  ASSUME Books, Stay, NEW k \in Served, Charge(k) \/ ProviderThrows(k) \/ WorkerDies(k),
         \A j \in Keys : Live(j) => Orderly(j)
  PROVE  \A j \in Keys : Live(j)' => Orderly(j)'
  <1>0. k \in Keys /\ commands # <<>> /\ commands \in Seq(Keys) /\ Sent(k)
    <2>1. k \in Keys /\ commands # <<>> /\ k = Head(commands) /\ commands \in Seq(Keys)
      BY ServedTypes DEF Books, Types, WalletTypes
    <2>2. 1 \in DOMAIN commands /\ commands[1] = k
      BY <2>1
    <2> QED BY <2>1, <2>2 DEF Sent
  <1>1. UNCHANGED <<contract, biller, failing, recorded>>
    BY DEF Stay, membership
  <1>2. FinalKept /\ NewsTrue /\ astray \subseteq astray'
    <2>1. astray \subseteq astray'
      BY DEF Charge, Reject, CreateIntent, Repeat, CreateCharge, WriteAhead, AskBank,
             StoreResult, ProviderThrows, WorkerDies
    <2> QED BY <2>1, ChargeNews DEF Books, Types
  <1>3. \A j \in Keys : Live(j)' => Live(j)
    BY <1>1, <1>2, LiveBefore DEF Books, Types, WalletTypes, Final
  <1>4. UNCHANGED commands \/ Acknowledge
    BY DEF Charge, Reject, CreateIntent, Repeat, CreateCharge, WriteAhead, AskBank,
           StoreResult, ProviderThrows, WorkerDies
  <1>5. \A j : (Sent(j)' => Sent(j)) /\ (Once(j) => Once(j)')
    BY <1>0, <1>4, Queued, Dequeued
  <1>6. ASSUME NEW j \in Keys \ {k}, Live(j)' PROVE Orderly(j)'
    <2>1. Orderly(j)
      BY <1>3, <1>6
    <2>2. ~Working(j)
      BY <1>6 DEF Working, Served
    <2>3. intent'[j] = intent[j] /\ bank'[j] = bank[j] /\ \A e \in events' : e \in events \/ e.key = k
      BY <1>0 DEF Charge, Reject, CreateIntent, Repeat, CreateCharge, WriteAhead, AskBank,
           StoreResult, ProviderThrows, WorkerDies, Update, Announce, Books, Types, WalletTypes
    <2> QED BY <1>0, <1>5, <2>1, <2>2, <2>3, OthersOrderly
  <1>7. ASSUME Live(k)' PROVE Orderly(k)'
    <2>1. /\ Live(k) /\ Orderly(k) /\ contract.busy /\ contract.key = k /\ Once(k) /\ ~Unmet(k)
          /\ intent[k] # "none" => Working(k)
          /\ \A b \in Billers : ~Sends(b, k)'
      BY <1>0, <1>1, <1>3, <1>7 DEF Orderly, InPlay, InOnePlace, Sends, KeyOf
    <2>2. Working(k) => AskingFor(k)
      BY <1>0 DEF Books, Asking
    <2>3. UNCHANGED events => ~Unmet(k)'
      BY <1>1, <2>1 DEF Unmet, FailMark
    <2>4. bank'[k] = "taken" => Resting'
      <3>1. bank'[k] = "taken" => bank[k] = "taken"
        BY <1>0 DEF Charge, Reject, CreateIntent, Repeat, CreateCharge, WriteAhead, AskBank,
                StoreResult, ProviderThrows, WorkerDies, Books, Types, WalletTypes
      <3> QED BY <1>1, <2>1, <3>1 DEF Orderly, Resting
    <2>5. CASE Reject(k)
      <3>1. intent[k] = "none" /\ Acknowledge /\ UNCHANGED intent
        BY <2>1, <2>5 DEF Reject, Delivered, Working
      <3>2. ~Sent(k)' /\ Once(k)'
        BY <1>0, <2>1, <3>1, Dequeued
      <3> QED BY <1>1, <2>1, <2>4, <3>1, <3>2 DEF Orderly, InOnePlace
    <2>6. CASE CreateIntent(k)
      <3>1. Working(k)' /\ UNCHANGED <<commands, events>>
        BY <2>6 DEF CreateIntent, Delivered, Working, Served
      <3> QED BY <1>1, <1>5, <2>1, <2>3, <2>4, <3>1 DEF Orderly, InOnePlace
    <2>7. CASE Repeat(k)
      BY <2>1, <2>7 DEF Repeat, Delivered, Working
    <2>8. CASE CreateCharge(k) \/ WriteAhead(k) \/ AskBank(k)
      <3>1. Working(k)' /\ UNCHANGED <<commands, events>>
        BY <2>8 DEF CreateCharge, WriteAhead, AskBank, Working, Served
      <3> QED BY <1>1, <1>5, <2>1, <2>3, <2>4, <3>1 DEF Orderly, InOnePlace
    <2>9. CASE StoreResult(k)
      <3>1. intent[k] = "PROCESSING" /\ worker = "ordered"
        <4>1. k \notin astray /\ worker \in {"ordered", "refused"}
          BY <2>1, <2>9 DEF Live, StoreResult
        <4>2. intent[k] = "PROCESSING"
          BY <2>2, <2>9, <4>1 DEF StoreResult, AskingFor
        <4>3. worker = "refused" => intent'[k] = "FAILED"
          BY <1>0, <2>9, <4>2 DEF StoreResult, Update, Books, Types, WalletTypes
        <4> QED BY <1>7, <4>1, <4>2, <4>3 DEF Live, Open
      <3>2. Acknowledge /\ UNCHANGED events
        BY <2>9, <3>1 DEF StoreResult
      <3>3. ~Sent(k)' /\ Once(k)'
        BY <1>0, <2>1, <3>2, Dequeued
      <3> QED BY <1>1, <2>1, <2>3, <2>4, <3>2, <3>3 DEF Orderly, InOnePlace
    <2>10. CASE ProviderThrows(k)
      <3>1. intent[k] = "PROCESSING"
        BY <2>1, <2>2, <2>10 DEF ProviderThrows, AskingFor, Live
      <3>2. intent'[k] = "FAILED"
        BY <1>0, <2>10, <3>1 DEF ProviderThrows, Update, Books, Types, WalletTypes
      <3> QED BY <1>7, <3>2 DEF Live, Open
    <2>11. CASE WorkerDies(k)
      BY <1>7, <2>11 DEF WorkerDies, Live
    <2> QED BY <2>5, <2>6, <2>7, <2>8, <2>9, <2>10, <2>11 DEF Charge
  <1> QED BY <1>6, <1>7

\* ... of the poller, the bank and the cancellation.
LEMMA SettleOrderly ==
  ASSUME Books, Stay, NEW k \in Made, Settle(k) \/ CancelIntent(k),
         \A j \in Keys : Live(j) => Orderly(j)
  PROVE  \A j \in Keys : Live(j)' => Orderly(j)'
  <1>0. k \in Keys /\ intent[k] # "none"
    BY DEF Made
  <1>1. UNCHANGED <<contract, biller, failing, recorded>>
    BY DEF Stay, membership
  <1>2. UNCHANGED <<commands, worker>> /\ astray \subseteq astray'
    BY DEF Settle, GoStale, BankSettles, Poll, Expire, CancelIntent, Cancel
  <1>3. FinalKept /\ NewsTrue
    BY SettleNews DEF Books, Types
  <1>4. \A j \in Keys : Live(j)' => Live(j)
    BY <1>1, <1>2, <1>3, LiveBefore DEF Books, Types, WalletTypes, Final
  <1>5. \A j : (Sent(j)' <=> Sent(j)) /\ (Once(j)' <=> Once(j)) /\ (Working(j)' <=> Working(j))
    BY <1>2, Queued DEF Working, Served
  <1>6. ASSUME NEW j \in Keys \ {k}, Live(j)' PROVE Orderly(j)'
    <2>1. intent'[j] = intent[j] /\ bank'[j] = bank[j] /\ \A e \in events' : e \in events \/ e.key = k
      BY <1>0 DEF Settle, GoStale, BankSettles, Poll, Expire, CancelIntent, Cancel, Update,
           Announce, Books, Types, WalletTypes
    <2> QED BY <1>0, <1>4, <1>5, <1>6, <2>1, OthersOrderly
  <1>7. ASSUME Live(k)' PROVE Orderly(k)'
    <2>1. Live(k) /\ Orderly(k) /\ contract.busy /\ contract.key = k /\ ~Unmet(k)
          /\ \A b \in Billers : ~Sends(b, k)'
      BY <1>0, <1>1, <1>4, <1>7 DEF Orderly, InPlay, InOnePlace, Sends, KeyOf
    <2>2. intent'[k] # "none"
      BY <1>0 DEF Settle, GoStale, BankSettles, Poll, Expire, CancelIntent, Cancel, Update,
           Books, Types, WalletTypes
    <2>3. ~Unmet(k)'
      <3>1. [type |-> "NO_METHOD", key |-> k] \in events' => [type |-> "NO_METHOD", key |-> k] \in events
        BY DEF Settle, GoStale, BankSettles, Poll, Expire, CancelIntent, Cancel, Announce
      <3> QED BY <1>1, <2>1, <3>1 DEF Unmet, FailMark
    <2>4. bank'[k] = "taken" => Resting'
      <3>1. CASE BankSettles(k)
        BY <1>1, <3>1 DEF BankSettles, Days, Quiet, Resting, Billers
      <3>2. CASE ~BankSettles(k)
        <4>1. bank'[k] = "taken" => bank[k] = "taken"
          BY <1>0, <3>2 DEF Settle, GoStale, Poll, Expire, CancelIntent, Cancel, Books, Types,
               WalletTypes
        <4> QED BY <1>1, <2>1, <4>1 DEF Orderly, Resting
      <3> QED BY <3>1, <3>2
    <2>5. InOnePlace(k)'
      BY <1>0, <1>5, <2>1, <2>3 DEF Orderly, InOnePlace
    <2> QED BY <1>1, <2>1, <2>4, <2>5 DEF Orderly
  <1> QED BY <1>6, <1>7

LEMMA LoseOrderly ==
  ASSUME Books, Stay, LoseMessage, \A j \in Keys : Live(j) => Orderly(j)
  PROVE  \A j \in Keys : Live(j)' => Orderly(j)'
  <1>1. UNCHANGED <<contract, biller, failing, recorded, intent, bank, astray>>
    BY DEF Stay, membership, LoseMessage
  <1>2. ASSUME NEW j \in Keys, Live(j)' PROVE Orderly(j)'
    <2>1. Live(j) /\ Orderly(j)
      BY <1>1, <1>2 DEF Live, Succeeded
    <2>2. /\ Sent(j)' => Sent(j)
          /\ Once(j) => Once(j)'
          /\ Working(j) => Working(j)'
      <3>1. CASE worker = "off" /\ commands # <<>> /\ Acknowledge
        BY <3>1, Dequeued DEF Working, Books, Types, WalletTypes
      <3>2. CASE UNCHANGED <<commands, worker>>
        BY <3>2, Queued DEF Working, Served
      <3> QED BY <3>1, <3>2 DEF LoseMessage
    <2>3. events' \subseteq events
      BY DEF LoseMessage
    <2>4. Unmet(j)' => Unmet(j)
      BY <1>1, <2>3 DEF Unmet, FailMark
    <2>5. \A b \in Billers : Sends(b, j)' <=> Sends(b, j)
      BY <1>1 DEF Sends, KeyOf
    <2>6. InPlay(j)' => contract'.busy /\ contract'.key = j
      BY <1>1, <2>1, <2>2, <2>4, <2>5 DEF InPlay, Orderly
    <2>7. Resting => Resting'
      BY <1>1 DEF Resting
    <2> QED BY <1>1, <2>1, <2>2, <2>4, <2>5, <2>6, <2>7, OrderlyKept DEF Books, Drawing
  <1> QED BY <1>2

\* Who draws money is backed: an intent fails only when the bank has not the order.
LEMMA WalletBacked ==
  ASSUME Books, Wallet, Backed, \A j \in Keys : Live(j) => Orderly(j)
  PROVE  Backed'
  <1>0. astray \subseteq astray'
    BY DEF Wallet, Charge, Reject, CreateIntent, Repeat, CreateCharge, WriteAhead, AskBank,
           StoreResult, ProviderThrows, WorkerDies, Settle, GoStale, BankSettles, Poll, Expire,
           CancelIntent, Cancel, LoseMessage
  <1>1. ASSUME NEW k \in Keys,
               \A j \in Keys \ {k} : intent'[j] = intent[j] /\ bank'[j] = bank[j],
               k \notin astray' /\ bank'[k] \in {"asked", "taken"}
                 => intent'[k] \in Open \cup {"AUTHORIZED"}
        PROVE  Backed'
    BY <1>0, <1>1 DEF Backed, Drawn
  <1>2. ASSUME UNCHANGED <<intent, bank>> PROVE Backed'
    BY <1>0, <1>2 DEF Backed, Drawn
  <1>3. ASSUME NEW k \in Served, Charge(k) \/ ProviderThrows(k) \/ WorkerDies(k) PROVE Backed'
    <2>0. /\ k \in Keys /\ DrawingOf(k) /\ (Working(k) => AskingFor(k))
          /\ (k \notin astray => (bank[k] \in {"asked", "taken"} => intent[k] \in Open \cup {"AUTHORIZED"}))
      BY ServedTypes DEF Books, Types, WalletTypes, Drawing, Asking, Backed, Drawn
    <2>1. \A j \in Keys \ {k} : intent'[j] = intent[j] /\ bank'[j] = bank[j]
      BY <1>3, <2>0 DEF Charge, Reject, CreateIntent, Repeat, CreateCharge, WriteAhead, AskBank,
           StoreResult, ProviderThrows, WorkerDies, Update, Books, Types, WalletTypes
    <2>2. CASE Reject(k) \/ WorkerDies(k) \/ WriteAhead(k)
      BY <1>2, <2>2 DEF Reject, WorkerDies, WriteAhead
    <2>3. CASE CreateIntent(k) \/ CreateCharge(k)
      <3>1. bank'[k] = "none"
        BY <2>0, <2>3 DEF CreateIntent, CreateCharge, DrawingOf, AskingFor
      <3> QED BY <1>1, <2>0, <2>1, <3>1
    <2>4. CASE Repeat(k)
      <3>1. CASE UNCHANGED intent
        BY <1>2, <2>4, <3>1 DEF Repeat
      <3>2. CASE intent[k] \in {"CREATED", "PROCESSING"}
        <4>1. Sent(k) /\ ~Working(k)
          <5>1. commands \in Seq(Keys) /\ commands # <<>> /\ k = Head(commands)
            BY ServedTypes DEF Books, Types, WalletTypes
          <5>2. 1 \in DOMAIN commands /\ commands[1] = k
            BY <5>1
          <5> QED BY <2>4, <5>2 DEF Sent, Repeat, Delivered, Working
        <4>2. k \in astray
          BY <2>0, <3>2, <4>1 DEF Live, Orderly, InOnePlace, Open
        <4> QED BY <1>0, <1>1, <2>0, <2>1, <4>2
      <3> QED BY <2>4, <3>1, <3>2 DEF Repeat
    <2>5. CASE AskBank(k)
      <3>1. k \notin astray => intent'[k] \in Open
        BY <2>0, <2>5 DEF AskBank, AskingFor, Open
      <3> QED BY <1>0, <1>1, <2>0, <2>1, <3>1
    <2>6. CASE StoreResult(k)
      <3>1. CASE intent[k] # "PROCESSING"
        BY <1>2, <2>6, <3>1 DEF StoreResult
      <3>2. CASE intent[k] = "PROCESSING" /\ worker = "ordered"
        <4>1. intent'[k] = "PENDING_SETTLEMENT"
          BY <2>0, <2>6, <3>2 DEF StoreResult, Update, Books, Types, WalletTypes
        <4> QED BY <1>1, <2>0, <2>1, <4>1 DEF Open
      <3>3. CASE worker = "refused"
        <4>1. bank'[k] = "none"
          BY <2>0, <2>6, <3>3 DEF StoreResult, AskingFor
        <4> QED BY <1>1, <2>0, <2>1, <4>1
      <3> QED BY <2>6, <3>1, <3>2, <3>3 DEF StoreResult
    <2>7. CASE ProviderThrows(k)
      <3>1. bank'[k] = "none"
        BY <2>0, <2>7 DEF ProviderThrows, AskingFor
      <3> QED BY <1>1, <2>0, <2>1, <3>1
    <2> QED BY <1>3, <2>2, <2>3, <2>4, <2>5, <2>6, <2>7 DEF Charge
  <1>4. ASSUME NEW k \in Made, Settle(k) \/ CancelIntent(k) PROVE Backed'
    <2>0. /\ k \in Keys /\ DrawingOf(k)
          /\ (k \notin astray => (bank[k] \in {"asked", "taken"} => intent[k] \in Open \cup {"AUTHORIZED"}))
      BY DEF Made, Books, Drawing, Backed, Drawn
    <2>1. \A j \in Keys \ {k} : intent'[j] = intent[j] /\ bank'[j] = bank[j]
      BY <1>4, <2>0 DEF Settle, GoStale, BankSettles, Poll, Expire, CancelIntent, Cancel, Update,
           Books, Types, WalletTypes
    <2>2. CASE GoStale(k)
      BY <1>2, <2>2 DEF GoStale
    <2>3. CASE BankSettles(k)
      <3>1. UNCHANGED intent /\ bank[k] = "asked"
        BY <2>3 DEF BankSettles
      <3> QED BY <1>0, <1>1, <2>0, <2>1, <3>1
    <2>4. CASE Poll(k)
      <3>1. CASE UNCHANGED intent
        BY <1>2, <2>4, <3>1 DEF Poll
      <3>2. CASE intent[k] = "PENDING_SETTLEMENT"
        <4>1. /\ bank'[k] = bank[k] /\ Answer(k) # "wait"
              /\ intent'[k] = IF Answer(k) = "SUCCEEDED" THEN "AUTHORIZED" ELSE "FAILED"
          BY <2>0, <2>4, <3>2 DEF Poll, Books, Types, WalletTypes
        <4>2. bank'[k] \in {"asked", "taken"} => intent'[k] = "AUTHORIZED"
          BY <4>1 DEF Answer
        <4> QED BY <1>1, <2>0, <2>1, <4>2
      <3> QED BY <2>4, <3>1, <3>2 DEF Poll
    <2>5. ASSUME Cancel(k) PROVE Backed'
      <3>1. bank'[k] \notin {"asked", "taken"}
        BY <2>0, <2>5 DEF Cancel, DrawingOf, Books, Types, WalletTypes
      <3> QED BY <1>1, <2>0, <2>1, <3>1
    <2> QED BY <1>4, <2>2, <2>3, <2>4, <2>5 DEF Settle, Expire, CancelIntent
  <1>5. CASE LoseMessage
    BY <1>2, <1>5 DEF LoseMessage
  <1> QED BY <1>3, <1>4, <1>5 DEF Wallet

LEMMA WalletOneClaim ==
  ASSUME Books, OneClaim, Wallet PROVE OneClaim'
  <1>1. Stay /\ UNCHANGED crossed
    BY DEF Wallet, Stay, past
  <1> QED BY <1>1, WalletBacked, ChargeOrderly, SettleOrderly, LoseOrderly DEF OneClaim, Wallet

\* What membership does, when it sends nothing.
LEMMA MemberOrderly ==
  ASSUME Books, MemberStep, \A j \in Keys : Live(j) => Orderly(j),
         UNCHANGED commands, recorded \subseteq recorded',
         \A j \in Keys : Unmet(j)' => Unmet(j),
         \A j \in Keys : \A b \in Billers : Sends(b, j)' => Sends(b, j),
         \A j \in Keys : Live(j) /\ Live(j)' /\ InPlay(j) /\ InPlay(j)'
                           => contract'.busy /\ contract'.key = j,
         contract.busy /\ Resting => Resting'
  PROVE  \A j \in Keys : Live(j)' => Orderly(j)'
  <1>1. UNCHANGED <<intent, worker, bank>> /\ astray \subseteq astray'
    BY MemberFrame DEF Books
  <1>2. ASSUME NEW j \in Keys, Live(j)' PROVE Orderly(j)'
    <2>1. Live(j)
      BY <1>1, <1>2, LiveBefore DEF FinalKept, Books, Types, WalletTypes, Final
    <2>2. /\ Sent(j)' <=> Sent(j)
          /\ Once(j)' <=> Once(j)
          /\ Working(j)' <=> Working(j)
      BY <1>1, Queued DEF Working, Served
    <2>3. InPlay(j)' => InPlay(j)
      BY <1>1, <2>2 DEF InPlay
    <2>4. Orderly(j) /\ DrawingOf(j)
      BY <2>1 DEF Books, Drawing
    <2> QED BY <1>1, <1>2, <2>1, <2>2, <2>3, <2>4, OrderlyKept
  <1> QED BY <1>2

\* ... and leaves the claim to whom it belongs.
LEMMA MemberKeeps ==
  ASSUME Books, MemberStep, \A j \in Keys : Live(j) => Orderly(j),
         UNCHANGED <<commands, biller, failing, recorded>>,
         contract'.busy = contract.busy, contract'.key = contract.key
  PROVE  \A j \in Keys : Live(j)' => Orderly(j)'
  <1>1. events' \subseteq events
    BY MemberFrame DEF Books
  <1>2. \A j \in Keys : Unmet(j)' => Unmet(j)
    BY <1>1 DEF Unmet, FailMark
  <1>3. \A j \in Keys : \A b \in Billers : Sends(b, j)' => Sends(b, j)
    BY DEF Sends, KeyOf
  <1>4. Resting => Resting'
    BY DEF Resting
  <1>5. \A j \in Keys : Live(j) /\ InPlay(j) => contract'.busy /\ contract'.key = j
    BY DEF Orderly
  <1> QED BY <1>2, <1>3, <1>4, <1>5, MemberOrderly

LEMMA LookOrderly ==
  ASSUME Books, Look, \A j \in Keys : Live(j) => Orderly(j)
  PROVE  \A j \in Keys : Live(j)' => Orderly(j)'
  <1>1. UNCHANGED <<contract, commands, events, failing, recorded>>
    BY DEF Look, wallet, books
  <1>2. MemberStep
    BY DEF MemberStep, Membership
  <1>3. \A j \in Keys : \A b \in Billers : Sends(b, j)' => Sends(b, j)
    BY DEF Look, FindDue, FindDunning, RereadContract, AskRetry, Moves, Sends, KeyOf, Books,
           Types, MemberTypes
  <1>4. ~(contract.busy /\ Resting)
    BY DEF Look, FindDue, FindDunning, RereadContract, AskRetry, Resting, Billers
  <1>5. \A j \in Keys : Unmet(j)' => Unmet(j)
    BY <1>1 DEF Unmet, FailMark
  <1>6. \A j \in Keys : Live(j) /\ InPlay(j) => contract'.busy /\ contract'.key = j
    BY <1>1 DEF Orderly
  <1> QED BY <1>1, <1>2, <1>3, <1>4, <1>5, <1>6, MemberOrderly

\* What a scheduler does to the keys that the schedulers send.
LEMMA Sending ==
  ASSUME Types, NEW b \in Billers
  PROVE  /\ \A next, attempt : Moves(b, "idle", next, attempt)
                => \A j : \A c \in Billers : Sends(c, j)' <=> c # b /\ Sends(c, j)
         /\ Moves(b, "publish", biller[b].next, biller[b].attempt)
                => \A j : \A c \in Billers :
                     Sends(c, j)' <=> (IF c = b THEN j = KeyOf(b) ELSE Sends(c, j))
  BY DEF Types, MemberTypes, Moves, Sends, KeyOf

LEMMA ClaimOrderly ==
  ASSUME Books, NEW b \in Billers, Claim(b), \A j \in Keys : Live(j) => Orderly(j)
  PROVE  \A j \in Keys : Live(j)' => Orderly(j)'
  <1>1. /\ UNCHANGED <<commands, events, intent, worker, order, bank, astray, failing, recorded>>
        /\ biller[b].at = "claim"
    BY DEF Claim, wallet, books
  <1>2. MemberStep
    BY DEF MemberStep, Membership, Billers
  <1>3. \A j \in Keys : /\ Unmet(j)' <=> Unmet(j)
                        /\ Sent(j)' <=> Sent(j)
                        /\ Once(j)' <=> Once(j)
                        /\ Live(j)' <=> Live(j)
                        /\ Working(j)' <=> Working(j)
    BY <1>1, Queued DEF Unmet, FailMark, Live, Succeeded, Working, Served
  <1>4. CASE contract.busy
    <2>1. UNCHANGED contract /\ Moves(b, "idle", None, 0)
      BY <1>4 DEF Claim
    <2>2. \A j \in Keys : \A c \in Billers : Sends(c, j)' => Sends(c, j)
      BY <2>1, Sending DEF Books
    <2>3. ~Resting
      BY <1>1 DEF Resting
    <2>4. \A j \in Keys : Live(j) /\ InPlay(j) => contract'.busy /\ contract'.key = j
      BY <2>1 DEF Orderly
    <2> QED BY <1>1, <1>2, <1>3, <2>2, <2>3, <2>4, MemberOrderly
  <1>5. CASE ~contract.busy
    <2>1. /\ contract' = [contract EXCEPT !.busy = TRUE, !.overdue = FALSE, !.key = KeyOf(b)]
          /\ Moves(b, "publish", biller[b].next, biller[b].attempt)
      BY <1>5 DEF Claim
    <2>2. contract'.busy /\ contract'.key = KeyOf(b)
      BY <2>1 DEF Books, Types, MemberTypes, Contracts
    <2>3. \A j : \A c \in Billers : Sends(c, j)' <=> (IF c = b THEN j = KeyOf(b) ELSE Sends(c, j))
      BY <2>1, Sending DEF Books
    <2>4. ASSUME NEW j \in Keys, Live(j)' PROVE Orderly(j)'
      <3>1. Orderly(j) /\ ~InPlay(j)
        BY <1>3, <1>5, <2>4 DEF Orderly
      <3>2. ~Sent(j)' /\ Once(j)' /\ ~Unmet(j)' /\ intent'[j] = "none"
        BY <1>1, <1>3, <3>1 DEF InPlay, Orderly, InOnePlace
      <3>3. \A c \in Billers : Sends(c, j)' => c = b /\ j = KeyOf(b)
        BY <2>3, <3>1 DEF InPlay
      <3>4. InPlay(j)' => contract'.busy /\ contract'.key = j
        BY <2>2, <3>2, <3>3 DEF InPlay
      <3>5. bank'[j] # "taken"
        BY <1>1, <3>2 DEF Books, Drawing, DrawingOf
      <3> QED BY <3>2, <3>3, <3>4, <3>5 DEF Orderly, InOnePlace
    <2> QED BY <2>4
  <1> QED BY <1>4, <1>5

LEMMA PublishOrderly ==
  ASSUME Books, NEW b \in Billers, Publish(b), \A j \in Keys : Live(j) => Orderly(j)
  PROVE  \A j \in Keys : Live(j)' => Orderly(j)'
  <1>1. /\ UNCHANGED <<contract, events, intent, worker, order, bank, astray, failing, recorded>>
        /\ Sends(b, KeyOf(b)) /\ Send(KeyOf(b)) /\ KeyOf(b) \in Keys /\ commands \in Seq(Keys)
        /\ Moves(b, "idle", None, 0)
    BY DEF Publish, books, Sends, Books, Types, MemberTypes, WalletTypes, Publishing
  <1>2. \A j \in Keys : /\ Unmet(j)' <=> Unmet(j)
                        /\ Live(j)' <=> Live(j)
    BY <1>1 DEF Unmet, FailMark, Live, Succeeded
  <1>3. \A j : \A c \in Billers : Sends(c, j)' <=> c # b /\ Sends(c, j)
    BY <1>1, Sending DEF Books
  <1>4. worker # "off" => Served' = Served
    BY <1>1, Appended DEF Books, Asking
  <1>5. ~Resting
    BY <1>1 DEF Resting, Sends
  <1>6. ASSUME NEW j \in Keys, Live(j)', j # KeyOf(b) PROVE Orderly(j)'
    <2>1. Orderly(j) /\ DrawingOf(j)
      BY <1>2, <1>6 DEF Books, Drawing
    <2>2. /\ Sent(j)' => Sent(j)
          /\ Once(j) => Once(j)'
          /\ Working(j) => Working(j)'
      BY <1>1, <1>4, <1>6, Appended DEF Working
    <2>3. InPlay(j)' => InPlay(j)
      BY <1>1, <1>2, <1>3, <2>2 DEF InPlay
    <2> QED BY <1>1, <1>2, <1>3, <1>5, <2>1, <2>2, <2>3, OrderlyKept DEF Orderly
  <1>7. ASSUME NEW j \in Keys, Live(j)', j = KeyOf(b) PROVE Orderly(j)'
    <2>1. Orderly(j) /\ Sends(b, j) /\ DrawingOf(j)
      BY <1>1, <1>2, <1>7 DEF Books, Drawing
    <2>2. ~Sent(j) /\ intent[j] = "none" /\ ~Unmet(j) /\ \A c \in Billers : Sends(c, j) => c = b
      BY <2>1 DEF Orderly, InOnePlace
    <2>3. contract.busy /\ contract.key = j
      BY <2>1 DEF Orderly, InPlay
    <2>4. Once(j)'
      BY <1>1, <1>7, <2>2, Appended
    <2>5. \A c \in Billers : ~Sends(c, j)'
      BY <1>3, <2>2
    <2>6. InOnePlace(j)'
      BY <1>1, <1>2, <2>2, <2>4, <2>5 DEF InOnePlace
    <2>7. bank'[j] # "taken"
      BY <1>1, <2>1, <2>2 DEF DrawingOf
    <2> QED BY <1>1, <2>3, <2>6, <2>7 DEF Orderly
  <1> QED BY <1>6, <1>7

LEMMA PublishFailsOrderly ==
  ASSUME Books, NEW b \in Billers, PublishFails(b), ~crossed', \A j \in Keys : Live(j) => Orderly(j)
  PROVE  \A j \in Keys : Live(j)' => Orderly(j)'
  <1>1. /\ UNCHANGED <<events, intent, worker, order, bank, failing, recorded>>
        /\ Sends(b, KeyOf(b))
        /\ Send(KeyOf(b)) \/ UNCHANGED commands
        /\ KeyOf(b) \in Keys /\ commands \in Seq(Keys)
        /\ Moves(b, "idle", None, 0) /\ KeyOf(b) \in astray' /\ astray \subseteq astray'
    BY DEF PublishFails, books, Sends, Books, Types, MemberTypes, WalletTypes, Publishing
  <1>2. ~contract'.busy /\ (contract.busy => contract.key = KeyOf(b))
    BY DEF PublishFails, Unclaim, Lets, Books, Types, MemberTypes, Contracts
  <1>3. \A j : \A c \in Billers : Sends(c, j)' <=> c # b /\ Sends(c, j)
    BY <1>1, Sending DEF Books
  <1>4. worker # "off" => Served' = Served
    BY <1>1, Appended DEF Books, Asking, Served
  <1>5. ASSUME NEW j \in Keys, Live(j)' PROVE Orderly(j)'
    <2>1. Live(j) /\ j # KeyOf(b)
      BY <1>1, <1>5 DEF Live, Succeeded
    <2>2. Orderly(j) /\ ~InPlay(j)
      BY <1>2, <2>1 DEF Orderly
    <2>3. /\ Sent(j)' => Sent(j)
          /\ Once(j) => Once(j)'
          /\ Working(j) => Working(j)'
      BY <1>1, <1>4, <2>1, Appended, Queued DEF Working
    <2>4. Unmet(j)' <=> Unmet(j)
      BY <1>1 DEF Unmet, FailMark
    <2>5. ~InPlay(j)'
      BY <1>1, <1>3, <2>2, <2>3, <2>4 DEF InPlay
    <2>6. bank'[j] # "taken"
      BY <1>1, <2>2 DEF InPlay, Books, Drawing, DrawingOf
    <2>7. InOnePlace(j)'
      BY <2>2, <2>3, <2>5 DEF InPlay, Orderly, InOnePlace
    <2> QED BY <2>5, <2>6, <2>7 DEF Orderly
  <1> QED BY <1>5

LEMMA BillerDiesOrderly ==
  ASSUME Books, NEW b \in Billers, BillerDies(b), \A j \in Keys : Live(j) => Orderly(j)
  PROVE  \A j \in Keys : Live(j)' => Orderly(j)'
  <1>1. UNCHANGED <<contract, commands, events, failing, recorded>> /\ Moves(b, "idle", None, 0)
        /\ MemberStep /\ ~Resting
    BY DEF BillerDies, wallet, books, MemberStep, Membership, Resting, Billers
  <1>2. \A j \in Keys : \A c \in Billers : Sends(c, j)' => Sends(c, j)
    BY <1>1, Sending DEF Books
  <1>3. \A j \in Keys : Unmet(j)' => Unmet(j)
    BY <1>1 DEF Unmet, FailMark
  <1>4. \A j \in Keys : Live(j) /\ InPlay(j) => contract'.busy /\ contract'.key = j
    BY <1>1 DEF Orderly
  <1> QED BY <1>1, <1>2, <1>3, <1>4, MemberOrderly

\* A handler gives a claim back, if at all, and records why.
LEMMA HandlerClaims ==
  ASSUME Types, NEW k
  PROVE  /\ Release \/ Terminate => contract'.key = contract.key /\ ~contract'.busy
         /\ \A due : Dun(due) => contract'.key = contract.key /\ ~contract'.busy
         /\ HandleSuccess(k) => /\ contract'.key = contract.key
                                /\ contract'.busy => contract.busy
                                /\ Succeeded(k)'
         /\ HandleCanceled(k) => /\ contract'.key = contract.key
                                 /\ contract'.busy => contract.busy
         /\ \A m, r : HandleFailure(k, m, r) =>
                        /\ contract'.key = contract.key
                        /\ contract'.busy => contract.busy
                        /\ FailMark(k, m) \in recorded'
                        /\ FailMark(k, m) \in recorded => UNCHANGED contract
  <1>0. contract \in Contracts
    BY DEF Types, MemberTypes
  <1>1. Release \/ Terminate => contract'.key = contract.key /\ ~contract'.busy
    BY <1>0 DEF Release, Terminate, Contracts
  <1>2. \A due : Dun(due) => contract'.key = contract.key /\ ~contract'.busy
    BY <1>1 DEF Dun
  <1>3. ASSUME HandleSuccess(k)
        PROVE  /\ contract'.key = contract.key
               /\ contract'.busy => contract.busy
               /\ Succeeded(k)'
    <2>1. CASE UNCHANGED contract
      BY <1>3, <2>1 DEF HandleSuccess, Succeeded
    <2>2. CASE Release
      BY <1>1, <1>3, <2>2 DEF HandleSuccess, Succeeded
    <2>3. CASE contract' = [contract EXCEPT !.next = Later(ends), !.busy = FALSE, !.overdue = FALSE]
      <3>1. contract'.key = contract.key /\ ~contract'.busy
        BY <1>0, <2>3 DEF Contracts
      <3> QED BY <1>3, <3>1 DEF HandleSuccess, Succeeded
    <2> QED BY <1>3, <2>1, <2>2, <2>3 DEF HandleSuccess
  <1>4. HandleCanceled(k) => contract'.key = contract.key /\ (contract'.busy => contract.busy)
    BY <1>1, <1>2 DEF HandleCanceled
  <1>5. ASSUME NEW m, NEW r, HandleFailure(k, m, r)
        PROVE  /\ contract'.key = contract.key
               /\ contract'.busy => contract.busy
               /\ FailMark(k, m) \in recorded'
               /\ FailMark(k, m) \in recorded => UNCHANGED contract
    BY <1>1, <1>2, <1>5 DEF HandleFailure
  <1> QED BY <1>1, <1>2, <1>3, <1>4, <1>5

LEMMA OutcomeOrderly ==
  ASSUME Books, MemberStep, \A j \in Keys : Live(j) => Orderly(j),
         NEW k \in Keys, NEW type \in EventTypes, Outcome(type, k),
         IF type = "NO_METHOD" THEN [type |-> "NO_METHOD", key |-> k] \in events
                               ELSE intent[k] = type,
         contract.busy /\ ~contract'.busy => contract.key = k,
         UNCHANGED <<biller, commands>>
  PROVE  \A j \in Keys : Live(j)' => Orderly(j)'
  <1>1. UNCHANGED <<intent, worker, bank>> /\ events' \subseteq events
    BY MemberFrame DEF Books
  <1>2. recorded \subseteq recorded'
    BY Records DEF Outcome, ReadForFailure
  <1>3. ASSUME NEW j \in Keys, Unmet(j)' PROVE Unmet(j)
    <2>1. FailMark(j, TRUE) \notin recorded
      BY <1>2, <1>3 DEF Unmet, FailMark
    <2>2. CASE UNCHANGED failing
      BY <1>1, <1>3, <2>1, <2>2 DEF Unmet
    <2>3. CASE ReadForFailure(k, type = "NO_METHOD")
      BY <1>1, <1>3, <2>1, <2>3 DEF Unmet, ReadForFailure
    <2> QED BY <2>2, <2>3 DEF Outcome
  <1>4. \A j \in Keys : \A b \in Billers : Sends(b, j)' => Sends(b, j)
    BY DEF Sends, KeyOf
  <1>5. Resting => Resting'
    BY DEF Resting
  <1>6. ASSUME NEW j \in Keys, Live(j), Live(j)', InPlay(j)
        PROVE  contract'.busy /\ contract'.key = j
    <2>1. contract.busy /\ contract.key = j
      BY <1>6 DEF Orderly
    <2>2. contract'.key = contract.key
      BY HandlerClaims DEF Outcome, ReadForFailure, Books
    <2>3. ASSUME ~contract'.busy PROVE FALSE
      <3>1. j = k
        BY <2>1, <2>3
      <3>2. ~(\E m \in BOOLEAN : ReadForFailure(k, m))
        BY <2>1, <2>3 DEF ReadForFailure
      <3>3. ~(type = "CANCELED")
        BY <1>6, <3>1 DEF Live, Open
      <3>4. ~(type = "AUTHORIZED" /\ HandleSuccess(k))
        <4>1. HandleSuccess(k) => Succeeded(k)'
          BY HandlerClaims DEF Books
        <4> QED BY <1>1, <1>6, <3>1, <4>1 DEF Live, Open
      <3>5. (type = "NO_METHOD") \in BOOLEAN
        OBVIOUS
      <3> QED BY <3>2, <3>3, <3>4, <3>5 DEF Outcome
    <2>4. contract'.busy \in BOOLEAN
      BY NextTypes DEF MemberStep, Books, Next, People, Types, MemberTypes, Contracts
    <2> QED BY <2>1, <2>2, <2>3
  <1> QED BY <1>2, <1>3, <1>4, <1>5, <1>6, MemberOrderly

LEMMA WriteOrderly ==
  ASSUME Books, WriteFailure, ~crossed', \A j \in Keys : Live(j) => Orderly(j)
  PROVE  \A j \in Keys : Live(j)' => Orderly(j)'
  <1>0. /\ UNCHANGED <<commands, events, intent, biller>> /\ MemberStep /\ ~failing'.on
        /\ failing.on /\ failing.key \in Keys /\ failing.noMethod \in BOOLEAN
        /\ HandleFailure(failing.key, failing.noMethod, failing.renews)
    BY DEF WriteFailure, NoFailure, wallet, books, MemberStep, Membership, Books, Types, MemberTypes
  <1>1. recorded \subseteq recorded'
    BY <1>0, Records
  <1>2. \A j \in Keys : Unmet(j)' => Unmet(j)
    BY <1>0, <1>1 DEF Unmet, FailMark
  <1>3. \A j \in Keys : \A b \in Billers : Sends(b, j)' => Sends(b, j)
    BY <1>0 DEF Sends, KeyOf
  <1>4. Resting => Resting'
    BY <1>0 DEF Resting
  <1>5. ASSUME NEW j \in Keys, Live(j), Live(j)', InPlay(j), InPlay(j)'
        PROVE  contract'.busy /\ contract'.key = j
    <2>1. contract.busy /\ contract.key = j /\ InOnePlace(j)
      BY <1>5 DEF Orderly
    <2>2. /\ contract'.key = contract.key
          /\ FailMark(failing.key, failing.noMethod) \in recorded'
          /\ FailMark(failing.key, failing.noMethod) \in recorded => UNCHANGED contract
      BY <1>0, HandlerClaims DEF Books
    <2>3. ASSUME ~contract'.busy PROVE FALSE
      <3>1. j = failing.key
        BY <2>1, <2>3 DEF WriteFailure, Lets
      <3>2. failing.noMethod
        BY <1>0, <1>5, <3>1 DEF Books, Told, Live, Open
      <3>3. FailMark(j, TRUE) \notin recorded /\ FailMark(j, TRUE) \in recorded'
        BY <2>1, <2>2, <2>3, <3>1, <3>2 DEF FailMark
      <3>4. Unmet(j) /\ ~Unmet(j)'
        BY <1>0, <3>1, <3>2, <3>3 DEF Unmet, FailMark
      <3>5. ~Sent(j) /\ intent[j] = "none" /\ \A b \in Billers : ~Sends(b, j)
        BY <2>1, <3>4 DEF InOnePlace
      <3>6. ~Sent(j)' /\ intent'[j] = "none" /\ \A b \in Billers : ~Sends(b, j)'
        BY <1>0, <1>3, <3>5, Queued
      <3> QED BY <1>5, <3>4, <3>6 DEF InPlay
    <2> QED BY <2>1, <2>2, <2>3
  <1> QED BY <1>0, <1>1, <1>2, <1>3, <1>4, <1>5, MemberOrderly

LEMMA ReconcileOrderly ==
  ASSUME Books, Reconcile, \A j \in Keys : Live(j) => Orderly(j)
  PROVE  \A j \in Keys : Live(j)' => Orderly(j)'
  <1>1. contract.key \in Keys
    BY DEF Reconcile, Overdue, Books, Types, MemberTypes, Contracts
  <1>2. /\ intent[contract.key] \in EventTypes /\ intent[contract.key] # "NO_METHOD"
        /\ Outcome(intent[contract.key], contract.key)
        /\ UNCHANGED <<biller, commands>> /\ MemberStep
    BY DEF Reconcile, EventTypes, wallet, MemberStep, Membership
  <1> QED BY <1>1, <1>2, OutcomeOrderly

LEMMA EventOrderly ==
  ASSUME Books, NEW e \in events, HandleEvent(e), ~crossed', \A j \in Keys : Live(j) => Orderly(j)
  PROVE  \A j \in Keys : Live(j)' => Orderly(j)'
  <1>1. e = [type |-> e.type, key |-> e.key] /\ e.key \in Keys /\ e.type \in EventTypes
    BY DEF Books, Types, WalletTypes
  <1>2. /\ Outcome(e.type, e.key) /\ UNCHANGED <<biller, commands>> /\ MemberStep
        /\ contract.busy /\ ~contract'.busy => contract.key = e.key
    BY DEF HandleEvent, Lets, MemberStep, Membership
  <1>3. e.type # "NO_METHOD" => intent[e.key] = e.type
    BY DEF Books, Told
  <1> QED BY <1>1, <1>2, <1>3, OutcomeOrderly

LEMMA ReleaseOrderly ==
  ASSUME Books, ReleaseLost, \A j \in Keys : Live(j) => Orderly(j)
  PROVE  \A j \in Keys : Live(j)' => Orderly(j)'
  <1>1. /\ UNCHANGED <<commands, events, biller, failing, recorded>> /\ MemberStep
        /\ astray' = astray \cup ({contract.key} \ {NoKey})
    BY DEF ReleaseLost, books, MemberStep, Membership
  <1>2. \A j \in Keys : Unmet(j)' => Unmet(j)
    BY <1>1 DEF Unmet, FailMark
  <1>3. \A j \in Keys : \A b \in Billers : Sends(b, j)' => Sends(b, j)
    BY <1>1 DEF Sends, KeyOf
  <1>4. Resting => Resting'
    BY <1>1 DEF Resting
  <1>5. \A j \in Keys : ~(Live(j) /\ Live(j)' /\ InPlay(j))
    BY <1>1, KeyAssumption DEF Live, Orderly
  <1> QED BY <1>1, <1>2, <1>3, <1>4, <1>5, MemberOrderly

\* The customer, the administrator and the calendar leave the claim alone.
LEMMA LifeOrderly ==
  ASSUME Books, \A j \in Keys : Live(j) => Orderly(j),
         \/ ReconcileFindsNone \/ Time
         \/ Resign \/ Undo \/ CancelNow \/ SwitchRenewalOff \/ SwitchRenewalOn
         \/ ListExpired \/ HandleExpiration
  PROVE  \A j \in Keys : Live(j)' => Orderly(j)'
  <1>1. MemberStep
    BY DEF MemberStep, Membership
  <1>2. UNCHANGED <<commands, biller, failing, recorded>>
    BY DEF ReconcileFindsNone, Time, NextDay, RetryComesDue, ClaimGoesOverdue, Resign, Undo,
           CancelNow, SwitchRenewalOff, SwitchRenewalOn, ListExpired, HandleExpiration,
           membership, wallet
  <1>3. contract \in Contracts
    BY DEF Books, Types, MemberTypes
  <1>4. contract'.busy = contract.busy /\ contract'.key = contract.key
    <2>1. CASE ReconcileFindsNone \/ NextDay \/ RetryComesDue \/ ListExpired
      BY <2>1 DEF ReconcileFindsNone, NextDay, RetryComesDue, ListExpired, membership
    <2>2. CASE ClaimGoesOverdue \/ HandleExpiration
      BY <1>3, <2>2 DEF ClaimGoesOverdue, HandleExpiration, Contracts
    <2>3. CASE Resign \/ Undo \/ CancelNow \/ SwitchRenewalOff \/ SwitchRenewalOn
      BY <1>3, <2>3 DEF Resign, Undo, CancelNow, SwitchRenewalOff, SwitchRenewalOn, Contracts
    <2> QED BY <2>1, <2>2, <2>3 DEF Time
  <1> QED BY <1>1, <1>2, <1>4, MemberKeeps

LEMMA RevokeOrderly ==
  ASSUME Books, RevokeAgreement, Backed, \A j \in Keys : Live(j) => Orderly(j)
  PROVE  Backed' /\ \A j \in Keys : Live(j)' => Orderly(j)'
  <1>1. UNCHANGED <<contract, biller, failing, recorded, commands, events, intent, worker, astray>>
    BY DEF RevokeAgreement, membership
  <1>2. \A j \in Keys : bank'[j] = bank[j] \/ bank'[j] = "deleted"
    BY DEF RevokeAgreement, EndMandate
  <1>3. Backed'
    BY <1>1, <1>2 DEF Backed, Drawn
  <1>4. ASSUME NEW j \in Keys, Live(j)' PROVE Orderly(j)'
    <2>1. Orderly(j)
      BY <1>1, <1>4 DEF Live, Succeeded
    <2>2. /\ InPlay(j)' <=> InPlay(j)
          /\ InOnePlace(j)' <=> InOnePlace(j)
          /\ Resting' <=> Resting
      BY <1>1 DEF InPlay, InOnePlace, Resting, Sends, KeyOf, Sent, Once, Unmet, FailMark,
           Working, Served
    <2> QED BY <1>1, <1>2, <2>1, <2>2 DEF Orderly
  <1> QED BY <1>3, <1>4

LEMMA CrossedStays ==
  ASSUME Next, crossed PROVE crossed'
  BY DEF Next, Membership, Look, WriteFailure, Reconcile, ReconcileFindsNone, ReleaseLost, Claim,
         Publish, PublishFails, BillerDies, HandleEvent, Lets, People, Resign, Undo, CancelNow,
         SwitchRenewalOff, SwitchRenewalOn, RevokeAgreement, ListExpired, HandleExpiration, Time,
         NextDay, RetryComesDue, ClaimGoesOverdue, Wallet, Stay, past

LEMMA NextOneClaim ==
  ASSUME Books, OneClaim, [Next]_vars PROVE OneClaim'
  <1>1. CASE UNCHANGED vars
    <2>1. UNCHANGED <<contract, biller, failing, recorded, commands, events, intent, worker, order,
                      bank, astray, crossed>>
      BY <1>1 DEF vars, membership, wallet, books, past
    <2>2. ASSUME NEW j \in Keys
          PROVE  (Live(j)' <=> Live(j)) /\ (Orderly(j)' <=> Orderly(j))
      BY <2>1 DEF Live, Succeeded, Orderly, InPlay, InOnePlace, Resting, Sends, KeyOf, Sent, Once,
           Unmet, FailMark, Working, Served
    <2> QED BY <2>1, <2>2 DEF OneClaim, Backed, Drawn
  <1>2. ASSUME Next, ~crossed'
        PROVE  Backed' /\ \A j \in Keys : Live(j)' => Orderly(j)'
    <2>1. Backed /\ \A j \in Keys : Live(j) => Orderly(j)
      BY <1>2, CrossedStays DEF OneClaim
    <2>2. MemberStep => Backed'
      BY <2>1, MemberFrame DEF Books, Backed, Drawn
    <2>3. CASE Membership
      <3>1. ASSUME NEW b \in Billers, Claim(b) \/ Publish(b) \/ PublishFails(b) \/ BillerDies(b)
            PROVE  \A j \in Keys : Live(j)' => Orderly(j)'
        BY <1>2, <2>1, <3>1, ClaimOrderly, PublishOrderly, PublishFailsOrderly, BillerDiesOrderly
      <3>2. ASSUME NEW e \in events, HandleEvent(e)
            PROVE  \A j \in Keys : Live(j)' => Orderly(j)'
        BY <1>2, <2>1, <3>2, EventOrderly
      <3>3. ASSUME Look \/ WriteFailure \/ Reconcile
            PROVE  \A j \in Keys : Live(j)' => Orderly(j)'
        BY <1>2, <2>1, <3>3, LookOrderly, WriteOrderly, ReconcileOrderly
      <3>4. ASSUME ReconcileFindsNone \/ ReleaseLost
            PROVE  \A j \in Keys : Live(j)' => Orderly(j)'
        BY <2>1, <3>4, LifeOrderly, ReleaseOrderly
      <3> QED BY <2>2, <2>3, <3>1, <3>2, <3>3, <3>4 DEF Membership, MemberStep, Billers
    <2>4. CASE People \/ Time
      BY <2>1, <2>2, <2>4, LifeOrderly, RevokeOrderly DEF People, MemberStep
    <2>5. CASE Wallet
      <3>1. ~crossed /\ OneClaim'
        BY <1>2, <2>5, CrossedStays, WalletOneClaim
      <3> QED BY <1>2, <3>1 DEF OneClaim
    <2> QED BY <1>2, <2>3, <2>4, <2>5 DEF Next
  <1> QED BY <1>1, <1>2 DEF OneClaim

-----------------------------------------------------------------------------
(* One payment for a period *)

\* Whatever happens, a contract does not come back, its entitlement does not shrink
\* while it is active, and only due dates are planned and claimed.
Onward ==
  /\ contract.status = "EXPIRED" => contract'.status = "EXPIRED"
  /\ Active' => Active /\ ends' >= ends
  /\ \A b \in Billers : biller'[b].next \in {biller[b].next, None, contract.next}
  /\ contract'.busy /\ contract'.key # NoKey =>
       \/ contract.busy /\ contract'.key = contract.key
       \/ \E b \in Billers : contract'.key[1] = biller[b].next

LEMMA OnwardKept ==
  ASSUME Types, contract'.status = contract.status, UNCHANGED <<ends, biller>>,
         contract'.busy => contract.busy, contract'.key = contract.key
  PROVE  Onward
  <1>1. ends \in Nat /\ ends >= ends
    BY DEF Types, MemberTypes
  <1> QED BY <1>1 DEF Onward, Active

LEMMA OutcomeOnward ==
  ASSUME Types, UNCHANGED biller, NEW k,
         \/ HandleSuccess(k) \/ HandleCanceled(k)
         \/ \E m \in BOOLEAN : ReadForFailure(k, m)
         \/ \E m \in BOOLEAN, r \in BOOLEAN : HandleFailure(k, m, r) /\ (r => Active)
  PROVE  Onward
  <1>0. contract \in Contracts /\ ends \in Nat /\ today \in Nat
    BY DEF Types, MemberTypes
  <1>1. ASSUME UNCHANGED <<contract, ends>> PROVE Onward
    BY <1>1, OnwardKept
  <1>2. ASSUME Release, UNCHANGED ends PROVE Onward
    <2>1. contract'.status = contract.status /\ contract'.key = contract.key /\ ~contract'.busy
      BY <1>0, <1>2 DEF Release, Contracts
    <2> QED BY <1>2, <2>1, OnwardKept
  <1>3. ASSUME Terminate, Active PROVE Onward
    <2>1. contract'.status = "CANCELLED" /\ ~contract'.busy
      BY <1>0, <1>3 DEF Terminate, Contracts
    <2> QED BY <1>3, <2>1 DEF Onward, Active
  <1>4. ASSUME NEW due, Dun(due), Active PROVE Onward
    BY <1>2, <1>3, <1>4 DEF Dun
  <1>5. ASSUME Active, ends' = Later(ends),
               contract' = [contract EXCEPT !.next = Later(ends), !.busy = FALSE, !.overdue = FALSE]
        PROVE  Onward
    <2>1. contract'.status = contract.status /\ ~contract'.busy
      BY <1>0, <1>5 DEF Contracts
    <2>2. ends' >= ends
      BY <1>0, <1>5, LaterIsLater
    <2> QED BY <1>5, <2>1, <2>2 DEF Onward, Active
  <1>6. CASE HandleSuccess(k)
    BY <1>1, <1>2, <1>5, <1>6 DEF HandleSuccess
  <1>7. CASE HandleCanceled(k)
    BY <1>1, <1>2, <1>4, <1>7 DEF HandleCanceled, Renewing
  <1>8. CASE \E m \in BOOLEAN : ReadForFailure(k, m)
    BY <1>1, <1>8 DEF ReadForFailure
  <1>9. CASE \E m \in BOOLEAN, r \in BOOLEAN : HandleFailure(k, m, r) /\ (r => Active)
    BY <1>1, <1>2, <1>3, <1>4, <1>9 DEF HandleFailure
  <1> QED BY <1>6, <1>7, <1>8, <1>9

LEMMA NextOnward ==
  ASSUME Types, Standing, [Next]_vars PROVE Onward
  <1>0. contract \in Contracts /\ ends \in Nat
    BY DEF Types, MemberTypes
  <1>1. ASSUME NEW k, NEW type, Outcome(type, k), UNCHANGED biller PROVE Onward
    <2>1. (type = "NO_METHOD") \in BOOLEAN
      OBVIOUS
    <2> QED BY <1>1, <2>1, OutcomeOnward DEF Outcome
  <1>2. CASE Reconcile \/ \E e \in events : HandleEvent(e)
    BY <1>1, <1>2 DEF Reconcile, HandleEvent
  <1>3. CASE WriteFailure
    <2>1. /\ HandleFailure(failing.key, failing.noMethod, failing.renews) /\ UNCHANGED biller
          /\ failing.noMethod \in BOOLEAN /\ failing.renews \in BOOLEAN /\ (failing.renews => Active)
      BY <1>3 DEF WriteFailure, Types, MemberTypes, Standing
    <2> QED BY <2>1, OutcomeOnward
  <1>4. CASE Look
    <2>1. UNCHANGED <<contract, ends>>
      BY <1>4 DEF Look
    <2>2. \A c \in Billers : biller'[c].next \in {biller[c].next, None, contract.next}
      BY <1>4, MovesKeep DEF Look, FindDue, FindDunning, RereadContract, AskRetry, Billers
    <2>3. ends' >= ends
      BY <1>0, <2>1
    <2> QED BY <2>1, <2>2, <2>3 DEF Onward, Active
  <1>5. ASSUME NEW b \in Billers, Claim(b) \/ Publish(b) \/ PublishFails(b) \/ BillerDies(b)
        PROVE  Onward
    <2>1. UNCHANGED ends /\ ends' >= ends
      BY <1>0, <1>5 DEF Claim, Publish, PublishFails, BillerDies
    <2>2. \A c \in Billers : biller'[c].next \in {biller[c].next, None, contract.next}
      BY <1>5, MovesKeep DEF Claim, Publish, PublishFails, BillerDies
    <2>3. /\ contract'.status = contract.status
          /\ \/ UNCHANGED contract
             \/ ~contract'.busy
             \/ contract'.key = KeyOf(b)
      BY <1>0, <1>5 DEF Claim, Publish, PublishFails, BillerDies, Unclaim, Contracts
    <2>4. KeyOf(b)[1] = biller[b].next
      BY DEF KeyOf
    <2> QED BY <2>1, <2>2, <2>3, <2>4 DEF Onward, Active
  <1>6. CASE ReleaseLost
    <2>1. UNCHANGED <<ends, biller>> /\ contract'.status = contract.status /\ ~contract'.busy
      BY <1>0, <1>6 DEF ReleaseLost, Unclaim, Contracts
    <2> QED BY <1>0, <2>1 DEF Onward, Active
  <1>7. CASE \/ ReconcileFindsNone \/ NextDay \/ RetryComesDue \/ RevokeAgreement \/ ListExpired
             \/ Wallet \/ UNCHANGED vars
    <2>1. UNCHANGED <<contract, ends, biller>>
      BY <1>7 DEF ReconcileFindsNone, NextDay, RetryComesDue, RevokeAgreement, ListExpired,
           Wallet, Stay, vars, membership
    <2> QED BY <2>1, OnwardKept
  <1>8. CASE \/ ClaimGoesOverdue \/ Resign \/ Undo \/ SwitchRenewalOff \/ SwitchRenewalOn
    <2>1. UNCHANGED <<ends, biller>>
      BY <1>8 DEF ClaimGoesOverdue, Resign, Undo, SwitchRenewalOff, SwitchRenewalOn
    <2>2. /\ contract'.status = contract.status /\ contract'.busy = contract.busy
          /\ contract'.key = contract.key
      BY <1>0, <1>8 DEF ClaimGoesOverdue, Resign, Undo, SwitchRenewalOff, SwitchRenewalOn, Contracts
    <2> QED BY <2>1, <2>2, OnwardKept
  <1>9. CASE CancelNow
    <2>1. /\ UNCHANGED biller /\ Active /\ contract'.status = "CANCELLED"
          /\ contract'.busy = contract.busy /\ contract'.key = contract.key
      BY <1>0, <1>9 DEF CancelNow, Contracts
    <2> QED BY <2>1 DEF Onward, Active
  <1>10. CASE HandleExpiration
    <2>1. CASE UNCHANGED <<contract, ends>>
      BY <1>10, <2>1, OnwardKept DEF HandleExpiration
    <2>2. CASE contract' = [contract EXCEPT !.status = "EXPIRED"]
      <3>1. /\ UNCHANGED biller /\ contract'.status = "EXPIRED"
            /\ contract'.busy = contract.busy /\ contract'.key = contract.key
        BY <1>0, <1>10, <2>2 DEF HandleExpiration, Contracts
      <3> QED BY <3>1 DEF Onward, Active
    <2> QED BY <1>10, <2>1, <2>2 DEF HandleExpiration
  <1> QED BY <1>2, <1>3, <1>4, <1>5, <1>6, <1>7, <1>8, <1>9, <1>10
          DEF Next, Membership, People, Time, Billers

\* A payment is recorded by the handler of its success.
LEMMA Recording ==
  ASSUME Books, [Next]_vars, NEW k \in Keys, Succeeded(k)', ~Succeeded(k)
  PROVE  /\ HandleSuccess(k) /\ intent[k] = "AUTHORIZED" /\ UNCHANGED <<biller, astray>>
         /\ \A j : Succeeded(j)' => Succeeded(j) \/ j = k
  <1>1. recorded' # recorded
    BY DEF Succeeded
  <1>2. ASSUME NEW j, HandleSuccess(j) PROVE j = k /\ \A i : Succeeded(i)' => Succeeded(i) \/ i = k
    <2>1. recorded' \subseteq recorded \cup {<<j, "CHARGE_SUCCESS">>}
      BY <1>2, Records
    <2> QED BY <2>1 DEF Succeeded
  <1>3. ASSUME NEW j, HandleCanceled(j) PROVE FALSE
    <2>1. recorded' \subseteq recorded \cup {<<j, "CHARGE_CANCELED">>}
      BY <1>3, Records
    <2> QED BY <2>1 DEF Succeeded
  <1>4. ASSUME NEW j, NEW type, Outcome(type, j)
        PROVE  type = "AUTHORIZED" /\ HandleSuccess(j)
    BY <1>1, <1>3, <1>4 DEF Outcome, ReadForFailure
  <1>5. CASE Reconcile
    BY <1>2, <1>4, <1>5 DEF Reconcile, wallet
  <1>6. ASSUME NEW e \in events, HandleEvent(e)
        PROVE  /\ HandleSuccess(k) /\ intent[k] = "AUTHORIZED" /\ UNCHANGED <<biller, astray>>
               /\ \A j : Succeeded(j)' => Succeeded(j) \/ j = k
    <2>1. e.type = "AUTHORIZED" /\ HandleSuccess(e.key) /\ UNCHANGED <<biller, astray>>
      BY <1>4, <1>6 DEF HandleEvent
    <2>2. intent[e.key] = "AUTHORIZED"
      BY <2>1 DEF Books, Told
    <2> QED BY <1>2, <2>1, <2>2
  <1>7. ~WriteFailure
    <2>1. WriteFailure => recorded' \subseteq recorded \cup {FailMark(failing.key, failing.noMethod)}
      BY Records DEF WriteFailure
    <2> QED BY <2>1 DEF Succeeded, FailMark
  <1>8. ~(Look \/ ReconcileFindsNone \/ ReleaseLost \/ People \/ Time \/ Wallet \/ UNCHANGED vars)
    BY <1>1 DEF Look, ReconcileFindsNone, ReleaseLost, People, Resign, Undo, CancelNow,
       SwitchRenewalOff, SwitchRenewalOn, RevokeAgreement, ListExpired, HandleExpiration, Time,
       NextDay, RetryComesDue, ClaimGoesOverdue, Wallet, Stay, vars, membership
  <1>9. \A b \in Billers : ~(Claim(b) \/ Publish(b) \/ PublishFails(b) \/ BillerDies(b))
    BY <1>1 DEF Claim, Publish, PublishFails, BillerDies
  <1> QED BY <1>5, <1>6, <1>7, <1>8, <1>9 DEF Next, Membership, Billers

LEMMA AstrayStays ==
  ASSUME Books, [Next]_vars PROVE astray \subseteq astray'
  <1>1. MemberStep => astray \subseteq astray'
    BY MemberFrame DEF Books
  <1>2. RevokeAgreement \/ UNCHANGED vars => astray' = astray
    BY DEF RevokeAgreement, vars, wallet
  <1>3. Wallet => astray \subseteq astray'
    BY DEF Wallet, Charge, Reject, CreateIntent, Repeat, CreateCharge, WriteAhead, AskBank,
           StoreResult, ProviderThrows, WorkerDies, Settle, GoStale, BankSettles, Poll, Expire,
           CancelIntent, Cancel, LoseMessage
  <1> QED BY <1>1, <1>2, <1>3 DEF Next, People, MemberStep

LEMMA BehindKept ==
  ASSUME Types, Types', Standing, Onward, contract.status # "EXPIRED", NEW period \in Nat, period # None,
         Behind(period)
  PROVE  Behind(period)'
  <1>0. ends \in Nat /\ (Active' => ends' >= ends)
    BY DEF Types, MemberTypes, Onward
  <1>1. contract.next # period
    <2>1. CASE Active
      <3>1. period < ends /\ contract.next \in {None, ends}
        BY <2>1 DEF Standing, Behind
      <3> QED BY <1>0, <3>1
    <2>2. CASE ~Active
      BY <2>2 DEF Standing, Active, Types, MemberTypes, Contracts
    <2> QED BY <2>1, <2>2
  <1>2. Active' => period < ends'
    <2>1. ASSUME Active' PROVE period < ends'
      <3>1. period < ends /\ ends' >= ends
        BY <1>0, <2>1 DEF Onward, Behind
      <3>2. ends' \in Nat
        BY DEF Types, MemberTypes
      <3> QED BY <1>0, <3>1, <3>2
    <2> QED BY <2>1
  <1> QED BY <1>1, <1>2 DEF Onward, Behind

LEMMA NextPeriods ==
  ASSUME IInv, [Next]_vars PROVE Periods'
  <1>0. /\ Books /\ Standing /\ OneClaim /\ Periods /\ Types
        /\ astray \subseteq astray' /\ Onward /\ Types'
    BY AstrayStays, NextOnward, NextTypes DEF IInv, Books
  <1>1. SUFFICES ASSUME contract'.status # "EXPIRED", ~crossed'
                 PROVE  \A j \in Done' : Behind(j[1])' /\ \A k \in Done' \ {j} : j[1] # k[1]
    BY DEF Periods
  <1>2. contract.status # "EXPIRED" /\ ~crossed
    <2>1. UNCHANGED vars => crossed' = crossed
      BY DEF vars, past
    <2> QED BY <1>0, <1>1, <2>1, CrossedStays DEF Onward
  <1>3. ASSUME NEW j \in Done PROVE Behind(j[1])'
    <2>1. j[1] \in Nat /\ j[1] # None /\ Behind(j[1])
      BY <1>0, <1>2, <1>3, DataTypes DEF Periods, Done
    <2> QED BY <1>0, <1>2, <2>1, BehindKept
  <1>4. CASE Done' \subseteq Done
    BY <1>0, <1>2, <1>3, <1>4 DEF Periods
  <1>5. ASSUME NEW k \in Done', k \notin Done
        PROVE  \A j \in Done' : Behind(j[1])' /\ \A i \in Done' \ {j} : j[1] # i[1]
    <2>1. k \in Keys /\ k \notin astray /\ Succeeded(k)' /\ ~Succeeded(k) /\ k[1] # None
      BY <1>0, <1>5 DEF Done
    <2>2. /\ HandleSuccess(k) /\ intent[k] = "AUTHORIZED" /\ UNCHANGED <<biller, astray>>
          /\ \A j : Succeeded(j)' => Succeeded(j) \/ j = k
      BY <1>0, <2>1, Recording
    <2>3. bank[k] = "taken"
      BY <1>0, <2>1, <2>2 DEF Books, Drawing, DrawingOf
    <2>4. contract.busy /\ contract.key = k /\ Resting
      BY <1>0, <1>2, <2>1, <2>2, <2>3 DEF OneClaim, Live, Orderly, InPlay
    <2>5. Done' = Done \cup {k}
      <3>1. recorded \subseteq recorded'
        BY <2>2, Records
      <3>2. \A j : Succeeded(j)' <=> Succeeded(j) \/ j = k
        BY <2>1, <2>2, <3>1 DEF Succeeded
      <3> QED BY <2>1, <2>2, <3>2 DEF Done
    <2>6. \A j \in Done : j[1] # k[1]
      BY <1>0, <1>2, <2>1, <2>4, KeyAssumption DEF Periods, Behind
    <2>7. Behind(k[1])'
      <3>1. \A b \in Billers : biller'[b].next # k[1]
        BY <1>0, <2>1, <2>2, <2>4 DEF Resting, Types, MemberTypes, Publishing
      <3>2. ~contract'.busy
        BY <1>0, <2>1, <2>2 DEF HandleSuccess, Release, Succeeded, Types, MemberTypes, Contracts, Books
      <3>3. Active' => k[1] < ends'
        <4>1. ASSUME Active' PROVE k[1] < ends'
          <5>1. Active /\ ends # None /\ contract.key[1] <= ends
            BY <1>0, <2>1, <2>4, <4>1, KeyAssumption DEF Onward, Standing
          <5>2. ends' = Later(ends)
            BY <2>1, <2>2, <5>1 DEF HandleSuccess, Succeeded
          <5>3. ends \in Nat /\ today \in Nat /\ k[1] \in Nat
            BY <1>0, <2>1, DataTypes DEF Types, MemberTypes
          <5> QED BY <2>4, <5>1, <5>2, <5>3, LaterIsLater
        <4> QED BY <4>1
      <3> QED BY <3>1, <3>2, <3>3 DEF Behind
    <2> QED BY <1>0, <1>2, <1>3, <2>5, <2>6, <2>7 DEF Periods
  <1> QED BY <1>4, <1>5

LEMMA InitIInv == Init => IInv
  <1> SUFFICES ASSUME Init PROVE IInv
    OBVIOUS
  <1>1. Books
    BY InitBooks
  <1>2. Standing
    BY DEF Init, Standing, Active, NoFailure, Billers, IdleBiller, None
  <1>3. OneClaim
    <2>1. Backed
      BY DEF Init, Backed, Drawn
    <2>2. ASSUME NEW k \in Keys PROVE Orderly(k)
      <3>1. \A b \in Billers : ~Sends(b, k)
        BY DEF Init, Billers, IdleBiller, Sends
      <3>2. ~Sent(k) /\ Once(k) /\ ~Unmet(k)
        BY DEF Init, Sent, Once, Unmet, NoFailure
      <3>3. intent[k] = "none" /\ bank[k] = "none"
        BY DEF Init
      <3> QED BY <3>1, <3>2, <3>3 DEF Orderly, InPlay, InOnePlace
    <2> QED BY <2>1, <2>2 DEF OneClaim
  <1>4. Periods
    BY DEF Init, Periods, Done, Succeeded
  <1> QED BY <1>1, <1>2, <1>3, <1>4 DEF IInv

LEMMA NextIInv == IInv /\ [Next]_vars => IInv'
  BY NextBooks, NextStanding, NextOneClaim, NextPeriods DEF IInv, Books

LEMMA IInvDrawn == IInv => DrawnOnce
  <1> SUFFICES ASSUME IInv PROVE DrawnOnce
    OBVIOUS
  <1>1. \A k \in Keys : bank[k] # "twice"
    BY DEF IInv, Books, Drawing, DrawingOf
  <1>2. ASSUME contract.status # "EXPIRED", ~crossed,
               NEW j \in Drawn, NEW k \in Drawn \ {j}, j[1] = k[1], j[1] # None
        PROVE  FALSE
    <2>1. /\ j \in Keys /\ k \in Keys /\ j \notin astray /\ k \notin astray
          /\ intent[j] \in Open \cup {"AUTHORIZED"} /\ intent[k] \in Open \cup {"AUTHORIZED"}
      BY <1>2 DEF IInv, OneClaim, Backed, Drawn
    <2>2. /\ (Live(j) => contract.busy /\ contract.key = j)
          /\ (Live(k) => contract.busy /\ contract.key = k)
      BY <1>2, <2>1 DEF IInv, OneClaim, Orderly, InPlay, Open
    <2>3. (Live(j) \/ j \in Done) /\ (Live(k) \/ k \in Done)
      BY <1>2, <2>1 DEF Live, Done
    <2>4. ~(j \in Done /\ k \in Done)
      BY <1>2 DEF IInv, Periods
    <2>5. ~(j \in Done /\ Live(k)) /\ ~(k \in Done /\ Live(j))
      BY <1>2, <2>1, <2>2, KeyAssumption DEF IInv, Periods, Behind
    <2> QED BY <1>2, <2>2, <2>3, <2>4, <2>5
  <1> QED BY <1>1, <1>2 DEF DrawnOnce

\* The inductive invariant of billing.
THEOREM Invariance == Spec => []IInv
  BY InitIInv, NextIInv, PTL DEF Spec

\* A key is sent to the bank once.  And as long as no claim was given back for
\* another key, a contract that has not expired has one withdrawal, made or under
\* way, for each due date, however often charge, outcome and reconciliation are
\* repeated or lost; keys that went astray are left out.
THEOREM PeriodsDrawnOnce == Spec => []DrawnOnce
  BY Invariance, IInvDrawn, PTL

=============================================================================
