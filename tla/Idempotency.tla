----------------------------- MODULE Idempotency ----------------------------
(***************************************************************************)
(* The idempotency keys of apps/wallet: HttpIdempotencyInterceptor around  *)
(* the write APIs, and the rows of idempotency_keys it keeps through       *)
(* IdempotencyService.                                                     *)
(*                                                                         *)
(* A request looks its key up before its handler runs.  An unknown or      *)
(* expired key is taken (PENDING), the handler runs outside any            *)
(* transaction, and its end is stored as SUCCESS or FAILED if the row is   *)
(* PENDING then -- whoever made it PENDING.  A request that comes later is *)
(* answered from the row, or refused while the row is PENDING.             *)
(*                                                                         *)
(* A row is one key of one actor.  A request is sent once; a client that   *)
(* repeats itself is another request with the same key.                    *)
(***************************************************************************)
EXTENDS Naturals, FiniteSets

CONSTANTS
  Requests, Keys, Bodies,
  Nobody,      \* no response is stored, or none was heard
  TTL,         \* WALLET_IDEMPOTENCY_TTL_SECONDS
  \* Bounds of the model, not of the code:
  MaxTime,     \* the clock stops
  MaxFaults    \* processes that die, transactions of the repository that fail

ASSUME IdempotencyAssumption ==
  /\ Nobody \notin Requests /\ Bodies # {}
  /\ TTL \in Nat \ {0} /\ MaxTime \in Nat /\ MaxFaults \in Nat

VARIABLES
  key, body,   \* what each request carries: the record id and the request hash
  now,
  status, hash, response, expires,   \* columns of idempotency_keys
  pc,          \* where each request is
  sent,        \* the time it read before its transaction
  heard,       \* whose response it was answered with
  took,        \* history: its handler has had its effect
  faulty,      \* history: its process died, its result could not be stored, or
               \* its handler threw after the effect
  ended,       \* history: when its last step was
  faults

input == <<key, body>>
row == <<status, hash, response, expires>>
request == <<pc, sent, heard, took, faulty, ended>>
vars == <<input, now, row, request, faults>>

Statuses == {"none", "PENDING", "SUCCESS", "FAILED"}
\* Between taking its key and storing its result.
Active == {"running", "returned", "threw"}
Closed == {"answered", "replayed", "replayedFailure", "refused", "down"}
Steps == {"idle", "sent", "inserting"} \cup Active \cup Closed

Init ==
  /\ key \in [Requests -> Keys] /\ body \in [Requests -> Bodies]
  /\ now = 0
  /\ status = [k \in Keys |-> "none"]
  /\ hash = [k \in Keys |-> CHOOSE b \in Bodies : TRUE]
  /\ response = [k \in Keys |-> Nobody] /\ expires = [k \in Keys |-> 0]
  /\ pc = [r \in Requests |-> "idle"] /\ sent = [r \in Requests |-> 0]
  /\ heard = [r \in Requests |-> Nobody]
  /\ took = [r \in Requests |-> FALSE] /\ faulty = [r \in Requests |-> FALSE]
  /\ ended = [r \in Requests |-> 0]
  /\ faults = 0

-----------------------------------------------------------------------------
(* The request: IdempotencyService.beginRequest *)

Close(r, how, whose) ==
  /\ pc' = [pc EXCEPT ![r] = how]
  /\ heard' = [heard EXCEPT ![r] = whose]
  /\ ended' = [ended EXCEPT ![r] = now]

\* The time is read before the transaction, which may wait for the row.
Send(r) ==
  /\ pc[r] = "idle"
  /\ pc' = [pc EXCEPT ![r] = "sent"]
  /\ sent' = [sent EXCEPT ![r] = now]
  /\ UNCHANGED <<input, now, row, heard, took, faulty, ended, faults>>

\* No row to lock: the insert follows, and another one may come first.
FindNothing(r) ==
  /\ pc[r] = "sent" /\ status[key[r]] = "none"
  /\ pc' = [pc EXCEPT ![r] = "inserting"]
  /\ UNCHANGED <<input, now, row, sent, heard, took, faulty, ended, faults>>

Take_InThePast(r) ==
  /\ status' = [status EXCEPT ![key[r]] = "PENDING"]
  /\ response' = [response EXCEPT ![key[r]] = Nobody]
  /\ expires' = [expires EXCEPT ![key[r]] = sent[r] - TTL]
  /\ pc' = [pc EXCEPT ![r] = "running"]
  /\ UNCHANGED <<input, now, sent, heard, took, faulty, ended, faults>>

\* The row is PENDING for r from here on.
Take(r) ==
  /\ status' = [status EXCEPT ![key[r]] = "PENDING"]
  /\ response' = [response EXCEPT ![key[r]] = Nobody]
  /\ expires' = [expires EXCEPT ![key[r]] = sent[r] + TTL]
  /\ pc' = [pc EXCEPT ![r] = "running"]
  /\ UNCHANGED <<input, now, sent, heard, took, faulty, ended, faults>>

InsertAndStart_Upserts(r) ==
  /\ pc[r] = "inserting"
  /\ hash' = [hash EXCEPT ![key[r]] = body[r]]
  /\ Take(r)

InsertAndStart(r) ==
  /\ pc[r] = "inserting" /\ status[key[r]] = "none"
  /\ hash' = [hash EXCEPT ![key[r]] = body[r]]
  /\ Take(r)

\* The primary key is violated; nothing of this attempt is stored.
InsertCollides(r) ==
  /\ pc[r] = "inserting" /\ status[key[r]] # "none"
  /\ Close(r, "refused", Nobody)
  /\ UNCHANGED <<input, now, row, sent, took, faulty, faults>>

\* FOR UPDATE has found a row, which is locked until the transaction ends.
Found(r) == pc[r] = "sent" /\ status[key[r]] # "none"
SameBody(r) == hash[key[r]] = body[r]
Expired(r) == expires[key[r]] <= sent[r]

Restart_AnyStatus(r) ==
  /\ Found(r) /\ SameBody(r) /\ Expired(r)
  /\ UNCHANGED hash
  /\ Take(r)

\* PENDING and FAILED rows are started again once they have expired.
Restart(r) ==
  /\ Found(r) /\ SameBody(r)
  /\ status[key[r]] \in {"PENDING", "FAILED"} /\ Expired(r)
  /\ UNCHANGED hash
  /\ Take(r)

Refuse(r) ==
  /\ Found(r)
  /\ \/ ~SameBody(r)
     \/ status[key[r]] = "PENDING" /\ ~Expired(r)
  /\ Close(r, "refused", Nobody)
  /\ UNCHANGED <<input, now, row, sent, took, faulty, faults>>

\* A SUCCESS is replayed for ever, a FAILED until it expires.
Replay(r) ==
  /\ Found(r) /\ SameBody(r)
  /\ \/ status[key[r]] = "SUCCESS" /\ Close(r, "replayed", response[key[r]])
     \/ status[key[r]] = "FAILED" /\ ~Expired(r)
        /\ Close(r, "replayedFailure", response[key[r]])
  /\ UNCHANGED <<input, now, row, sent, took, faulty, faults>>

-----------------------------------------------------------------------------
(* The handler and what is stored of it: HttpIdempotencyInterceptor *)

HandlerReturns(r) ==
  /\ pc[r] = "running"
  /\ pc' = [pc EXCEPT ![r] = "returned"]
  /\ took' = [took EXCEPT ![r] = TRUE]
  /\ UNCHANGED <<input, now, row, sent, heard, faulty, ended, faults>>

\* A handler may throw after its effect, e.g. when a later step fails.
HandlerThrows(r) ==
  /\ pc[r] = "running"
  /\ pc' = [pc EXCEPT ![r] = "threw"]
  /\ \E effect \in BOOLEAN :
       /\ took' = [took EXCEPT ![r] = @ \/ effect]
       /\ faulty' = [faulty EXCEPT ![r] = @ \/ effect]
  /\ UNCHANGED <<input, now, row, sent, heard, ended, faults>>

Complete_Unconditional(r, end) ==
  /\ status' = [status EXCEPT ![key[r]] = end]
  /\ response' = [response EXCEPT ![key[r]] = r]
  /\ UNCHANGED <<hash, expires>>

\* updateIfPending: not tied to the attempt that made the row PENDING.
Complete(r, end) ==
  /\ IF status[key[r]] = "PENDING"
     THEN /\ status' = [status EXCEPT ![key[r]] = end]
          /\ response' = [response EXCEPT ![key[r]] = r]
     ELSE UNCHANGED <<status, response>>
  /\ UNCHANGED <<hash, expires>>

CompleteSuccess(r) ==
  /\ pc[r] = "returned"
  /\ Complete(r, "SUCCESS")
  /\ Close(r, "answered", r)
  /\ UNCHANGED <<input, now, sent, took, faulty, faults>>

\* The same chain then records a failure for a handler that succeeded.
CompleteSuccessFails(r) ==
  /\ pc[r] = "returned" /\ faults < MaxFaults
  /\ \/ Complete(r, "SUCCESS")   \* committed, but the connection is lost
     \/ UNCHANGED row
  /\ pc' = [pc EXCEPT ![r] = "threw"]
  /\ faulty' = [faulty EXCEPT ![r] = TRUE]
  /\ faults' = faults + 1
  /\ UNCHANGED <<input, now, sent, heard, took, ended>>

CompleteFailure_NotStored(r) ==
  /\ pc[r] = "threw"
  /\ Close(r, "answered", Nobody)
  /\ UNCHANGED <<input, now, row, sent, took, faulty, faults>>

CompleteFailure(r) ==
  /\ pc[r] = "threw"
  /\ Complete(r, "FAILED")
  /\ Close(r, "answered", Nobody)
  /\ UNCHANGED <<input, now, sent, took, faulty, faults>>

\* The error of completeFailure is swallowed; the client hears the first one.
CompleteFailureFails(r) ==
  /\ pc[r] = "threw" /\ faults < MaxFaults
  /\ Close(r, "answered", Nobody)
  /\ faulty' = [faulty EXCEPT ![r] = TRUE]
  /\ faults' = faults + 1
  /\ UNCHANGED <<input, now, row, sent, took>>

\* The process of a request dies; a running handler may have had its effect.
Crash(r) ==
  /\ pc[r] \in Active /\ faults < MaxFaults
  /\ Close(r, "down", Nobody)
  /\ faulty' = [faulty EXCEPT ![r] = TRUE]
  /\ \/ UNCHANGED took
     \/ pc[r] = "running" /\ took' = [took EXCEPT ![r] = TRUE]
  /\ faults' = faults + 1
  /\ UNCHANGED <<input, now, row, sent>>

Tick ==
  /\ now < MaxTime
  /\ now' = now + 1
  /\ UNCHANGED <<input, row, request, faults>>

Begin(r) ==
  \/ FindNothing(r) \/ InsertAndStart(r) \/ InsertCollides(r)
  \/ Restart(r) \/ Refuse(r) \/ Replay(r)
Finish(r) == CompleteSuccess(r) \/ CompleteFailure(r)
Fault(r) == CompleteSuccessFails(r) \/ CompleteFailureFails(r) \/ Crash(r)

Next ==
  \/ \E r \in Requests :
       \/ Send(r) \/ Begin(r) \/ HandlerReturns(r) \/ HandlerThrows(r)
       \/ Finish(r) \/ Fault(r)
  \/ Tick

Spec == Init /\ [][Next]_vars

-----------------------------------------------------------------------------
(* Properties *)

\* Types of all variables.
TypeOK ==
  /\ key \in [Requests -> Keys] /\ body \in [Requests -> Bodies]
  /\ now \in Nat /\ faults \in Nat
  /\ status \in [Keys -> Statuses] /\ hash \in [Keys -> Bodies]
  /\ response \in [Keys -> Requests \cup {Nobody}] /\ expires \in [Keys -> Nat]
  /\ pc \in [Requests -> Steps] /\ sent \in [Requests -> Nat]
  /\ heard \in [Requests -> Requests \cup {Nobody}]
  /\ took \in [Requests -> BOOLEAN] /\ faulty \in [Requests -> BOOLEAN]
  /\ ended \in [Requests -> Nat]

\* The request took its key and had not stored its result when its row expired.
Overran(r) ==
  \/ pc[r] \in Active /\ sent[r] + TTL <= now
  \/ pc[r] \in {"answered", "down"} /\ sent[r] + TTL <= ended[r]

\* Two handlers of one key run at once only if one of them has outlived the
\* expiry of the row: insertAndStart, handleExisting under FOR UPDATE.
RunsAlone ==
  \A r, q \in Requests :
    r # q /\ key[r] = key[q] /\ pc[r] \in Active /\ pc[q] \in Active
      => Overran(r) \/ Overran(q)

\* The effect of a key happens twice only after a fault of one of its requests:
\* a crash, a result that was not stored, an effect behind an exception, or a
\* handler that overran -- which may have completed the row of its successor.
OneEffect ==
  \A r, q \in Requests :
    r # q /\ key[r] = key[q] /\ took[r] /\ took[q]
      => \E x \in Requests : key[x] = key[r] /\ (faulty[x] \/ Overran(x))

\* A replayed success is the success of a request with the same key and body
\* whose handler took effect: never a failure, a guess or another body's.
ReplayIsGenuine ==
  \A r \in Requests :
    pc[r] = "replayed" =>
      \E x \in Requests :
        x = heard[r] /\ took[x] /\ key[x] = key[r] /\ body[x] = body[r]

\* A row stays PENDING only on behalf of somebody: a request that is still
\* working or one whose process died or could not store its end.
NoOrphanedKey ==
  \A k \in Keys : status[k] = "PENDING" =>
    \E r \in Requests : key[r] = k /\ (pc[r] \in Active \/ faulty[r])

\* A SUCCESS is settled once per key and every replay of a success tells that
\* one, across expiry, stale completions and storage failures.
Outcome == [k \in Keys |-> IF status[k] = "SUCCESS" THEN response[k] ELSE Nobody]
Told == [r \in Requests |-> IF pc[r] = "replayed" THEN heard[r] ELSE Nobody]
Once == INSTANCE WriteOnce WITH
  Clients <- Requests, Names <- Keys, outcome <- Outcome, told <- Told
ImplementsWriteOnce == Once!WSpec
=============================================================================
