-------------------------- MODULE IdempotencyProofs -------------------------
(***************************************************************************)
(* What the idempotency keys of Idempotency promise, for any number of     *)
(* requests, keys and faults and any expiry.                               *)
(***************************************************************************)
EXTENDS Idempotency, TLAPS

LEMMA Put ==
  ASSUME NEW S, NEW T, NEW f \in [S -> T], NEW x \in S, NEW v \in T
  PROVE  [f EXCEPT ![x] = v] \in [S -> T]
OBVIOUS

-----------------------------------------------------------------------------
(* Types *)

LEMMA InitTypeOK == Init => TypeOK
<1> SUFFICES ASSUME Init PROVE TypeOK
  OBVIOUS
<1>1. (CHOOSE b \in Bodies : TRUE) \in Bodies
  BY IdempotencyAssumption
<1>2. /\ key \in [Requests -> Keys] /\ body \in [Requests -> Bodies]
      /\ now \in Nat /\ faults \in Nat
      /\ status \in [Keys -> Statuses] /\ hash \in [Keys -> Bodies]
      /\ response \in [Keys -> Requests \cup {Nobody}] /\ expires \in [Keys -> Nat]
  BY <1>1 DEF Init, Statuses
<1>3. /\ pc \in [Requests -> Steps] /\ sent \in [Requests -> Nat]
      /\ heard \in [Requests -> Requests \cup {Nobody}]
      /\ took \in [Requests -> BOOLEAN] /\ faulty \in [Requests -> BOOLEAN]
      /\ ended \in [Requests -> Nat]
  BY DEF Init, Steps
<1> QED
  BY <1>2, <1>3 DEF TypeOK

\* The types of the rows and of the requests.
RowTypes ==
  /\ status \in [Keys -> Statuses] /\ hash \in [Keys -> Bodies]
  /\ response \in [Keys -> Requests \cup {Nobody}] /\ expires \in [Keys -> Nat]

RequestTypes ==
  /\ pc \in [Requests -> Steps] /\ sent \in [Requests -> Nat]
  /\ heard \in [Requests -> Requests \cup {Nobody}]
  /\ took \in [Requests -> BOOLEAN] /\ faulty \in [Requests -> BOOLEAN]
  /\ ended \in [Requests -> Nat]

InputTypes ==
  /\ key \in [Requests -> Keys] /\ body \in [Requests -> Bodies]
  /\ now \in Nat /\ faults \in Nat

LEMMA SplitTypes == TypeOK <=> RowTypes /\ RequestTypes /\ InputTypes
BY Zenon DEF TypeOK, RowTypes, RequestTypes, InputTypes


\* Every step of a request is one of these.
RequestNext(r) ==
  \/ Send(r) \/ FindNothing(r) \/ InsertAndStart(r) \/ InsertCollides(r)
  \/ Restart(r) \/ Refuse(r) \/ Replay(r) \/ HandlerReturns(r) \/ HandlerThrows(r)
  \/ CompleteSuccess(r) \/ CompleteFailure(r)
  \/ CompleteSuccessFails(r) \/ CompleteFailureFails(r) \/ Crash(r)

LEMMA NextCases == Next <=> (\E r \in Requests : RequestNext(r)) \/ Tick
BY Zenon DEF Next, RequestNext, Begin, Finish, Fault

LEMMA RowTyped ==
  ASSUME TypeOK, NEW r \in Requests, RequestNext(r)
  PROVE  RowTypes'
<1>0. RowTypes /\ RequestTypes /\ InputTypes /\ key[r] \in Keys /\ body[r] \in Bodies
  BY SplitTypes DEF InputTypes
<1>1. CASE UNCHANGED row
  BY <1>0, <1>1, Zenon DEF RowTypes, row
<1>2. CASE Take(r) /\ (UNCHANGED hash \/ hash' = [hash EXCEPT ![key[r]] = body[r]])
  <2>1. sent[r] + TTL \in Nat
    BY <1>0, IdempotencyAssumption DEF RequestTypes
  <2> QED
    BY <1>0, <1>2, <2>1, Put DEF RowTypes, Take, Statuses
<1>3. CASE \E end \in {"SUCCESS", "FAILED"} : Complete(r, end)
  BY <1>0, <1>3, Put DEF RowTypes, Complete, Statuses
<1> QED
  BY <1>1, <1>2, <1>3 DEF RequestNext, Send, FindNothing, InsertAndStart, InsertCollides,
     Restart, Refuse, Replay, HandlerReturns, HandlerThrows, CompleteSuccess,
     CompleteFailure, CompleteSuccessFails, CompleteFailureFails, Crash

LEMMA RequestTyped ==
  ASSUME TypeOK, NEW r \in Requests, RequestNext(r)
  PROVE  RequestTypes'
<1>0. RowTypes /\ RequestTypes /\ InputTypes
  BY SplitTypes
<1>1. CASE Send(r) \/ FindNothing(r) \/ InsertAndStart(r) \/ Restart(r)
  BY <1>0, <1>1 DEF RequestTypes, InputTypes, Send, FindNothing, InsertAndStart, Restart, Take, Steps, Active
<1>2. CASE InsertCollides(r) \/ Refuse(r)
  BY <1>0, <1>2 DEF RequestTypes, InputTypes, InsertCollides, Refuse, Close, Steps, Closed
<1>3. CASE Replay(r)
  <2>1. response[key[r]] \in Requests \cup {Nobody}
    BY <1>0 DEF RowTypes, InputTypes
  <2> QED
    BY <1>0, <1>3, <2>1 DEF RequestTypes, InputTypes, Replay, Close, Steps, Closed
<1>4. CASE HandlerReturns(r) \/ HandlerThrows(r)
  BY <1>0, <1>4, Put DEF RequestTypes, HandlerReturns, HandlerThrows, Steps, Active
<1>5. CASE CompleteSuccess(r) \/ CompleteFailure(r)
  BY <1>0, <1>5 DEF RequestTypes, InputTypes, CompleteSuccess, CompleteFailure, Close, Steps, Closed
<1>6. CASE CompleteSuccessFails(r)
  BY <1>0, <1>6, Put DEF RequestTypes, CompleteSuccessFails, Steps, Active
<1>7. CASE CompleteFailureFails(r)
  BY <1>0, <1>7, Put DEF RequestTypes, InputTypes, CompleteFailureFails, Close, Steps, Closed
<1>8. CASE Crash(r)
  BY <1>0, <1>8, Put DEF RequestTypes, InputTypes, Crash, Close, Steps, Closed
<1> QED
  BY <1>1, <1>2, <1>3, <1>4, <1>5, <1>6, <1>7, <1>8, Zenon DEF RequestNext

\* A step of a request leaves the input, the clock, the other requests and the
\* rows of other keys alone.
Alone(r) ==
  /\ UNCHANGED <<key, body, now>>
  /\ \A q \in Requests \ {r} :
       /\ pc'[q] = pc[q] /\ sent'[q] = sent[q] /\ heard'[q] = heard[q]
       /\ took'[q] = took[q] /\ faulty'[q] = faulty[q] /\ ended'[q] = ended[q]
  /\ \A k \in Keys \ {key[r]} :
       /\ status'[k] = status[k] /\ hash'[k] = hash[k]
       /\ response'[k] = response[k] /\ expires'[k] = expires[k]

LEMMA ActsAlone ==
  ASSUME TypeOK, NEW r \in Requests, RequestNext(r)
  PROVE  Alone(r)
<1>0. RowTypes /\ RequestTypes /\ InputTypes /\ key[r] \in Keys
  BY SplitTypes DEF InputTypes
<1>1. UNCHANGED <<key, body, now>>
  BY DEF RequestNext, Send, FindNothing, InsertAndStart, InsertCollides,
     Restart, Refuse, Replay, HandlerReturns, HandlerThrows, CompleteSuccess,
     CompleteFailure, CompleteSuccessFails, CompleteFailureFails, Crash, Take, input
<1>2. \A q \in Requests \ {r} :
        /\ pc'[q] = pc[q] /\ sent'[q] = sent[q] /\ heard'[q] = heard[q]
        /\ took'[q] = took[q] /\ faulty'[q] = faulty[q] /\ ended'[q] = ended[q]
  BY <1>0 DEF RequestTypes, RequestNext, Send, FindNothing, InsertAndStart, InsertCollides,
     Restart, Refuse, Replay, HandlerReturns, HandlerThrows, CompleteSuccess,
     CompleteFailure, CompleteSuccessFails, CompleteFailureFails, Crash, Take, Close
<1>3. \A k \in Keys \ {key[r]} :
        /\ status'[k] = status[k] /\ hash'[k] = hash[k]
        /\ response'[k] = response[k] /\ expires'[k] = expires[k]
  BY <1>0 DEF RowTypes, RequestNext, Send, FindNothing, InsertAndStart, InsertCollides,
     Restart, Refuse, Replay, HandlerReturns, HandlerThrows, CompleteSuccess,
     CompleteFailure, CompleteSuccessFails, CompleteFailureFails, Crash, Take, Complete, row
<1> QED
  BY <1>1, <1>2, <1>3, Zenon DEF Alone

LEMMA NextTypeOK == TypeOK /\ [Next]_vars => TypeOK'
<1> SUFFICES ASSUME TypeOK, [Next]_vars PROVE TypeOK'
  OBVIOUS
<1>1. CASE Next
  <2>1. ASSUME NEW r \in Requests, RequestNext(r) PROVE TypeOK'
    <3>1. InputTypes'
      <4>1. faults' \in Nat
        BY <2>1 DEF TypeOK, RequestNext, Send, FindNothing, InsertAndStart, InsertCollides,
           Restart, Refuse, Replay, HandlerReturns, HandlerThrows, CompleteSuccess,
           CompleteFailure, CompleteSuccessFails, CompleteFailureFails, Crash, Take
      <4> QED
        BY <2>1, <4>1, ActsAlone DEF Alone, InputTypes, TypeOK
    <3> QED
      BY <2>1, <3>1, RowTyped, RequestTyped, SplitTypes, PTL
  <2>2. CASE Tick
    BY <2>2 DEF TypeOK, Tick, input, row, request
  <2> QED
    BY <1>1, <2>1, <2>2, NextCases, Zenon
<1>2. CASE UNCHANGED vars
  BY <1>2 DEF TypeOK, vars, input, row, request
<1> QED
  BY <1>1, <1>2

\* The keys and requests are well typed in every reachable state.
THEOREM TypeCorrect == Spec => []TypeOK
BY InitTypeOK, NextTypeOK, PTL DEF Spec

-----------------------------------------------------------------------------
(* The inductive invariant *)

\* Nothing has gone wrong with the requests of a key.
Clean(k) == \A x \in Requests : key[x] = k => ~faulty[x] /\ ~Overran(x)

\* The clock was read in the past.
InPast(r) == sent[r] <= now

\* The row of a working request is its own until it expires.
Owns(r) ==
  pc[r] \in Active =>
    /\ status[key[r]] # "none" /\ hash[key[r]] = body[r]
    /\ Overran(r) \/ expires[key[r]] = sent[r] + TTL

\* While nothing has gone wrong, a working request finds its row PENDING, and an
\* effect is about to be stored or is stored.
Works(r) == pc[r] \in Active /\ Clean(key[r]) => status[key[r]] = "PENDING"
Stored(r) == status[key[r]] = "SUCCESS" /\ response[key[r]] = r
HasEffect(r) ==
  /\ pc[r] = "returned" => took[r]
  /\ took[r] /\ Clean(key[r]) => pc[r] = "returned" \/ Stored(r)

\* A SUCCESS, and what is replayed of it, is genuine.
Settled(k) ==
  status[k] = "SUCCESS" =>
    \E x \in Requests : x = response[k] /\ took[x] /\ key[x] = k /\ body[x] = hash[k]
Genuine(r) ==
  pc[r] = "replayed" =>
    \E x \in Requests : x = heard[r] /\ took[x] /\ key[x] = key[r] /\ body[x] = body[r]

Inv ==
  /\ TypeOK
  /\ \A r \in Requests : InPast(r) /\ Owns(r) /\ Works(r) /\ HasEffect(r) /\ Genuine(r)
  /\ \A k \in Keys : Settled(k)
  /\ RunsAlone

LEMMA InitInv == Init => Inv
<1> SUFFICES ASSUME Init PROVE Inv
  OBVIOUS
<1>1. TypeOK
  BY InitTypeOK
<1>2. \A r \in Requests : pc[r] = "idle" /\ ~took[r] /\ sent[r] = 0 /\ now = 0
  BY DEF Init
<1>3. \A k \in Keys : status[k] = "none"
  BY DEF Init
<1>4. \A r \in Requests : InPast(r) /\ Owns(r) /\ Works(r) /\ HasEffect(r) /\ Genuine(r)
  BY <1>2 DEF InPast, Owns, Works, HasEffect, Genuine, Active
<1>5. (\A k \in Keys : Settled(k)) /\ RunsAlone
  BY <1>2, <1>3 DEF Settled, RunsAlone, Active
<1> QED
  BY <1>1, <1>4, <1>5 DEF Inv

\* What a step of r does to r and to its row.
LEMMA OwnStep ==
  ASSUME TypeOK, NEW r \in Requests, RequestNext(r)
  PROVE  /\ took[r] => took'[r]
         /\ faulty[r] => faulty'[r]
         /\ pc[r] \in {"idle", "sent", "inserting"} \cup Active
         /\ IF pc[r] = "idle" THEN sent'[r] = now ELSE sent'[r] = sent[r]
         /\ pc'[r] \in Closed => ended'[r] = now
         /\ pc'[r] \in {"answered", "down"} => pc[r] \in Active
         /\ pc[r] \in Active => pc'[r] \in Active \cup {"answered", "down"}
<1>0. RowTypes /\ RequestTypes /\ InputTypes
  BY SplitTypes
<1> USE <1>0 DEF RequestTypes, Active, Closed
<1>1. CASE Send(r) \/ FindNothing(r) \/ InsertAndStart(r) \/ Restart(r)
  BY <1>1 DEF Send, FindNothing, InsertAndStart, Restart, Take, Found
<1>2. CASE InsertCollides(r) \/ Refuse(r) \/ Replay(r)
  BY <1>2 DEF InsertCollides, Refuse, Replay, Close, Found
<1>3. CASE HandlerReturns(r) \/ HandlerThrows(r)
  BY <1>3 DEF HandlerReturns, HandlerThrows
<1>4. CASE CompleteSuccess(r) \/ CompleteFailure(r) \/ CompleteSuccessFails(r) \/ CompleteFailureFails(r)
  BY <1>4 DEF CompleteSuccess, CompleteFailure, CompleteSuccessFails, CompleteFailureFails, Close
<1>5. CASE Crash(r)
  BY <1>5 DEF Crash, Close
<1> QED
  BY <1>1, <1>2, <1>3, <1>4, <1>5, Zenon DEF RequestNext

\* Nothing that went wrong is forgotten.
LEMMA Monotonic ==
  ASSUME TypeOK, NEW r \in Requests, RequestNext(r)
  PROVE  /\ \A x \in Requests : (took[x] => took'[x]) /\ (faulty[x] => faulty'[x])
         /\ \A x \in Requests : Overran(x) => Overran(x)'
         /\ \A k \in Keys : Clean(k)' => Clean(k)
<1>1. Alone(r)
  BY ActsAlone
<1>2. \A x \in Requests : (took[x] => took'[x]) /\ (faulty[x] => faulty'[x])
  BY <1>1, OwnStep DEF Alone
<1>3. ASSUME NEW x \in Requests, Overran(x) PROVE Overran(x)'
  <2>1. CASE x # r
    BY <1>1, <1>3, <2>1 DEF Alone, Overran, Active
  <2>2. CASE x = r
    <3>1. pc[r] \in Active /\ sent[r] + TTL <= now /\ sent'[r] = sent[r]
      BY <1>3, <2>2, OwnStep DEF Overran, Active
    <3> QED
      BY <1>1, <2>2, <3>1, OwnStep DEF Alone, Overran, Active, Closed
  <2> QED
    BY <2>1, <2>2
<1>4. \A k \in Keys : Clean(k)' => Clean(k)
  BY <1>1, <1>2, <1>3 DEF Clean, Alone
<1> QED
  BY <1>2, <1>3, <1>4

\* What can happen to the row of a request, and what the request is doing then.
LEMMA RowStep ==
  ASSUME TypeOK, NEW r \in Requests, RequestNext(r)
  PROVE  LET k == key[r] IN
         \/ /\ status'[k] = status[k] /\ hash'[k] = hash[k]
            /\ response'[k] = response[k] /\ expires'[k] = expires[k]
            /\ pc'[r] \in Active => pc[r] \in Active
         \/ /\ pc[r] \notin Active /\ pc'[r] = "running" /\ sent'[r] = sent[r]
            /\ \/ status[k] = "none" /\ hash'[k] = body[r]
               \/ /\ status[k] \in {"PENDING", "FAILED"} /\ expires[k] <= sent[r]
                  /\ hash[k] = body[r] /\ hash'[k] = hash[k]
            /\ status'[k] = "PENDING" /\ expires'[k] = sent[r] + TTL
         \/ /\ pc[r] \in Active /\ status[k] = "PENDING"
            /\ \/ pc[r] = "returned" /\ status'[k] = "SUCCESS"
               \/ pc[r] = "threw" /\ status'[k] = "FAILED"
            /\ pc'[r] \in Active => faulty'[r]
            /\ response'[k] = r /\ hash'[k] = hash[k] /\ expires'[k] = expires[k]
<1>0. RowTypes /\ RequestTypes /\ InputTypes /\ key[r] \in Keys
  BY SplitTypes DEF InputTypes
<1> USE <1>0 DEF RequestTypes, RowTypes, Active, Statuses
<1>1. CASE UNCHANGED row /\ (pc'[r] \in Active => pc[r] \in Active)
  BY <1>1 DEF row
<1>2. CASE InsertAndStart(r) \/ Restart(r)
  BY <1>2 DEF InsertAndStart, Restart, Take, Found, SameBody, Expired
<1>3. ASSUME NEW end \in {"SUCCESS", "FAILED"}, Complete(r, end),
             IF end = "SUCCESS" THEN pc[r] = "returned" ELSE pc[r] = "threw",
             pc'[r] \in Active => faulty'[r]
      PROVE  LET k == key[r] IN
         \/ /\ status'[k] = status[k] /\ hash'[k] = hash[k]
            /\ response'[k] = response[k] /\ expires'[k] = expires[k]
            /\ pc'[r] \in Active => pc[r] \in Active
         \/ /\ pc[r] \in Active /\ status[k] = "PENDING"
            /\ \/ pc[r] = "returned" /\ status'[k] = "SUCCESS"
               \/ pc[r] = "threw" /\ status'[k] = "FAILED"
            /\ pc'[r] \in Active => faulty'[r]
            /\ response'[k] = r /\ hash'[k] = hash[k] /\ expires'[k] = expires[k]
  <2>1. CASE status[key[r]] = "PENDING"
    BY <1>3, <2>1 DEF Complete
  <2>2. CASE status[key[r]] # "PENDING"
    BY <1>3, <2>2 DEF Complete
  <2> QED
    BY <2>1, <2>2
<1>4. CASE CompleteSuccess(r) \/ CompleteFailure(r)
  BY <1>3, <1>4 DEF CompleteSuccess, CompleteFailure, Close
<1>5. CASE CompleteSuccessFails(r)
  BY <1>1, <1>3, <1>5 DEF CompleteSuccessFails
<1>6. CASE Send(r) \/ FindNothing(r) \/ InsertCollides(r) \/ Refuse(r) \/ Replay(r)
  BY <1>1, <1>6 DEF Send, FindNothing, InsertCollides, Refuse, Replay, Close
<1>7. CASE HandlerReturns(r) \/ HandlerThrows(r) \/ CompleteFailureFails(r) \/ Crash(r)
  BY <1>1, <1>7 DEF HandlerReturns, HandlerThrows, CompleteFailureFails, Crash, Close
<1> QED
  BY <1>2, <1>4, <1>5, <1>6, <1>7, Zenon DEF RequestNext

\* Requests of a key that work side by side have overrun.
LEMMA RunsAloneStep ==
  ASSUME Inv, NEW r \in Requests, RequestNext(r)
  PROVE  /\ \A q \in Requests : Owns(q)'
         /\ RunsAlone'
<1>0. /\ TypeOK /\ Alone(r)
      /\ \A q \in Requests : Owns(q) /\ InPast(q)
      /\ RunsAlone
      /\ RowTypes /\ RequestTypes /\ InputTypes
  BY ActsAlone, SplitTypes DEF Inv
<1>1. \A q \in Requests : Overran(q) => Overran(q)'
  BY <1>0, Monotonic
\* Who works on a row that r takes has overrun.
<1>2. ASSUME NEW q \in Requests, q # r, key[q] = key[r], pc[q] \in Active,
             pc[r] \notin Active, pc'[r] \in Active
      PROVE  Overran(q)
  <2>1. expires[key[q]] <= sent[r] /\ sent[r] <= now /\ sent[q] \in Nat /\ sent[r] \in Nat
    BY <1>0, <1>2, RowStep DEF Owns, InPast, RequestTypes
  <2>2. CASE expires[key[q]] = sent[q] + TTL
    BY <1>0, <1>2, <2>1, <2>2, IdempotencyAssumption DEF Overran, InputTypes
  <2> QED
    BY <1>0, <1>2, <2>2 DEF Owns
<1>3. ASSUME NEW q \in Requests PROVE Owns(q)'
  <2>1. CASE q # r /\ key[q] # key[r]
    BY <1>0, <1>1, <2>1 DEF Owns, Alone, InputTypes
  <2>2. CASE q # r /\ key[q] = key[r]
    <3> SUFFICES ASSUME pc'[q] \in Active PROVE Owns(q)'
      BY DEF Owns
    <3>1. /\ pc[q] \in Active /\ sent'[q] = sent[q] /\ key'[q] = key[r] /\ body'[q] = body[q]
          /\ status[key[r]] # "none" /\ hash[key[r]] = body[q]
          /\ Overran(q) \/ expires[key[r]] = sent[q] + TTL
      BY <1>0, <2>2 DEF Alone, Owns
    <3>2. status'[key[r]] # "none" /\ hash'[key[r]] = hash[key[r]]
      BY <1>0, <3>1, RowStep
    <3>3. Overran(q)' \/ expires'[key[r]] = sent[q] + TTL
      <4>1. CASE pc[r] \notin Active /\ pc'[r] \in Active
        BY <1>1, <1>2, <2>2, <3>1, <4>1
      <4>2. CASE ~(pc[r] \notin Active /\ pc'[r] \in Active)
        <5>1. expires'[key[r]] = expires[key[r]]
          BY <1>0, <4>2, RowStep DEF Active
        <5> QED
          BY <1>1, <3>1, <5>1
      <4> QED
        BY <4>1, <4>2
    <3> QED
      BY <3>1, <3>2, <3>3 DEF Owns
  <2>3. CASE q = r
    <3> SUFFICES ASSUME pc'[r] \in Active PROVE Owns(r)'
      BY <2>3 DEF Owns
    <3>1. key'[r] = key[r] /\ body'[r] = body[r]
      BY <1>0 DEF Alone
    <3>2. CASE pc[r] \in Active
      <4>1. sent'[r] = sent[r]
        BY <1>0, <3>2, OwnStep DEF Active
      <4>2. /\ status[key[r]] # "none" /\ hash[key[r]] = body[r]
            /\ Overran(r) \/ expires[key[r]] = sent[r] + TTL
        BY <1>0, <3>2 DEF Owns
      <4>3. /\ status'[key[r]] # "none" /\ hash'[key[r]] = body[r]
            /\ expires'[key[r]] = expires[key[r]]
        BY <1>0, <3>2, <4>2, RowStep
      <4> QED
        BY <1>1, <2>3, <3>1, <4>1, <4>2, <4>3 DEF Owns
    <3>3. CASE pc[r] \notin Active
      BY <1>0, <2>3, <3>1, <3>3, RowStep DEF Owns
    <3> QED
      BY <3>2, <3>3
  <2> QED
    BY <2>1, <2>2, <2>3
<1>4. ASSUME NEW p \in Requests, NEW q \in Requests, p # q, key[p] = key[q],
             pc'[p] \in Active, pc'[q] \in Active
      PROVE  Overran(p)' \/ Overran(q)'
  <2>1. CASE pc[p] \in Active /\ pc[q] \in Active
    BY <1>0, <1>1, <1>4, <2>1 DEF RunsAlone
  <2>2. CASE pc[p] \notin Active \/ pc[q] \notin Active
    BY <1>0, <1>1, <1>2, <1>4, <2>2 DEF Alone
  <2> QED
    BY <2>1, <2>2
<1>5. RunsAlone'
  BY <1>0, <1>4 DEF RunsAlone, Alone
<1> QED
  BY <1>3, <1>5

\* A request that stops working has stored its end, or is faulty.
LEMMA Closes ==
  ASSUME TypeOK, NEW r \in Requests, RequestNext(r), pc[r] \in Active, pc'[r] \notin Active
  PROVE  faulty'[r] \/ status'[key[r]] # "PENDING"
<1>0. RowTypes /\ RequestTypes /\ InputTypes /\ key[r] \in Keys
  BY SplitTypes DEF InputTypes
<1> USE <1>0 DEF RequestTypes, RowTypes, Active
<1>1. CASE Send(r) \/ FindNothing(r) \/ InsertAndStart(r) \/ Restart(r)
           \/ InsertCollides(r) \/ Refuse(r) \/ Replay(r)
  BY <1>1 DEF Send, FindNothing, InsertAndStart, Restart, InsertCollides, Refuse, Replay, Found
<1>2. CASE HandlerReturns(r) \/ HandlerThrows(r) \/ CompleteSuccessFails(r)
  BY <1>2 DEF HandlerReturns, HandlerThrows, CompleteSuccessFails
<1>3. CASE CompleteSuccess(r) \/ CompleteFailure(r)
  BY <1>3 DEF CompleteSuccess, CompleteFailure, Complete
<1>4. CASE CompleteFailureFails(r) \/ Crash(r)
  BY <1>4 DEF CompleteFailureFails, Crash
<1> QED
  BY <1>1, <1>2, <1>3, <1>4, Zenon DEF RequestNext

\* A clean key has one working request, its row is PENDING, and what has had an
\* effect is stored.
LEMMA CleanStep ==
  ASSUME Inv, NEW r \in Requests, RequestNext(r), NEW q \in Requests
  PROVE  Works(q)' /\ HasEffect(q)'
<1>0. /\ TypeOK /\ Alone(r)
      /\ \A x \in Requests : Works(x) /\ HasEffect(x) /\ Owns(x)
      /\ RunsAlone
      /\ RowTypes /\ RequestTypes /\ InputTypes
      /\ key[q] \in Keys /\ key[r] \in Keys
  BY ActsAlone, SplitTypes DEF Inv, InputTypes
<1>1. key' = key
  BY <1>0 DEF Alone
<1>2. Clean(key[q])' => Clean(key[q])
  BY <1>0, <1>1, Monotonic
\* Two working requests of a clean key do not exist.
<1>3. ASSUME NEW x \in Requests, NEW y \in Requests, Clean(key[x]), key[x] = key[y],
             pc[x] \in Active, pc[y] \in Active
      PROVE  x = y
  BY <1>0, <1>3 DEF RunsAlone, Clean
<1>4. Works(q)'
  <2> SUFFICES ASSUME pc'[q] \in Active, Clean(key[q])' PROVE status'[key[q]] = "PENDING"
    BY <1>1 DEF Works
  <2>1. CASE key[q] # key[r]
    BY <1>0, <1>2, <2>1 DEF Works, Alone
  <2>2. CASE key[q] = key[r] /\ q # r
    <3>1. pc[q] \in Active /\ Clean(key[q]) /\ status[key[q]] = "PENDING"
      BY <1>0, <1>2, <2>2 DEF Works, Alone
    <3>2. pc[r] \notin Active
      BY <1>3, <2>2, <3>1
    <3> QED
      BY <1>0, <2>2, <3>1, <3>2, RowStep
  <2>3. CASE q = r
    <3>1. CASE pc[r] \notin Active
      BY <1>0, <2>3, <3>1, RowStep
    <3>2. CASE pc[r] \in Active
      <4>1. status[key[r]] = "PENDING"
        BY <1>0, <1>2, <2>3, <3>2 DEF Works
      <4>2. ~faulty'[r]
        BY <1>1, <2>3 DEF Clean
      <4> QED
        BY <1>0, <2>3, <3>2, <4>1, <4>2, RowStep
    <3> QED
      BY <3>1, <3>2
  <2> QED
    BY <2>1, <2>2, <2>3
\* An effect is new in the step of a handler, which returns or is faulty.
<1>5. /\ pc'[r] = "returned" => took'[r]
      /\ took'[r] => took[r] \/ pc'[r] = "returned" \/ faulty'[r]
      /\ pc[r] = "returned" => pc'[r] = "returned" \/ faulty'[r] \/ status'[key[r]] # "PENDING"
  <2> USE <1>0 DEF RequestTypes, RowTypes
  <2>1. CASE Send(r) \/ FindNothing(r) \/ InsertAndStart(r) \/ Restart(r)
    BY <2>1 DEF Send, FindNothing, InsertAndStart, Restart, Take, Found
  <2>2. CASE InsertCollides(r) \/ Refuse(r) \/ Replay(r)
    BY <2>2 DEF InsertCollides, Refuse, Replay, Close, Found
  <2>3. CASE HandlerReturns(r) \/ HandlerThrows(r)
    BY <2>3 DEF HandlerReturns, HandlerThrows
  <2>4. CASE CompleteSuccess(r)
    BY <2>4 DEF CompleteSuccess, Complete, Close
  <2>5. CASE CompleteFailure(r)
    BY <2>5 DEF CompleteFailure, Close
  <2>6. CASE CompleteSuccessFails(r) \/ CompleteFailureFails(r) \/ Crash(r)
    BY <2>6 DEF CompleteSuccessFails, CompleteFailureFails, Crash, Close
  <2> QED
    BY <2>1, <2>2, <2>3, <2>4, <2>5, <2>6, Zenon DEF RequestNext
<1>6. HasEffect(q)'
  <2>1. pc'[q] = "returned" => took'[q]
    BY <1>0, <1>5 DEF HasEffect, Alone
  <2> SUFFICES ASSUME took'[q], Clean(key[q])', pc'[q] # "returned"
               PROVE  status'[key[q]] = "SUCCESS" /\ response'[key[q]] = q
    BY <1>1, <2>1 DEF HasEffect, Stored
  <2>2. took[q]
    BY <1>0, <1>1, <1>5 DEF Alone, Clean
  <2>3. pc[q] = "returned" \/ Stored(q)
    BY <1>0, <1>2, <2>2 DEF HasEffect
  <2>4. CASE Stored(q)
    BY <1>0, <2>4, RowStep DEF Alone, Stored
  <2>5. CASE pc[q] = "returned"
    <3>1. q = r /\ ~faulty'[r] /\ pc[r] \in Active /\ status[key[r]] = "PENDING"
      BY <1>0, <1>1, <1>2, <2>5 DEF Alone, Clean, Works, Active
    <3> QED
      BY <1>0, <1>5, <2>5, <3>1, RowStep
  <2> QED
    BY <2>3, <2>4, <2>5
<1> QED
  BY <1>4, <1>6

\* What is stored and replayed as a success was one.
LEMMA GenuineStep ==
  ASSUME Inv, NEW r \in Requests, RequestNext(r)
  PROVE  /\ \A k \in Keys : Settled(k)'
         /\ \A q \in Requests : Genuine(q)' /\ InPast(q)'
<1>0. /\ TypeOK /\ Alone(r)
      /\ \A q \in Requests : Genuine(q) /\ InPast(q) /\ Owns(q) /\ HasEffect(q)
      /\ \A k \in Keys : Settled(k)
      /\ RowTypes /\ RequestTypes /\ InputTypes /\ key[r] \in Keys
      /\ \A x \in Requests : took[x] => took'[x]
  BY ActsAlone, SplitTypes, Monotonic DEF Inv, InputTypes
<1>1. key' = key /\ body' = body /\ now' = now
  BY <1>0 DEF Alone
<1>2. ASSUME NEW k \in Keys PROVE Settled(k)'
  <2> SUFFICES ASSUME status'[k] = "SUCCESS"
               PROVE  \E x \in Requests : x = response'[k] /\ took'[x] /\ key[x] = k /\ body[x] = hash'[k]
    BY <1>1 DEF Settled
  <2>1. CASE status[k] = "SUCCESS"
    <3>1. response'[k] = response[k] /\ hash'[k] = hash[k]
      <4>1. CASE k = key[r]
        BY <1>0, <2>1, <4>1, RowStep
      <4>2. CASE k # key[r]
        BY <1>0, <4>2 DEF Alone
      <4> QED
        BY <4>1, <4>2
    <3> QED
      BY <1>0, <2>1, <3>1 DEF Settled
  <2>2. CASE status[k] # "SUCCESS"
    <3>1. k = key[r]
      BY <1>0, <2>2 DEF Alone
    <3>2. pc[r] = "returned" /\ response'[k] = r /\ hash'[k] = hash[k]
      BY <1>0, <2>2, <3>1, RowStep
    <3>3. took[r] /\ body[r] = hash[k]
      BY <1>0, <3>1, <3>2 DEF HasEffect, Owns, Active
    <3> QED
      BY <1>0, <3>1, <3>2, <3>3
  <2> QED
    BY <2>1, <2>2
<1>3. ASSUME NEW q \in Requests PROVE Genuine(q)'
  <2> SUFFICES ASSUME pc'[q] = "replayed"
               PROVE  \E x \in Requests : x = heard'[q] /\ took'[x] /\ key[x] = key[q] /\ body[x] = body[q]
    BY <1>1 DEF Genuine
  <2>1. CASE q # r
    BY <1>0, <2>1 DEF Genuine, Alone
  <2>2. CASE q = r
    <3>1. Replay(r)
      BY <1>0, <2>2, Zenon DEF RequestTypes, RequestNext, Send, FindNothing, InsertAndStart,
         InsertCollides, Restart, Refuse, HandlerReturns, HandlerThrows, CompleteSuccess,
         CompleteFailure, CompleteSuccessFails, CompleteFailureFails, Crash, Close, Take
    <3>2. /\ status[key[r]] = "SUCCESS" /\ hash[key[r]] = body[r]
          /\ heard'[r] = response[key[r]]
      BY <1>0, <2>2, <3>1 DEF Replay, Close, SameBody, RequestTypes
    <3> QED
      BY <1>0, <2>2, <3>2 DEF Settled
  <2> QED
    BY <2>1, <2>2
<1>4. ASSUME NEW q \in Requests PROVE InPast(q)'
  BY <1>0, <1>1, OwnStep DEF InPast, Alone, RequestTypes, InputTypes
<1> QED
  BY <1>2, <1>3, <1>4

LEMMA NextInv == Inv /\ [Next]_vars => Inv'
<1> SUFFICES ASSUME Inv, [Next]_vars PROVE Inv'
  OBVIOUS
<1>0. TypeOK'
  BY NextTypeOK DEF Inv
<1>1. ASSUME NEW r \in Requests, RequestNext(r) PROVE Inv'
  <2>1. \A q \in Requests : Owns(q)' /\ Works(q)' /\ HasEffect(q)' /\ Genuine(q)' /\ InPast(q)'
    BY <1>1, RunsAloneStep, CleanStep, GenuineStep
  <2>2. RunsAlone' /\ \A k \in Keys : Settled(k)'
    BY <1>1, RunsAloneStep, GenuineStep
  <2> QED
    BY <1>0, <2>1, <2>2 DEF Inv
<1>2. CASE Tick
  <2>1. /\ now' = now + 1 /\ now \in Nat /\ UNCHANGED <<key, body, row, request>>
        /\ \A q \in Requests : sent[q] \in Nat /\ ended[q] \in Nat
    BY <1>2 DEF Tick, Inv, TypeOK, input
  <2>2. \A q \in Requests : Overran(q) => Overran(q)'
    BY <2>1, IdempotencyAssumption DEF Overran, row, request
  <2>3. \A k \in Keys : Clean(k)' => Clean(k)
    BY <2>1, <2>2 DEF Clean, row, request
  <2>4. ASSUME NEW q \in Requests
        PROVE  Owns(q)' /\ Works(q)' /\ HasEffect(q)' /\ Genuine(q)' /\ InPast(q)'
    <3>1. Owns(q) /\ Works(q) /\ HasEffect(q) /\ Genuine(q) /\ InPast(q) /\ key[q] \in Keys
      BY DEF Inv, TypeOK
    <3>2. InPast(q)'
      BY <2>1, <3>1 DEF InPast, row, request
    <3>3. Owns(q)'
      BY <2>1, <2>2, <3>1 DEF Owns, row, request
    <3>4. Works(q)' /\ HasEffect(q)'
      BY <2>1, <2>3, <3>1 DEF Works, HasEffect, Stored, row, request
    <3>5. Genuine(q)'
      BY <2>1, <3>1 DEF Genuine, row, request
    <3> QED
      BY <3>2, <3>3, <3>4, <3>5
  <2>5. \A k \in Keys : Settled(k)'
    BY <2>1 DEF Inv, Settled, row, request
  <2>6. RunsAlone'
    BY <2>1, <2>2 DEF Inv, RunsAlone, row, request
  <2> QED
    BY <1>0, <2>4, <2>5, <2>6 DEF Inv
<1>3. CASE UNCHANGED vars
  BY <1>0, <1>3 DEF Inv, InPast, Owns, Works, HasEffect, Genuine, Settled, RunsAlone, Clean,
     Stored, Overran, vars, input, row, request
<1> QED
  BY <1>1, <1>2, <1>3, NextCases, Zenon

\* The inductive invariant holds for ever.
THEOREM Invariance == Spec => []Inv
BY InitInv, NextInv, PTL DEF Spec

\* Two handlers of a key run at once only if one has outlived its row.
THEOREM NeverSideBySide == Spec => []RunsAlone
<1>1. Inv => RunsAlone
  BY DEF Inv
<1> QED
  BY <1>1, Invariance, PTL

\* The effect of a key happens twice only after a fault of one of its requests.
THEOREM EffectOnce == Spec => []OneEffect
<1>1. Inv => OneEffect
  <2> SUFFICES ASSUME Inv, NEW r \in Requests, NEW q \in Requests, r # q, key[r] = key[q],
                      took[r], took[q], Clean(key[r])
               PROVE  FALSE
    BY DEF OneEffect, Clean
  <2>1. /\ HasEffect(r) /\ HasEffect(q) /\ Works(r) /\ Works(q) /\ RunsAlone
    BY DEF Inv
  <2>2. CASE pc[r] = "returned" /\ pc[q] = "returned"
    BY <2>1, <2>2 DEF RunsAlone, Clean, Active
  <2>3. CASE pc[r] # "returned" \/ pc[q] # "returned"
    BY <2>1, <2>3 DEF HasEffect, Stored, Works, Active
  <2> QED
    BY <2>2, <2>3
<1> QED
  BY <1>1, Invariance, PTL

\* What is replayed as a success is the success of the same request.
THEOREM ReplaysAreGenuine == Spec => []ReplayIsGenuine
<1>1. Inv => ReplayIsGenuine
  BY DEF Inv, Genuine, ReplayIsGenuine
<1> QED
  BY <1>1, Invariance, PTL

\* A row that is PENDING belongs to somebody who works or has gone down.
THEOREM NeverOrphaned == Spec => []NoOrphanedKey
<1>1. Init => NoOrphanedKey
  BY DEF Init, NoOrphanedKey
<1>2. Inv /\ NoOrphanedKey /\ [Next]_vars => NoOrphanedKey'
  <2> SUFFICES ASSUME Inv, NoOrphanedKey, [Next]_vars, NEW k \in Keys, status'[k] = "PENDING"
               PROVE  \E q \in Requests : key'[q] = k /\ (pc'[q] \in Active \/ faulty'[q])
    BY DEF NoOrphanedKey
  <2>1. ASSUME NEW r \in Requests, RequestNext(r)
        PROVE  \E q \in Requests : key'[q] = k /\ (pc'[q] \in Active \/ faulty'[q])
    <3>0. TypeOK /\ Alone(r) /\ \A q \in Requests : faulty[q] => faulty'[q]
      BY <2>1, ActsAlone, Monotonic DEF Inv
    <3>1. CASE k = key[r] /\ pc'[r] \in Active
      BY <3>0, <3>1 DEF Alone
    <3>2. CASE ~(k = key[r] /\ pc'[r] \in Active)
      <4>1. status[k] = "PENDING"
        BY <2>1, <3>0, <3>2, RowStep DEF Alone, Active
      <4>2. PICK q \in Requests : key[q] = k /\ (pc[q] \in Active \/ faulty[q])
        BY <4>1 DEF NoOrphanedKey
      <4>3. CASE q # r \/ faulty[q]
        BY <3>0, <4>2, <4>3 DEF Alone
      <4>4. CASE q = r /\ ~faulty[q]
        <5>1. k = key[r] /\ key'[r] = key[r] /\ pc[r] \in Active /\ pc'[r] \notin Active
          BY <3>0, <3>2, <4>2, <4>4 DEF Alone
        <5>2. faulty'[r]
          BY <2>1, <3>0, <5>1, Closes
        <5> QED
          BY <5>1, <5>2
      <4> QED
        BY <4>3, <4>4
    <3> QED
      BY <3>1, <3>2
  <2>2. CASE Tick \/ UNCHANGED vars
    BY <2>2 DEF NoOrphanedKey, Tick, vars, input, row, request
  <2> QED
    BY <2>1, <2>2, NextCases, Zenon
<1> QED
  BY <1>1, <1>2, Invariance, PTL DEF Spec

-----------------------------------------------------------------------------
(* The abstract specification *)

\* Every step settles a key, tells a request, or does neither.
THEOREM Implementation == Spec => ImplementsWriteOnce
<1>1. Init => Once!WInit
  BY DEF Init, Once!WInit, Outcome, Told
<1>2. Inv /\ [Next]_vars => [Once!WNext]_(Once!writeOnceVars)
  <2> SUFFICES ASSUME Inv, [Next]_vars PROVE Once!WNext \/ UNCHANGED <<Outcome, Told>>
    BY DEF Once!writeOnceVars
  <2>1. ASSUME NEW r \in Requests, RequestNext(r)
        PROVE  Once!WNext \/ UNCHANGED <<Outcome, Told>>
    <3>0. /\ TypeOK /\ Alone(r) /\ key[r] \in Keys /\ Settled(key[r])
          /\ RequestTypes /\ RowTypes
      BY <2>1, ActsAlone, SplitTypes DEF Inv, TypeOK
    <3>1. CASE Replay(r) /\ pc'[r] = "replayed"
      <4>1. /\ UNCHANGED row /\ pc[r] = "sent"
            /\ status[key[r]] = "SUCCESS" /\ heard'[r] = response[key[r]]
        BY <3>0, <3>1 DEF Replay, Close, Found, RequestTypes
      <4>2. Outcome' = Outcome /\ Outcome[key[r]] = response[key[r]] /\ Outcome[key[r]] # Nobody
        BY <3>0, <4>1, IdempotencyAssumption DEF Outcome, row, Settled
      <4>3. Told[r] = Nobody /\ Told' = [Told EXCEPT ![r] = Outcome[key[r]]]
        BY <3>0, <3>1, <4>1, <4>2 DEF Told, Alone
      <4>4. Once!Tell(key[r], r)
        BY <4>2, <4>3 DEF Once!Tell
      <4> QED
        BY <3>0, <4>4 DEF Once!WNext
    <3>2. CASE status'[key[r]] = "SUCCESS" /\ status[key[r]] # "SUCCESS"
      <4>1. pc[r] \in Active /\ response'[key[r]] = r
        BY <2>1, <3>0, <3>2, RowStep
      <4>2. pc[r] # "replayed" /\ pc'[r] # "replayed"
        BY <2>1, <3>0, <4>1, OwnStep DEF Active
      <4>3. Told' = Told
        BY <3>0, <4>2 DEF Told, Alone
      <4>4. Outcome[key[r]] = Nobody /\ Outcome' = [Outcome EXCEPT ![key[r]] = r]
        BY <3>0, <3>2, <4>1 DEF Outcome, Alone
      <4>5. Once!Settle(key[r], r)
        BY <4>3, <4>4 DEF Once!Settle
      <4> QED
        BY <3>0, <4>5 DEF Once!WNext
    <3>3. CASE /\ ~(Replay(r) /\ pc'[r] = "replayed")
               /\ ~(status'[key[r]] = "SUCCESS" /\ status[key[r]] # "SUCCESS")
      <4>1. status[key[r]] = "SUCCESS" => status'[key[r]] = "SUCCESS" /\ response'[key[r]] = response[key[r]]
        BY <2>1, <3>0, RowStep
      <4>2. Outcome' = Outcome
        BY <3>0, <3>3, <4>1 DEF Outcome, Alone
      <4>3. pc[r] # "replayed" /\ pc'[r] # "replayed"
        <5>1. pc[r] # "replayed"
          BY <2>1, <3>0, OwnStep DEF Active
        <5>2. pc'[r] = "replayed" => Replay(r)
          BY <2>1, <3>0, Zenon DEF RequestTypes, RequestNext, Send, FindNothing, InsertAndStart,
             InsertCollides, Restart, Refuse, HandlerReturns, HandlerThrows, CompleteSuccess,
             CompleteFailure, CompleteSuccessFails, CompleteFailureFails, Crash, Close, Take
        <5> QED
          BY <3>3, <5>1, <5>2
      <4>4. Told' = Told
        BY <3>0, <4>3 DEF Told, Alone
      <4> QED
        BY <4>2, <4>4
    <3> QED
      BY <3>1, <3>2, <3>3
  <2>2. CASE Tick \/ UNCHANGED vars
    BY <2>2 DEF Tick, vars, row, request, Outcome, Told
  <2> QED
    BY <2>1, <2>2, NextCases, Zenon
<1> QED
  BY <1>1, <1>2, Invariance, PTL DEF Spec, ImplementsWriteOnce, Once!WSpec
=============================================================================
