---------------------------- MODULE OutboxProofs ----------------------------
(***************************************************************************)
(* Proofs about Outbox for every number of rows, runs, retries and bounds. *)
(***************************************************************************)
EXTENDS Outbox, TLAPS

LEMMA TypeInit == Init => TypeOK
  BY OutboxAssumption DEF Init, TypeOK, Statuses, Visible, PCs, Rows

\* Moving on to the next row of a list keeps the types of the worker's memory.
LEMMA AdvanceType ==
  ASSUME TypeOK, NEW w \in Workers, NEW r \in Rows, Advance(w, r)
  PROVE  /\ pc' \in [Workers -> PCs]
         /\ held' \in [Workers -> SUBSET Rows]
         /\ snap' \in [Workers -> [Rows -> Nat]]
<1>1. pc' \in [Workers -> PCs]
  BY DEF TypeOK, Advance, PCs
<1>2. held' \in [Workers -> SUBSET Rows]
  BY DEF TypeOK, Advance
<1>3. snap' \in [Workers -> [Rows -> Nat]]
  <2>1. [snap[w] EXCEPT ![r] = 0] \in [Rows -> Nat]
    BY DEF TypeOK
  <2>2. snap' = [snap EXCEPT ![w] = [snap[w] EXCEPT ![r] = 0]]
    BY DEF TypeOK, Advance
  <2> QED
    BY <2>1, <2>2 DEF TypeOK
<1> QED
  BY <1>1, <1>2, <1>3

LEMMA TypeStep == TypeOK /\ [Next]_vars => TypeOK'
<1> SUFFICES ASSUME TypeOK PROVE [Next]_vars => TypeOK'
  OBVIOUS
<1> USE OutboxAssumption DEF TypeOK, table, loading, leases, memory, history, bounds
<1>1. CASE BeginTx
  BY <1>1, SMTT(60) DEF BeginTx
<1>2. ASSUME NEW t \in openTx, NEW a \in Aggregates, NEW k \in Keys, Enqueue(t, a, k)
      PROVE  TypeOK'
  BY <1>2, SMTT(60) DEF Enqueue, Statuses, Rows
<1>3. ASSUME NEW t \in openTx, Commit(t)
      PROVE  TypeOK'
  BY <1>3, SMTT(60) DEF Commit, Statuses, Visible
<1>4. ASSUME NEW t \in openTx, Rollback(t)
      PROVE  TypeOK'
  BY <1>4, SMTT(60) DEF Rollback, Statuses
<1>5. ASSUME NEW d \in Dispatchers, Requeue(d)
      PROVE  TypeOK'
  <2>1. status' \in [Rows -> Statuses]
    BY <1>5 DEF Requeue, StaleStatus, Statuses, Visible
  <2>2. due' \in [Rows -> BOOLEAN] /\ leaseAt' \in [Rows -> Nat]
    BY <1>5 DEF Requeue
  <2>3. pc' \in [Workers -> PCs]
    BY <1>5 DEF Requeue, PCs
  <2>4. gaveUp' \subseteq Rows
    BY <1>5 DEF Requeue
  <2> QED
    BY <1>5, <2>1, <2>2, <2>3, <2>4 DEF Requeue
<1>6. ASSUME NEW d \in Dispatchers, Acquire(d)
      PROVE  TypeOK'
  <2>1. status' \in [Rows -> Statuses]
    BY <1>6 DEF Acquire, Statuses, Visible
  <2>2. leaseAt' \in [Rows -> Nat] /\ leaseClock' \in Nat
    BY <1>6 DEF Acquire
  <2>3. pc' \in [Workers -> PCs]
    BY <1>6 DEF Acquire, PCs
  <2>4. held' \in [Workers -> SUBSET Rows]
    <3>1. Batch \in SUBSET Rows
      BY DEF Batch, Eligible
    <3> QED
      BY <1>6, <3>1 DEF Acquire
  <2>5. snap' \in [Workers -> [Rows -> Nat]]
    <3> DEFINE counts == [r \in Rows |-> IF r \in Batch THEN retry[r] ELSE 0]
    <3>1. counts \in [Rows -> Nat]
      OBVIOUS
    <3>2. snap' = snap \/ snap' = [snap EXCEPT ![d] = counts]
      BY <1>6 DEF Acquire
    <3> QED
      BY <3>1, <3>2
  <2> QED
    BY <1>6, <2>1, <2>2, <2>3, <2>4, <2>5 DEF Acquire
<1>7. ASSUME NEW w \in Workers, SendOk(w)
      PROVE  TypeOK'
  BY <1>7, SMTT(60) DEF SendOk, PCs
<1>8. ASSUME NEW w \in Workers, SendFails(w)
      PROVE  TypeOK'
  BY <1>8, SMTT(60) DEF SendFails, PCs
<1>9. ASSUME NEW w \in Workers, MarkPublished(w)
      PROVE  TypeOK'
  <2>1. PICK r \in held[w] : SetStatus(r, "PUBLISHED") /\ Advance(w, r)
    BY <1>9 DEF MarkPublished
  <2>2. r \in Rows
    OBVIOUS
  <2>3. status' \in [Rows -> Statuses] /\ leaseAt' \in [Rows -> Nat]
    BY <2>1 DEF SetStatus, Statuses, Visible
  <2> QED
    BY <1>9, <2>1, <2>2, <2>3, AdvanceType DEF MarkPublished
<1>10. ASSUME NEW w \in Workers, MarkFails(w)
      PROVE  TypeOK'
  BY <1>10, SMTT(60) DEF MarkFails, PCs
<1>11. ASSUME NEW d \in Dispatchers, HandleFailure(d)
      PROVE  TypeOK'
  <2>1. PICK r \in held[d] :
          /\ SetStatus(r, FailureStatus(snap[d][r] + 1))
          /\ retry' = [retry EXCEPT ![r] = IF status[r] = "absent" THEN @ ELSE snap[d][r] + 1]
          /\ due' = [due EXCEPT ![r] =
                       IF FailureStatus(snap[d][r] + 1) = "PENDING" THEN FALSE ELSE @]
          /\ gaveUp' = IF FailureStatus(snap[d][r] + 1) = "FAILED" THEN gaveUp \cup {r} ELSE gaveUp
          /\ Advance(d, r)
    BY <1>11 DEF HandleFailure
  <2>2. r \in Rows /\ d \in Workers /\ snap[d][r] + 1 \in Nat
    BY DEF Workers
  <2>3. status' \in [Rows -> Statuses] /\ leaseAt' \in [Rows -> Nat]
    BY <2>1, <2>2 DEF SetStatus, FailureStatus, Statuses, Visible
  <2>4. retry' \in [Rows -> Nat] /\ due' \in [Rows -> BOOLEAN] /\ gaveUp' \subseteq Rows
    BY <2>1, <2>2
  <2>5. /\ pc' \in [Workers -> PCs] /\ held' \in [Workers -> SUBSET Rows]
        /\ snap' \in [Workers -> [Rows -> Nat]]
    BY <2>1, <2>2, AdvanceType
  <2> QED
    BY <1>11, <2>3, <2>4, <2>5 DEF HandleFailure
<1>12. ASSUME NEW w \in Workers, Crash(w)
      PROVE  TypeOK'
  BY <1>12, SMTT(60) DEF Crash, PCs
<1>13. ASSUME NEW S \in SUBSET Rows, Cleanup(S)
      PROVE  TypeOK'
  BY <1>13, SMTT(60) DEF Cleanup, Statuses
<1>14. ASSUME NEW o \in Operators, LeaseFailed(o)
      PROVE  TypeOK'
  <2>1. PICK r \in held[o] :
          \/ /\ status' = [status EXCEPT ![r] = "PROCESSING"]
             /\ leaseClock' = leaseClock + 1
             /\ leaseAt' = [leaseAt EXCEPT ![r] = leaseClock + 1]
             /\ pc' = [pc EXCEPT ![o] = "sending"]
             /\ UNCHANGED <<held, snap>>
          \/ /\ Advance(o, r)
             /\ UNCHANGED <<status, leaseClock, leaseAt>>
    BY <1>14 DEF LeaseFailed
  <2>2. r \in Rows /\ o \in Workers
    BY DEF Workers
  <2>3. status' \in [Rows -> Statuses] /\ leaseClock' \in Nat /\ leaseAt' \in [Rows -> Nat]
    BY <2>1, <2>2 DEF Statuses, Visible
  <2>4. CASE Advance(o, r)
    BY <1>14, <2>1, <2>2, <2>3, <2>4, AdvanceType DEF LeaseFailed
  <2>5. CASE pc' = [pc EXCEPT ![o] = "sending"] /\ held' = held /\ snap' = snap
    <3>1. pc' \in [Workers -> PCs]
      BY <2>5 DEF PCs
    <3> QED
      BY <1>14, <2>3, <2>5, <3>1 DEF LeaseFailed
  <2> QED
    BY <2>1, <2>4, <2>5
<1>15. ASSUME NEW o \in Operators, ResendFailed(o)
      PROVE  TypeOK'
  <2>1. PICK r \in held[o] : /\ SetStatus(r, "FAILED") /\ Advance(o, r)
                             /\ gaveUp' = gaveUp \cup {r}
    BY <1>15 DEF ResendFailed
  <2>2. r \in Rows /\ o \in Workers
    BY DEF Workers
  <2>3. status' \in [Rows -> Statuses] /\ leaseAt' \in [Rows -> Nat] /\ gaveUp' \subseteq Rows
    BY <2>1, <2>2 DEF SetStatus, Statuses, Visible
  <2> QED
    BY <1>15, <2>1, <2>2, <2>3, AdvanceType DEF ResendFailed
<1>16. ASSUME NEW o \in Operators,
              NEW S \in {{r} : r \in Failed} \cup {Failed}, RequestResend(o, S)
      PROVE  TypeOK'
  BY <1>16, SMTT(60) DEF RequestResend, Failed, PCs, Workers
<1>17. ASSUME NEW r \in Rows, Discard(r)
      PROVE  TypeOK'
  BY <1>17, SMTT(60) DEF Discard, Statuses, Visible
<1>18. ASSUME NEW r \in Rows, BackoffElapses(r)
      PROVE  TypeOK'
  BY <1>18, SMTT(60) DEF BackoffElapses
<1>19. ASSUME NEW c \in 1 .. leaseClock, LeaseExpires(c)
      PROVE  TypeOK'
  BY <1>19, SMTT(60) DEF LeaseExpires
<1>20. ASSUME NEW c \in 1 .. leaseClock, LeaseExpiresEarly(c)
      PROVE  TypeOK'
  BY <1>20, SMTT(60) DEF LeaseExpiresEarly
<1>21. ASSUME NEW S \in SUBSET PausableAggregates, SetGate(S)
      PROVE  TypeOK'
  BY <1>21, SMTT(60) DEF SetGate
<1>22. CASE UNCHANGED vars
  BY <1>22 DEF vars
<1> QED
  BY <1>1, <1>2, <1>3, <1>4, <1>5, <1>6, <1>7, <1>8, <1>9, <1>10, <1>11, <1>12,
     <1>13, <1>14, <1>15, <1>16, <1>17, <1>18, <1>19, <1>20, <1>21, <1>22
     DEF Next, DispatcherStep, OperatorStep, Workers

\* Every reachable state is well typed, for any rows, runs and bounds.
THEOREM TypeCorrect == Spec => []TypeOK
  BY TypeInit, TypeStep, PTL DEF Spec
-----------------------------------------------------------------------------
(***************************************************************************)
(* The inductive invariant.  RowOK relates the columns of a row to its     *)
(* history: ids are handed out in order, an uncommitted row is untouched,  *)
(* and PUBLISHED, DISCARDED and FAILED record what happened.  ListsOK says *)
(* that runs hold committed rows and mark only what they sent.  InOrder    *)
(* says that a row nobody has begun may be behind, but a begun one is not. *)
(***************************************************************************)
RowOK(r) ==
  /\ r > lastId => status[r] = "absent" /\ retry[r] = 0 /\ commitAt[r] = 0
  /\ status[r] = "uncommitted" => retry[r] = 0 /\ commitAt[r] = 0
  /\ status[r] \in Visible => commitAt[r] > 0
  /\ status[r] = "PENDING" => retry[r] < MaxRetries
  /\ status[r] = "PUBLISHED" => r \in sent
  /\ status[r] = "absent" /\ commitAt[r] > 0 => r \in sent
  /\ status[r] \in {"FAILED", "DISCARDED"} => r \in gaveUp
  /\ status[r] = "DISCARDED" => r \in withdrawn
  /\ r \in sent => commitAt[r] > 0
  /\ commitAt[r] <= commits

RowsOK == \A r \in Rows : RowOK(r)

ListsOK ==
  \A w \in Workers : \A r \in held[w] :
    /\ commitAt[r] > 0
    /\ pc[w] = "marking" /\ IsHead(w, r) => r \in sent

Begun(r) ==
  \/ r \in sent
  \/ status[r] \in {"PROCESSING", "FAILED", "PUBLISHED", "DISCARDED"}
  \/ \E w \in Workers : r \in held[w]

Unovertaken(q, r) ==
  /\ agg[q] = agg[r] /\ agg[r] \in SequencedAggregates => q \in sent \cup withdrawn
  /\ SamePartition(q, r) => q \in sent \cup gaveUp

InOrder == \A r \in Rows, q \in Rows : Begun(r) /\ Precedes(q, r) => Unovertaken(q, r)

IInv == TypeOK /\ RowsOK /\ ListsOK /\ InOrder

\* What is committed stays as it is, and the history only grows.
HistoryKept ==
  /\ \A r \in Rows : /\ commitAt[r] > 0 => UNCHANGED <<commitAt[r], created[r], agg[r]>>
                     /\ commitAt[r] = 0 => commitAt'[r] \in {0, commits + 1}
  /\ sent \subseteq sent' /\ withdrawn \subseteq withdrawn' /\ gaveUp \subseteq gaveUp'

LEMMA HistoryStep ==
  TypeOK /\ RowsOK /\ [Next]_vars => HistoryKept
<1> SUFFICES ASSUME TypeOK, RowsOK PROVE [Next]_vars => HistoryKept
  OBVIOUS
<1> USE DEF TypeOK, HistoryKept, table, loading, leases, memory, history, bounds
<1>1. CASE BeginTx
  BY <1>1 DEF BeginTx
<1>2. ASSUME NEW t \in openTx, NEW a \in Aggregates, NEW k \in Keys, Enqueue(t, a, k)
      PROVE  HistoryKept
  <2>1. commitAt[lastId + 1] = 0
    BY <1>2 DEF Enqueue, RowsOK, RowOK, Rows
  <2> QED
    BY <1>2, <2>1 DEF Enqueue
<1>3. ASSUME NEW t \in openTx, Commit(t)
      PROVE  HistoryKept
  <2>1. \A r \in WrittenBy(t) : commitAt[r] = 0
    BY DEF WrittenBy, RowsOK, RowOK
  <2> QED
    BY <1>3, <2>1 DEF Commit
<1>4. ASSUME NEW t \in openTx, Rollback(t)
      PROVE  HistoryKept
  BY <1>4 DEF Rollback
<1>5. ASSUME NEW d \in Dispatchers, Requeue(d)
      PROVE  HistoryKept
  BY <1>5 DEF Requeue
<1>6. ASSUME NEW d \in Dispatchers, Acquire(d)
      PROVE  HistoryKept
  BY <1>6 DEF Acquire
<1>7. ASSUME NEW w \in Workers, SendOk(w)
      PROVE  HistoryKept
  BY <1>7 DEF SendOk
<1>8. ASSUME NEW w \in Workers, SendFails(w)
      PROVE  HistoryKept
  BY <1>8 DEF SendFails
<1>9. ASSUME NEW w \in Workers, MarkPublished(w)
      PROVE  HistoryKept
  BY <1>9 DEF MarkPublished
<1>10. ASSUME NEW w \in Workers, MarkFails(w)
      PROVE  HistoryKept
  BY <1>10 DEF MarkFails
<1>11. ASSUME NEW d \in Dispatchers, HandleFailure(d)
      PROVE  HistoryKept
  BY <1>11 DEF HandleFailure
<1>12. ASSUME NEW w \in Workers, Crash(w)
      PROVE  HistoryKept
  BY <1>12 DEF Crash
<1>13. ASSUME NEW S \in SUBSET Rows, Cleanup(S)
      PROVE  HistoryKept
  BY <1>13 DEF Cleanup
<1>14. ASSUME NEW o \in Operators, LeaseFailed(o)
      PROVE  HistoryKept
  BY <1>14 DEF LeaseFailed
<1>15. ASSUME NEW o \in Operators, ResendFailed(o)
      PROVE  HistoryKept
  BY <1>15 DEF ResendFailed
<1>16. ASSUME NEW o \in Operators,
              NEW S \in {{x} : x \in Failed} \cup {Failed}, RequestResend(o, S)
      PROVE  HistoryKept
  BY <1>16 DEF RequestResend
<1>17. ASSUME NEW x \in Rows, Discard(x)
      PROVE  HistoryKept
  BY <1>17 DEF Discard
<1>18. ASSUME NEW x \in Rows, BackoffElapses(x)
      PROVE  HistoryKept
  BY <1>18 DEF BackoffElapses
<1>19. ASSUME NEW c \in 1 .. leaseClock, LeaseExpires(c)
      PROVE  HistoryKept
  BY <1>19 DEF LeaseExpires
<1>20. ASSUME NEW c \in 1 .. leaseClock, LeaseExpiresEarly(c)
      PROVE  HistoryKept
  BY <1>20 DEF LeaseExpiresEarly
<1>21. ASSUME NEW S \in SUBSET PausableAggregates, SetGate(S)
      PROVE  HistoryKept
  BY <1>21 DEF SetGate
<1>22. CASE UNCHANGED vars
  BY <1>22 DEF vars
<1> QED
  BY <1>1, <1>2, <1>3, <1>4, <1>5, <1>6, <1>7, <1>8, <1>9, <1>10, <1>11, <1>12,
     <1>13, <1>14, <1>15, <1>16, <1>17, <1>18, <1>19, <1>20, <1>21, <1>22
     DEF Next, DispatcherStep, OperatorStep, Workers

\* Every step keeps RowsOK.
LEMMA RowsStep ==
  TypeOK /\ RowsOK /\ ListsOK /\ [Next]_vars => RowsOK'
<1> SUFFICES ASSUME TypeOK, RowsOK, ListsOK, NEW r \in Rows PROVE [Next]_vars => RowOK(r)'
  BY DEF RowsOK
<1>0. RowOK(r)
  BY DEF RowsOK
<1>1. CASE BeginTx
  <2>1. UNCHANGED <<status[r], retry[r], commitAt[r], sent, withdrawn, gaveUp, commits, lastId>>
    BY <1>1 DEF BeginTx, table, loading, history
  <2> QED
    BY <1>0, <2>1 DEF RowOK
<1>2. ASSUME NEW t \in openTx, NEW a \in Aggregates, NEW k \in Keys, Enqueue(t, a, k)
      PROVE  RowOK(r)'
  <2>1. /\ status'[r] = IF r = lastId + 1 THEN "uncommitted" ELSE status[r]
        /\ lastId' = lastId + 1 /\ lastId \in Nat
        /\ UNCHANGED <<retry[r], commitAt[r]>>
        /\ UNCHANGED <<sent, withdrawn, gaveUp, commits>>
    BY <1>2 DEF Enqueue, TypeOK, history
  <2> QED
    BY <1>0, <2>1 DEF RowOK, Rows, Visible
<1>3. ASSUME NEW t \in openTx, Commit(t)
      PROVE  RowOK(r)'
  <2>1. /\ status'[r] = IF r \in WrittenBy(t) THEN "PENDING" ELSE status[r]
        /\ commitAt'[r] = IF r \in WrittenBy(t) THEN commits + 1 ELSE commitAt[r]
        /\ commits' = commits + 1 /\ commits \in Nat /\ commitAt[r] \in Nat
        /\ UNCHANGED <<retry[r], sent, withdrawn, gaveUp, lastId>>
    BY <1>3 DEF Commit, TypeOK
  <2> QED
    BY <1>0, <2>1, OutboxAssumption DEF RowOK, WrittenBy, Visible
<1>4. ASSUME NEW t \in openTx, Rollback(t)
      PROVE  RowOK(r)'
  <2>1. /\ status'[r] = IF r \in WrittenBy(t) THEN "absent" ELSE status[r]
        /\ UNCHANGED <<retry[r], commitAt[r]>>
        /\ UNCHANGED <<sent, withdrawn, gaveUp, commits, lastId>>
    BY <1>4 DEF Rollback, TypeOK, history
  <2> QED
    BY <1>0, <2>1 DEF RowOK, WrittenBy, Visible
<1>5. ASSUME NEW d \in Dispatchers, Requeue(d)
      PROVE  RowOK(r)'
  <2>1. /\ status'[r] = IF IsStale(r) THEN StaleStatus(r) ELSE status[r]
        /\ gaveUp \subseteq gaveUp'
        /\ IsStale(r) /\ StaleStatus(r) = "FAILED" => r \in gaveUp'
        /\ UNCHANGED <<retry[r], commitAt[r]>>
        /\ UNCHANGED <<sent, withdrawn, commits, lastId>>
    BY <1>5 DEF Requeue, TypeOK, loading
  <2> QED
    BY <1>0, <2>1 DEF RowOK, IsStale, StaleStatus, Visible
<1>6. ASSUME NEW d \in Dispatchers, Acquire(d)
      PROVE  RowOK(r)'
  <2>1. /\ status'[r] = status[r] \/ (r \in Batch /\ status'[r] = "PROCESSING")
        /\ UNCHANGED <<retry[r], commitAt[r]>>
        /\ UNCHANGED <<sent, withdrawn, gaveUp, commits, lastId>>
    BY <1>6 DEF Acquire, TypeOK, loading, history
  <2> QED
    BY <1>0, <2>1 DEF RowOK, Batch, Eligible, Visible
<1>7. ASSUME NEW w \in Workers, SendOk(w)
      PROVE  RowOK(r)'
  <2>1. PICK x \in held[w] : sent' \in {sent, sent \cup {x}}
    BY <1>7 DEF SendOk
  <2>2. commitAt[x] > 0
    BY DEF ListsOK
  <2>3. UNCHANGED <<status[r], retry[r], commitAt[r], withdrawn, gaveUp, commits, lastId>>
    BY <1>7 DEF SendOk, table, loading
  <2> QED
    BY <1>0, <2>1, <2>2, <2>3 DEF RowOK
<1>8. ASSUME NEW w \in Workers, SendFails(w)
      PROVE  RowOK(r)'
  <2>1. PICK x \in held[w] : sent' \in {sent, sent \cup {x}}
    BY <1>8 DEF SendFails
  <2>2. commitAt[x] > 0
    BY DEF ListsOK
  <2>3. UNCHANGED <<status[r], retry[r], commitAt[r], withdrawn, gaveUp, commits, lastId>>
    BY <1>8 DEF SendFails, table, loading
  <2> QED
    BY <1>0, <2>1, <2>2, <2>3 DEF RowOK
<1>9. ASSUME NEW w \in Workers, MarkPublished(w)
      PROVE  RowOK(r)'
  <2>1. PICK x \in held[w] : IsHead(w, x) /\ SetStatus(x, "PUBLISHED")
    BY <1>9 DEF MarkPublished
  <2>2. commitAt[x] > 0 /\ x \in sent
    BY <1>9, <2>1 DEF MarkPublished, ListsOK
  <2>3. /\ status'[r] = IF r = x /\ status[x] # "absent" THEN "PUBLISHED" ELSE status[r]
        /\ UNCHANGED <<retry[r], commitAt[r], sent, withdrawn, gaveUp, commits, lastId>>
    BY <1>9, <2>1 DEF MarkPublished, SetStatus, TypeOK, loading, history
  <2> QED
    BY <1>0, <2>2, <2>3 DEF RowOK, Visible
<1>10. ASSUME NEW w \in Workers, MarkFails(w)
      PROVE  RowOK(r)'
  <2>1. UNCHANGED <<status[r], retry[r], commitAt[r], sent, withdrawn, gaveUp, commits, lastId>>
    BY <1>10 DEF MarkFails, table, loading, history
  <2> QED
    BY <1>0, <2>1 DEF RowOK
<1>11. ASSUME NEW d \in Dispatchers, HandleFailure(d)
      PROVE  RowOK(r)'
  <2>1. PICK x \in held[d] :
          /\ SetStatus(x, FailureStatus(snap[d][x] + 1))
          /\ retry' = [retry EXCEPT ![x] = IF status[x] = "absent" THEN @ ELSE snap[d][x] + 1]
          /\ gaveUp' = IF FailureStatus(snap[d][x] + 1) = "FAILED" THEN gaveUp \cup {x} ELSE gaveUp
    BY <1>11 DEF HandleFailure
  <2>2. commitAt[x] > 0 /\ snap[d][x] + 1 \in Nat
    BY DEF ListsOK, Workers, TypeOK
  <2>3. /\ status'[r] = IF r = x /\ status[x] # "absent" THEN FailureStatus(snap[d][x] + 1)
                        ELSE status[r]
        /\ retry'[r] = IF r = x /\ status[x] # "absent" THEN snap[d][x] + 1 ELSE retry[r]
        /\ UNCHANGED <<commitAt[r], sent, withdrawn, commits, lastId>>
    BY <1>11, <2>1 DEF HandleFailure, SetStatus, TypeOK, loading
  <2> QED
    BY <1>0, <2>1, <2>2, <2>3, OutboxAssumption DEF RowOK, Visible, FailureStatus
<1>12. ASSUME NEW w \in Workers, Crash(w)
      PROVE  RowOK(r)'
  <2>1. UNCHANGED <<status[r], retry[r], commitAt[r], sent, withdrawn, gaveUp, commits, lastId>>
    BY <1>12 DEF Crash, table, loading, history
  <2> QED
    BY <1>0, <2>1 DEF RowOK
<1>13. ASSUME NEW S \in SUBSET Rows, Cleanup(S)
      PROVE  RowOK(r)'
  <2>1. /\ status'[r] = IF r \in S THEN "absent" ELSE status[r]
        /\ r \in S => status[r] = "PUBLISHED"
        /\ UNCHANGED <<retry[r], commitAt[r]>>
        /\ UNCHANGED <<sent, withdrawn, gaveUp, commits, lastId>>
    BY <1>13 DEF Cleanup, TypeOK, Cleanable, loading, history
  <2> QED
    BY <1>0, <2>1 DEF RowOK, Visible
<1>14. ASSUME NEW o \in Operators, LeaseFailed(o)
      PROVE  RowOK(r)'
  <2>1. /\ status'[r] = status[r] \/ (status[r] = "FAILED" /\ status'[r] = "PROCESSING")
        /\ UNCHANGED <<retry[r], commitAt[r]>>
        /\ UNCHANGED <<sent, withdrawn, gaveUp, commits, lastId>>
    BY <1>14 DEF LeaseFailed, TypeOK, Resendable, loading, history
  <2> QED
    BY <1>0, <2>1 DEF RowOK, Visible
<1>15. ASSUME NEW o \in Operators, ResendFailed(o)
      PROVE  RowOK(r)'
  <2>1. PICK x \in held[o] : SetStatus(x, "FAILED") /\ gaveUp' = gaveUp \cup {x}
    BY <1>15 DEF ResendFailed
  <2>2. commitAt[x] > 0
    BY DEF ListsOK, Workers
  <2>3. /\ status'[r] = IF r = x /\ status[x] # "absent" THEN "FAILED" ELSE status[r]
        /\ UNCHANGED <<retry[r], commitAt[r], sent, withdrawn, commits, lastId>>
    BY <1>15, <2>1 DEF ResendFailed, SetStatus, TypeOK, loading
  <2> QED
    BY <1>0, <2>1, <2>2, <2>3 DEF RowOK, Visible
<1>16. ASSUME NEW o \in Operators,
              NEW S \in {{x} : x \in Failed} \cup {Failed}, RequestResend(o, S)
      PROVE  RowOK(r)'
  <2>1. UNCHANGED <<status[r], retry[r], commitAt[r], sent, withdrawn, gaveUp, commits, lastId>>
    BY <1>16 DEF RequestResend, table, loading, history
  <2> QED
    BY <1>0, <2>1 DEF RowOK
<1>17. ASSUME NEW x \in Rows, Discard(x)
      PROVE  RowOK(r)'
  <2>1. /\ status'[r] = IF r = x THEN "DISCARDED" ELSE status[r]
        /\ status[x] = "FAILED" /\ withdrawn' = withdrawn \cup {x}
        /\ UNCHANGED <<retry[r], commitAt[r]>>
        /\ UNCHANGED <<sent, gaveUp, commits, lastId>>
    BY <1>17 DEF Discard, TypeOK, loading
  <2> QED
    BY <1>0, <2>1 DEF RowOK, Visible
<1>18. ASSUME NEW x \in Rows, BackoffElapses(x)
      PROVE  RowOK(r)'
  <2>1. UNCHANGED <<status[r], retry[r], commitAt[r], sent, withdrawn, gaveUp, commits, lastId>>
    BY <1>18 DEF BackoffElapses, table, loading, history
  <2> QED
    BY <1>0, <2>1 DEF RowOK
<1>19. ASSUME NEW c \in 1 .. leaseClock, LeaseExpires(c)
      PROVE  RowOK(r)'
  <2>1. UNCHANGED <<status[r], retry[r], commitAt[r], sent, withdrawn, gaveUp, commits, lastId>>
    BY <1>19 DEF LeaseExpires, table, loading, history
  <2> QED
    BY <1>0, <2>1 DEF RowOK
<1>20. ASSUME NEW c \in 1 .. leaseClock, LeaseExpiresEarly(c)
      PROVE  RowOK(r)'
  <2>1. UNCHANGED <<status[r], retry[r], commitAt[r], sent, withdrawn, gaveUp, commits, lastId>>
    BY <1>20 DEF LeaseExpiresEarly, table, loading, history
  <2> QED
    BY <1>0, <2>1 DEF RowOK
<1>21. ASSUME NEW S \in SUBSET PausableAggregates, SetGate(S)
      PROVE  RowOK(r)'
  <2>1. UNCHANGED <<status[r], retry[r], commitAt[r], sent, withdrawn, gaveUp, commits, lastId>>
    BY <1>21 DEF SetGate, table, loading, history
  <2> QED
    BY <1>0, <2>1 DEF RowOK
<1>22. CASE UNCHANGED vars
  BY <1>0, <1>22 DEF RowOK, vars, table, loading, history
<1> QED
  BY <1>1, <1>2, <1>3, <1>4, <1>5, <1>6, <1>7, <1>8, <1>9, <1>10, <1>11, <1>12,
     <1>13, <1>14, <1>15, <1>16, <1>17, <1>18, <1>19, <1>20, <1>21, <1>22
     DEF Next, DispatcherStep, OperatorStep, Workers

\* What a step does to the list of a worker v: nothing, or v starts or goes on
\* with rows it held, leased or read from the FAILED ones, or v sent its head.
ListEffect(v) ==
  \/ held'[v] = held[v] /\ (pc'[v] = pc[v] \/ pc'[v] # "marking")
  \/ held'[v] \subseteq held[v] \cup Batch \cup Failed /\ pc'[v] # "marking"
  \/ SendOk(v)

LEMMA ListStep ==
  TypeOK /\ [Next]_vars => \A v \in Workers : ListEffect(v)
<1> SUFFICES ASSUME TypeOK, NEW v \in Workers PROVE [Next]_vars => ListEffect(v)
  OBVIOUS
<1> USE DEF ListEffect
<1>1. CASE BeginTx
  BY <1>1 DEF BeginTx, memory
<1>2. ASSUME NEW t \in openTx, NEW a \in Aggregates, NEW k \in Keys, Enqueue(t, a, k)
      PROVE  ListEffect(v)
  BY <1>2 DEF Enqueue, memory
<1>3. ASSUME NEW t \in openTx, Commit(t)
      PROVE  ListEffect(v)
  BY <1>3 DEF Commit, memory
<1>4. ASSUME NEW t \in openTx, Rollback(t)
      PROVE  ListEffect(v)
  BY <1>4 DEF Rollback, memory
<1>5. ASSUME NEW d \in Dispatchers, Requeue(d)
      PROVE  ListEffect(v)
  BY <1>5 DEF Requeue, TypeOK, Workers
<1>6. ASSUME NEW d \in Dispatchers, Acquire(d)
      PROVE  ListEffect(v)
  BY <1>6 DEF Acquire, TypeOK, Workers
<1>7. ASSUME NEW w \in Workers, SendOk(w)
      PROVE  ListEffect(v)
  BY <1>7 DEF SendOk, TypeOK, Workers
<1>8. ASSUME NEW w \in Workers, SendFails(w)
      PROVE  ListEffect(v)
  BY <1>8 DEF SendFails, TypeOK, Workers
<1>9. ASSUME NEW w \in Workers, MarkPublished(w)
      PROVE  ListEffect(v)
  <2>1. PICK x \in held[w] : Advance(w, x)
    BY <1>9 DEF MarkPublished
  <2> QED
    BY <2>1 DEF Advance, TypeOK, Workers
<1>10. ASSUME NEW w \in Workers, MarkFails(w)
      PROVE  ListEffect(v)
  BY <1>10 DEF MarkFails, TypeOK, Workers
<1>11. ASSUME NEW d \in Dispatchers, HandleFailure(d)
      PROVE  ListEffect(v)
  <2>1. PICK x \in held[d] : Advance(d, x)
    BY <1>11 DEF HandleFailure
  <2> QED
    BY <2>1 DEF Advance, TypeOK, Workers
<1>12. ASSUME NEW w \in Workers, Crash(w)
      PROVE  ListEffect(v)
  BY <1>12 DEF Crash, TypeOK, Workers
<1>13. ASSUME NEW S \in SUBSET Rows, Cleanup(S)
      PROVE  ListEffect(v)
  BY <1>13 DEF Cleanup, memory
<1>14. ASSUME NEW o \in Operators, LeaseFailed(o)
      PROVE  ListEffect(v)
  <2>1. PICK x \in held[o] : Advance(o, x) \/ (held' = held /\ pc' = [pc EXCEPT ![o] = "sending"])
    BY <1>14 DEF LeaseFailed
  <2> QED
    BY <2>1 DEF Advance, TypeOK, Workers
<1>15. ASSUME NEW o \in Operators, ResendFailed(o)
      PROVE  ListEffect(v)
  <2>1. PICK x \in held[o] : Advance(o, x)
    BY <1>15 DEF ResendFailed
  <2> QED
    BY <2>1 DEF Advance, TypeOK, Workers
<1>16. ASSUME NEW o \in Operators,
              NEW S \in {{x} : x \in Failed} \cup {Failed}, RequestResend(o, S)
      PROVE  ListEffect(v)
  BY <1>16 DEF RequestResend, TypeOK, Workers, Failed
<1>17. ASSUME NEW x \in Rows, Discard(x)
      PROVE  ListEffect(v)
  BY <1>17 DEF Discard, memory
<1>18. ASSUME NEW x \in Rows, BackoffElapses(x)
      PROVE  ListEffect(v)
  BY <1>18 DEF BackoffElapses, memory
<1>19. ASSUME NEW c \in 1 .. leaseClock, LeaseExpires(c)
      PROVE  ListEffect(v)
  BY <1>19 DEF LeaseExpires, memory
<1>20. ASSUME NEW c \in 1 .. leaseClock, LeaseExpiresEarly(c)
      PROVE  ListEffect(v)
  BY <1>20 DEF LeaseExpiresEarly, memory
<1>21. ASSUME NEW S \in SUBSET PausableAggregates, SetGate(S)
      PROVE  ListEffect(v)
  BY <1>21 DEF SetGate, memory
<1>22. CASE UNCHANGED vars
  BY <1>22 DEF vars, memory
<1> QED
  BY <1>1, <1>2, <1>3, <1>4, <1>5, <1>6, <1>7, <1>8, <1>9, <1>10, <1>11, <1>12,
     <1>13, <1>14, <1>15, <1>16, <1>17, <1>18, <1>19, <1>20, <1>21, <1>22
     DEF Next, DispatcherStep, OperatorStep, Workers

\* Every step keeps ListsOK.
LEMMA ListsStep ==
  TypeOK /\ TypeOK' /\ RowsOK /\ ListsOK /\ [Next]_vars => ListsOK'
<1> SUFFICES ASSUME TypeOK, TypeOK', RowsOK, ListsOK, [Next]_vars,
                    NEW v \in Workers, NEW r \in held'[v]
             PROVE  /\ commitAt'[r] > 0
                    /\ pc'[v] = "marking" /\ IsHead(v, r)' => r \in sent'
  BY DEF ListsOK
<1>1. HistoryKept /\ ListEffect(v)
  BY HistoryStep, ListStep
<1>2. \A q \in held[v] : q \in Rows /\ commitAt[q] > 0
  BY DEF ListsOK, TypeOK
<1>3. \A q \in Batch \cup Failed : q \in Rows /\ commitAt[q] > 0
  BY DEF Batch, Eligible, Failed, RowsOK, RowOK, Visible
<1>4. held'[v] \subseteq held[v] \cup Batch \cup Failed
  BY <1>1 DEF ListEffect, SendOk
<1>5. r \in Rows /\ commitAt[r] > 0
  BY <1>2, <1>3, <1>4
<1>6. commitAt'[r] > 0
  BY <1>1, <1>5 DEF HistoryKept
<1>7. ASSUME held'[v] = held[v], IsHead(v, r)' PROVE IsHead(v, r)
  BY <1>1, <1>2, <1>7 DEF IsHead, Before, HistoryKept
<1>8. ASSUME pc'[v] = "marking", IsHead(v, r)' PROVE r \in sent'
  <2>1. CASE held'[v] = held[v] /\ pc'[v] = pc[v]
    BY <1>1, <1>7, <1>8, <2>1 DEF ListsOK, HistoryKept
  <2>2. CASE SendOk(v)
    <3>1. PICK x \in held[v] : IsHead(v, x) /\ sent' = sent \cup {x}
      BY <2>2 DEF SendOk
    <3>2. IsHead(v, r)
      BY <1>7, <1>8, <2>2 DEF SendOk
    <3>3. /\ x \in Nat /\ r \in Nat /\ created[x] \in Nat /\ created[r] \in Nat
          /\ x = r \/ (Before(x, r) /\ Before(r, x))
      <4>1. x \in Rows /\ r \in Rows /\ x \in held[v] /\ r \in held[v]
        BY <1>2, <3>1, <3>2 DEF IsHead
      <4>2. created[x] \in Nat /\ created[r] \in Nat
        BY <4>1 DEF TypeOK
      <4>3. x = r \/ (Before(x, r) /\ Before(r, x))
        BY <3>1, <3>2, <4>1 DEF IsHead
      <4> QED
        BY <4>1, <4>2, <4>3 DEF Rows
    <3>4. x = r
      BY <3>3 DEF Before
    <3> QED
      BY <3>1, <3>4
  <2> QED
    BY <1>1, <1>8, <2>1, <2>2 DEF ListEffect
<1> QED
  BY <1>6, <1>8

\* A step begins only rows it leases from the eligible ones.
LEMMA BegunStep ==
  TypeOK /\ [Next]_vars => \A r \in Rows : Begun(r)' => Begun(r) \/ r \in Batch
<1> SUFFICES ASSUME TypeOK, NEW r \in Rows
             PROVE  [Next]_vars => (Begun(r)' => Begun(r) \/ r \in Batch)
  OBVIOUS
<1> DEFINE Closed == {"PROCESSING", "FAILED", "PUBLISHED", "DISCARDED"}
           StatusOK == status'[r] \in Closed => Begun(r) \/ r \in Batch
           SentOK == r \in sent' => Begun(r)
           BegunOK == StatusOK /\ SentOK
<1>0. ASSUME BegunOK, [Next]_vars PROVE Begun(r)' => Begun(r) \/ r \in Batch
  <2>1. \A v \in Workers : held'[v] \subseteq held[v] \cup Batch \cup Failed
    BY <1>0, ListStep DEF ListEffect, SendOk
  <2>2. r \in Failed => Begun(r)
    BY DEF Failed, Begun
  <2> QED
    BY <1>0, <2>1, <2>2 DEF Begun
<1>1. ASSUME BeginTx PROVE BegunOK
  BY <1>1 DEF BeginTx, table, history, Begun
<1>2. ASSUME NEW t \in openTx, NEW a \in Aggregates, NEW k \in Keys, Enqueue(t, a, k)
      PROVE  BegunOK
  BY <1>2 DEF Enqueue, history, Begun, TypeOK
<1>3. ASSUME NEW t \in openTx, Commit(t)
      PROVE  BegunOK
  BY <1>3 DEF Commit, Begun
<1>4. ASSUME NEW t \in openTx, Rollback(t)
      PROVE  BegunOK
  BY <1>4 DEF Rollback, history, Begun
<1>5. ASSUME NEW d \in Dispatchers, Requeue(d)
      PROVE  BegunOK
  BY <1>5 DEF Requeue, IsStale, StaleStatus, Begun
<1>6. ASSUME NEW d \in Dispatchers, Acquire(d)
      PROVE  BegunOK
  BY <1>6 DEF Acquire, history, Begun
<1>7. ASSUME NEW w \in Workers, SendOk(w)
      PROVE  BegunOK
  <2>1. PICK x \in held[w] : sent' \in {sent, sent \cup {x}}
    BY <1>7 DEF SendOk
  <2> QED
    BY <1>7, <2>1 DEF SendOk, table, Begun
<1>8. ASSUME NEW w \in Workers, SendFails(w)
      PROVE  BegunOK
  <2>1. PICK x \in held[w] : sent' \in {sent, sent \cup {x}}
    BY <1>8 DEF SendFails
  <2> QED
    BY <1>8, <2>1 DEF SendFails, table, Begun
<1>9. ASSUME NEW w \in Workers, MarkPublished(w)
      PROVE  BegunOK
  <2>1. PICK x \in held[w] : SetStatus(x, "PUBLISHED")
    BY <1>9 DEF MarkPublished
  <2>2. r = x => Begun(r)
    BY DEF Begun, Workers
  <2>3. (r # x => status'[r] = status[r]) /\ sent' = sent
    BY <1>9, <2>1 DEF MarkPublished, SetStatus, TypeOK, history
  <2> QED
    BY <2>2, <2>3 DEF Begun
<1>10. ASSUME NEW w \in Workers, MarkFails(w)
      PROVE  BegunOK
  BY <1>10 DEF MarkFails, table, history, Begun
<1>11. ASSUME NEW d \in Dispatchers, HandleFailure(d)
      PROVE  BegunOK
  <2>1. PICK x \in held[d] : SetStatus(x, FailureStatus(snap[d][x] + 1))
    BY <1>11 DEF HandleFailure
  <2>2. r = x => Begun(r)
    BY DEF Begun, Workers
  <2>3. (r # x => status'[r] = status[r]) /\ sent' = sent
    BY <1>11, <2>1 DEF HandleFailure, SetStatus, TypeOK, history
  <2> QED
    BY <2>2, <2>3 DEF Begun
<1>12. ASSUME NEW w \in Workers, Crash(w)
      PROVE  BegunOK
  BY <1>12 DEF Crash, table, history, Begun
<1>13. ASSUME NEW S \in SUBSET Rows, Cleanup(S)
      PROVE  BegunOK
  BY <1>13 DEF Cleanup, history, Begun
<1>14. ASSUME NEW o \in Operators, LeaseFailed(o)
      PROVE  BegunOK
  <2>1. (status'[r] = status[r] \/ status[r] = "FAILED") /\ sent' = sent
    BY <1>14 DEF LeaseFailed, Resendable, TypeOK, history
  <2> QED
    BY <2>1 DEF Begun
<1>15. ASSUME NEW o \in Operators, ResendFailed(o)
      PROVE  BegunOK
  <2>1. PICK x \in held[o] : SetStatus(x, "FAILED")
    BY <1>15 DEF ResendFailed
  <2>2. r = x => Begun(r)
    BY DEF Begun, Workers
  <2>3. (r # x => status'[r] = status[r]) /\ sent' = sent
    BY <1>15, <2>1 DEF ResendFailed, SetStatus, TypeOK, history
  <2> QED
    BY <2>2, <2>3 DEF Begun
<1>16. ASSUME NEW o \in Operators,
              NEW S \in {{x} : x \in Failed} \cup {Failed}, RequestResend(o, S)
      PROVE  BegunOK
  BY <1>16 DEF RequestResend, table, history, Begun
<1>17. ASSUME NEW x \in Rows, Discard(x)
      PROVE  BegunOK
  <2>1. (status'[r] = status[r] \/ status[r] = "FAILED") /\ sent' = sent
    BY <1>17 DEF Discard, TypeOK
  <2> QED
    BY <2>1 DEF Begun
<1>18. ASSUME NEW x \in Rows, BackoffElapses(x)
      PROVE  BegunOK
  BY <1>18 DEF BackoffElapses, table, history, Begun
<1>19. ASSUME NEW c \in 1 .. leaseClock, LeaseExpires(c)
      PROVE  BegunOK
  BY <1>19 DEF LeaseExpires, table, history, Begun
<1>20. ASSUME NEW c \in 1 .. leaseClock, LeaseExpiresEarly(c)
      PROVE  BegunOK
  BY <1>20 DEF LeaseExpiresEarly, table, history, Begun
<1>21. ASSUME NEW S \in SUBSET PausableAggregates, SetGate(S)
      PROVE  BegunOK
  BY <1>21 DEF SetGate, table, history, Begun
<1>22. ASSUME UNCHANGED vars PROVE BegunOK
  BY <1>22 DEF vars, table, history, Begun
<1>23. [Next]_vars => BegunOK
  <2> HIDE DEF BegunOK
  <2> QED
    BY <1>1, <1>2, <1>3, <1>4, <1>5, <1>6, <1>7, <1>8, <1>9, <1>10, <1>11, <1>12,
     <1>13, <1>14, <1>15, <1>16, <1>17, <1>18, <1>19, <1>20, <1>21, <1>22
       DEF Next, DispatcherStep, OperatorStep, Workers
<1> QED
  BY <1>0, <1>23

\* A row that can be leased has nothing before it that still has to go out.
LEMMA EligibleInOrder ==
  ASSUME TypeOK, RowsOK, NEW r \in Batch, NEW q \in Rows, Precedes(q, r)
  PROVE  Unovertaken(q, r)
<1>1. r \in Rows /\ PartitionClear(r) /\ AggregateClear(r)
  BY DEF Batch, Eligible
<1>2. commitAt[q] > 0 /\ Before(q, r)
  BY <1>1 DEF Precedes, TypeOK
<1>3. status[q] \in Statuses /\ status[q] # "uncommitted"
  BY <1>2 DEF RowsOK, RowOK, TypeOK
<1>4. ASSUME agg[q] = agg[r], agg[r] \in SequencedAggregates
      PROVE  q \in sent \cup withdrawn
  <2>1. status[q] \notin Unpublished \cup {"FAILED"}
    BY <1>1, <1>2, <1>4 DEF AggregateClear
  <2> QED
    BY <1>2, <1>3, <2>1 DEF RowsOK, RowOK, Statuses, Visible, Unpublished
<1>5. ASSUME SamePartition(q, r)
      PROVE  q \in sent \cup gaveUp
  <2>1. status[q] \notin Unpublished
    BY <1>1, <1>2, <1>5 DEF PartitionClear
  <2> QED
    BY <1>2, <1>3, <2>1 DEF RowsOK, RowOK, Statuses, Visible, Unpublished
<1> QED
  BY <1>4, <1>5 DEF Unovertaken

\* Begun rows are committed.
LEMMA BegunCommitted ==
  ASSUME RowsOK, ListsOK, NEW r \in Rows, Begun(r)
  PROVE  commitAt[r] > 0
  BY DEF Begun, RowsOK, RowOK, ListsOK, Visible

\* Every step keeps InOrder.
LEMMA InOrderStep ==
  TypeOK /\ TypeOK' /\ RowsOK /\ ListsOK /\ InOrder /\ [Next]_vars => InOrder'
<1> SUFFICES ASSUME TypeOK, TypeOK', RowsOK, ListsOK, InOrder, [Next]_vars,
                    NEW r \in Rows, NEW q \in Rows, Begun(r)', Precedes(q, r)'
             PROVE  Unovertaken(q, r)'
  BY DEF InOrder
<1>1. HistoryKept /\ (Begun(r) \/ r \in Batch)
  BY HistoryStep, BegunStep
<1>2. commitAt[r] > 0
  BY <1>1, BegunCommitted DEF Batch, Eligible, RowsOK, RowOK, Visible
<1>3. commitAt[r] \in Nat /\ commits \in Nat /\ commitAt[q] \in Nat /\ commitAt[r] <= commits
  BY DEF TypeOK, RowsOK, RowOK
<1>4. /\ commitAt'[r] = commitAt[r] /\ created'[r] = created[r] /\ agg'[r] = agg[r]
      /\ commitAt[q] > 0 => UNCHANGED <<commitAt[q], created[q], agg[q]>>
      /\ commitAt[q] = 0 => commitAt'[q] \in {0, commits + 1}
  BY <1>1, <1>2 DEF HistoryKept
<1>5. commitAt[q] > 0
  BY <1>3, <1>4 DEF Precedes
<1>6. Precedes(q, r)
  BY <1>4, <1>5 DEF Precedes, Before
<1>7. Unovertaken(q, r)
  BY <1>1, <1>6, EligibleInOrder DEF InOrder
<1> QED
  BY <1>1, <1>4, <1>5, <1>7 DEF Unovertaken, SamePartition, HistoryKept

LEMMA InvInit == Init => IInv
<1> SUFFICES ASSUME Init PROVE IInv
  OBVIOUS
<1>1. TypeOK
  BY TypeInit
<1>2. RowsOK
  BY DEF Init, RowsOK, RowOK, Rows, Visible
<1>3. ListsOK
  BY DEF Init, ListsOK
<1>4. InOrder
  BY DEF Init, InOrder, Begun
<1> QED
  BY <1>1, <1>2, <1>3, <1>4 DEF IInv

LEMMA InvStep == IInv /\ [Next]_vars => IInv'
  BY TypeStep, RowsStep, ListsStep, InOrderStep DEF IInv

THEOREM Invariance == Spec => []IInv
  BY InvInit, InvStep, PTL DEF Spec

\* No reachable state has a PENDING row without a retry left, which neither a
\* dispatcher nor an operator would ever touch.
THEOREM NeverStranded == Spec => []NoStrandedRow
<1>1. IInv => NoStrandedRow
  BY DEF IInv, RowsOK, RowOK, NoStrandedRow
<1> QED
  BY <1>1, Invariance, PTL

\* A committed event is sent, discarded by an operator or still in the table.
THEOREM NeverLost == Spec => []NothingLost
<1>1. IInv => NothingLost
  <2> SUFFICES ASSUME IInv, NEW r \in Rows, commitAt[r] > 0, r \notin sent \cup withdrawn
               PROVE  status[r] \in Unpublished \cup {"FAILED"}
    BY DEF NothingLost
  <2>1. RowOK(r) /\ status[r] \in Statuses
    BY DEF IInv, RowsOK, TypeOK
  <2> QED
    BY <2>1 DEF RowOK, Statuses, Visible, Unpublished
<1> QED
  BY <1>1, Invariance, PTL

\* First deliveries of a sequenced aggregate keep the (created_at, id) order.
THEOREM SequencedOrder == Spec => []SequencedInOrder
<1>1. IInv => SequencedInOrder
  BY DEF IInv, InOrder, Begun, Unovertaken, SequencedInOrder, TypeOK
<1> QED
  BY <1>1, Invariance, PTL

\* First deliveries of a partition keep that order but for rows that gave up.
THEOREM PartitionOrder == Spec => []PartitionInOrder
<1>1. IInv => PartitionInOrder
  BY DEF IInv, InOrder, Begun, Unovertaken, PartitionInOrder, TypeOK
<1> QED
  BY <1>1, Invariance, PTL

-----------------------------------------------------------------------------
(* Refinement: Outbox implements OrderedStream *)

\* The predecessors of a row are fixed when it commits.
LEMMA PredecessorsKept ==
  ASSUME TypeOK, TypeOK', RowsOK, HistoryKept, NEW r \in Rows, commitAt'[r] = commitAt[r]
  PROVE  Predecessors(r)' = Predecessors(r)
<1>1. CASE commitAt[r] = 0
  BY <1>1 DEF Predecessors, Precedes
<1>2. CASE commitAt[r] > 0
  <2>1. created'[r] = created[r] /\ agg'[r] = agg[r]
    BY <1>2 DEF HistoryKept
  <2>2. ASSUME NEW q \in Rows, agg[q] = agg[r], Precedes(q, r)
        PROVE  agg'[q] = agg'[r] /\ Precedes(q, r)'
    <3>1. commitAt[q] > 0
      BY <1>2, <2>2 DEF Precedes, TypeOK
    <3> QED
      BY <2>1, <2>2, <3>1 DEF HistoryKept, Precedes, Before
  <2>3. ASSUME NEW q \in Rows, agg'[q] = agg'[r], Precedes(q, r)'
        PROVE  agg[q] = agg[r] /\ Precedes(q, r)
    <3>1. commitAt'[q] \in 1 .. commitAt[r] /\ commitAt[r] <= commits
      BY <2>3 DEF Precedes, RowsOK, RowOK
    <3>2. commitAt[q] \in Nat /\ commitAt[r] \in Nat /\ commits \in Nat
      BY DEF TypeOK
    <3>3. commitAt[q] > 0
      BY <3>1, <3>2 DEF HistoryKept
    <3> QED
      BY <2>1, <2>3, <3>3 DEF HistoryKept, Precedes, Before
  <2> QED
    BY <2>1, <2>2, <2>3 DEF Predecessors
<1> QED
  BY <1>1, <1>2 DEF TypeOK

\* A step that commits nothing leaves what is loaded, and its order, unchanged.
LEMMA NothingLoaded ==
  ASSUME TypeOK, TypeOK', RowsOK, HistoryKept, commitAt' = commitAt
  PROVE  /\ Loaded' = Loaded
         /\ [r \in Rows |-> Predecessors(r)]' = [r \in Rows |-> Predecessors(r)]
<1>1. \A r \in Rows : Predecessors(r)' = Predecessors(r)
  BY PredecessorsKept
<1> QED
  BY <1>1 DEF Loaded

\* The broker gets a row only when the stream may deliver it.
LEMMA SendDelivers ==
  ASSUME IInv, TypeOK', HistoryKept, NEW w \in Workers, NEW x \in held[w],
         sent' \in {sent, sent \cup {x}}, commitAt' = commitAt, withdrawn' = withdrawn
  PROVE  [Stream!StreamNext]_(Stream!streamVars)
<1>1. /\ Loaded' = Loaded
      /\ [r \in Rows |-> Predecessors(r)]' = [r \in Rows |-> Predecessors(r)]
  BY NothingLoaded DEF IInv
<1>2. x \in Rows /\ x \in Loaded /\ Begun(x)
  BY DEF IInv, ListsOK, Loaded, TypeOK, Begun
<1>3. Predecessors(x) \subseteq sent \cup withdrawn
  BY <1>2 DEF IInv, InOrder, Unovertaken, Predecessors
<1>4. CASE sent' = sent
  BY <1>1, <1>4 DEF Stream!streamVars
<1>5. CASE sent' = sent \cup {x}
  <2>1. Stream!Deliver(x)
    BY <1>1, <1>2, <1>3, <1>5 DEF Stream!Deliver
  <2> QED
    BY <1>2, <2>1 DEF Stream!StreamNext
<1> QED
  BY <1>4, <1>5

\* A commit loads the rows of the transaction.
LEMMA CommitLoads ==
  ASSUME IInv, IInv', HistoryKept, NEW t \in openTx, Commit(t)
  PROVE  Stream!StreamNext
<1>1. commitAt' = [r \in Rows |-> IF r \in WrittenBy(t) THEN commits + 1 ELSE commitAt[r]]
  BY DEF Commit
<1>2. \A r \in WrittenBy(t) : r \in Rows /\ commitAt[r] = 0
  BY DEF IInv, RowsOK, RowOK, WrittenBy
<1>3. WrittenBy(t) \cap Loaded = {} /\ Loaded' = Loaded \cup WrittenBy(t)
  BY <1>1, <1>2 DEF Loaded, IInv, TypeOK
<1>4. \A r \in Rows : Predecessors(r) \in SUBSET Rows /\ Predecessors(r)' \in SUBSET Rows
  BY DEF Predecessors
<1>5. ASSUME NEW r \in WrittenBy(t) PROVE Predecessors(r)' \subseteq Loaded'
  BY DEF Predecessors, Precedes, Loaded, IInv, TypeOK
<1>6. ASSUME NEW r \in Rows, r \notin WrittenBy(t) PROVE Predecessors(r)' = Predecessors(r)
  BY <1>1, <1>6, PredecessorsKept DEF IInv
<1>7. Stream!Load(WrittenBy(t))
  BY <1>2, <1>3, <1>4, <1>5, <1>6 DEF Stream!Load, Commit
<1> QED
  BY <1>2, <1>7 DEF Stream!StreamNext

\* Every step of the outbox is a step of the stream or a stutter.
LEMMA StreamStep ==
  IInv /\ IInv' /\ [Next]_vars => [Stream!StreamNext]_(Stream!streamVars)
<1> SUFFICES ASSUME IInv, IInv' PROVE [Next]_vars => [Stream!StreamNext]_(Stream!streamVars)
  OBVIOUS
<1> DEFINE Simulated == [Stream!StreamNext]_(Stream!streamVars)
<1>a. ASSUME HistoryKept, commitAt' = commitAt, sent' = sent, withdrawn' = withdrawn
      PROVE  Simulated
  BY <1>a, NothingLoaded DEF IInv, Stream!streamVars
<1>b. [Next]_vars => HistoryKept
  BY HistoryStep DEF IInv
<1>1. ASSUME BeginTx, HistoryKept
      PROVE  Simulated
  BY <1>1, <1>a DEF BeginTx, history
<1>2. ASSUME NEW t \in openTx, NEW a \in Aggregates, NEW k \in Keys, Enqueue(t, a, k), HistoryKept
      PROVE  Simulated
  BY <1>2, <1>a DEF Enqueue, history
<1>3. ASSUME NEW t \in openTx, Commit(t), HistoryKept
      PROVE  Simulated
  BY <1>3, CommitLoads
<1>4. ASSUME NEW t \in openTx, Rollback(t), HistoryKept
      PROVE  Simulated
  BY <1>4, <1>a DEF Rollback, history
<1>5. ASSUME NEW d \in Dispatchers, Requeue(d), HistoryKept
      PROVE  Simulated
  BY <1>5, <1>a DEF Requeue, history
<1>6. ASSUME NEW d \in Dispatchers, Acquire(d), HistoryKept
      PROVE  Simulated
  BY <1>6, <1>a DEF Acquire, history
<1>7. ASSUME NEW w \in Workers, SendOk(w), HistoryKept
      PROVE  Simulated
  <2>1. PICK x \in held[w] : sent' \in {sent, sent \cup {x}}
    BY <1>7 DEF SendOk
  <2>2. commitAt' = commitAt /\ withdrawn' = withdrawn
    BY <1>7 DEF SendOk
  <2> QED
    BY <1>7, <2>1, <2>2, SendDelivers DEF IInv
<1>8. ASSUME NEW w \in Workers, SendFails(w), HistoryKept
      PROVE  Simulated
  <2>1. PICK x \in held[w] : sent' \in {sent, sent \cup {x}}
    BY <1>8 DEF SendFails
  <2>2. commitAt' = commitAt /\ withdrawn' = withdrawn
    BY <1>8 DEF SendFails
  <2> QED
    BY <1>8, <2>1, <2>2, SendDelivers DEF IInv
<1>9. ASSUME NEW w \in Workers, MarkPublished(w), HistoryKept
      PROVE  Simulated
  BY <1>9, <1>a DEF MarkPublished, history
<1>10. ASSUME NEW w \in Workers, MarkFails(w), HistoryKept
      PROVE  Simulated
  BY <1>10, <1>a DEF MarkFails, history
<1>11. ASSUME NEW d \in Dispatchers, HandleFailure(d), HistoryKept
      PROVE  Simulated
  BY <1>11, <1>a DEF HandleFailure, history
<1>12. ASSUME NEW w \in Workers, Crash(w), HistoryKept
      PROVE  Simulated
  BY <1>12, <1>a DEF Crash, history
<1>13. ASSUME NEW S \in SUBSET Rows, Cleanup(S), HistoryKept
      PROVE  Simulated
  BY <1>13, <1>a DEF Cleanup, history
<1>14. ASSUME NEW o \in Operators, LeaseFailed(o), HistoryKept
      PROVE  Simulated
  BY <1>14, <1>a DEF LeaseFailed, history
<1>15. ASSUME NEW o \in Operators, ResendFailed(o), HistoryKept
      PROVE  Simulated
  BY <1>15, <1>a DEF ResendFailed, history
<1>16. ASSUME NEW o \in Operators,
              NEW S \in {{x} : x \in Failed} \cup {Failed}, RequestResend(o, S), HistoryKept
      PROVE  Simulated
  BY <1>16, <1>a DEF RequestResend, history
<1>17. ASSUME NEW x \in Rows, Discard(x), HistoryKept
      PROVE  Simulated
  <2>1. /\ Loaded' = Loaded
        /\ [r \in Rows |-> Predecessors(r)]' = [r \in Rows |-> Predecessors(r)]
    BY <1>17, NothingLoaded DEF Discard, IInv
  <2>2. x \in Loaded
    BY <1>17 DEF Discard, Loaded, IInv, RowsOK, RowOK, Visible
  <2>3. Stream!Withdraw(x)
    BY <1>17, <2>1, <2>2 DEF Stream!Withdraw, Discard
  <2> QED
    BY <2>3 DEF Stream!StreamNext
<1>18. ASSUME NEW x \in Rows, BackoffElapses(x), HistoryKept
      PROVE  Simulated
  BY <1>18, <1>a DEF BackoffElapses, history
<1>19. ASSUME NEW c \in 1 .. leaseClock, LeaseExpires(c), HistoryKept
      PROVE  Simulated
  BY <1>19, <1>a DEF LeaseExpires, history
<1>20. ASSUME NEW c \in 1 .. leaseClock, LeaseExpiresEarly(c), HistoryKept
      PROVE  Simulated
  BY <1>20, <1>a DEF LeaseExpiresEarly, history
<1>21. ASSUME NEW S \in SUBSET PausableAggregates, SetGate(S), HistoryKept
      PROVE  Simulated
  BY <1>21, <1>a DEF SetGate, history
<1>22. ASSUME UNCHANGED vars, HistoryKept
      PROVE  Simulated
  BY <1>22, <1>a DEF vars, history
<1> HIDE DEF Simulated
<1>23. [Next]_vars => Simulated
  BY <1>b, <1>1, <1>2, <1>3, <1>4, <1>5, <1>6, <1>7, <1>8, <1>9, <1>10, <1>11, <1>12,
     <1>13, <1>14, <1>15, <1>16, <1>17, <1>18, <1>19, <1>20, <1>21, <1>22
     DEF Next, DispatcherStep, OperatorStep, Workers
<1> QED
  BY <1>23 DEF Simulated

\* The outbox implements the ordered stream, for any rows, runs and bounds.
THEOREM Implementation == Spec => ImplementsStream
<1>1. Init => Stream!StreamInit
  <2> SUFFICES ASSUME Init PROVE Stream!StreamInit
    OBVIOUS
  <2>1. Loaded = {} /\ \A r \in Rows : Predecessors(r) = {}
    BY DEF Init, Loaded, Predecessors, Precedes
  <2> QED
    BY <2>1 DEF Init, Stream!StreamInit
<1> QED
  BY <1>1, StreamStep, Invariance, PTL DEF Spec, ImplementsStream, Stream!StreamSpec

-----------------------------------------------------------------------------
(***************************************************************************)
(* As long as every run ended within its lease, a row is in the hands of   *)
(* one worker at most, and what is out or discarded stays so.              *)
(***************************************************************************)
Delivering == {"sending", "marking", "failing"}
\* A dispatcher has leased its whole list, an operator the row it is at.
Leased(w) ==
  {r \in held[w] : pc[w] \in Delivering /\ (w \in Dispatchers \/ IsHead(w, r))}

LeasesOK ==
  /\ threshold <= leaseClock
  /\ \A w \in Workers : \A r \in Leased(w) : status[r] = "PROCESSING" /\ threshold < leaseAt[r]
  /\ \A v \in Workers, w \in Workers : v # w => Leased(v) \cap Leased(w) = {}

Gone == \A r \in withdrawn : status[r] = "DISCARDED"

\* What comes before a row of its sequence that was begun does not go out any more.
Over == {"PUBLISHED", "DISCARDED", "absent"}
Passed ==
  \A s \in Rows, r \in Rows :
    Begun(s) /\ agg[r] = agg[s] /\ agg[s] \in SequencedAggregates /\ Precedes(r, s) =>
      status[r] \in Over

InTime == late = 0 => LeasesOK /\ Gone /\ Passed

\* A lease that expires under a run is counted.
LEMMA LateStep ==
  TypeOK /\ [Next]_vars => late' = late \/ (late < MaxLate /\ late' = late + 1)
<1> SUFFICES ASSUME TypeOK PROVE [Next]_vars => late' = late \/ (late < MaxLate /\ late' = late + 1)
  OBVIOUS
<1> DEFINE Counted == late' = late \/ (late < MaxLate /\ late' = late + 1)
<1>1. ASSUME NEW w \in Workers, DispatcherStep(w) \/ OperatorStep(w) \/ Crash(w) PROVE Counted
  BY <1>1 DEF DispatcherStep, OperatorStep, Requeue, Acquire, SendOk, SendFails, MarkPublished,
     MarkFails, HandleFailure, LeaseFailed, ResendFailed, Crash, bounds
<1>2. ASSUME NEW t \in openTx, \/ Commit(t) \/ Rollback(t)
                               \/ \E a \in Aggregates, k \in Keys : Enqueue(t, a, k)
      PROVE  Counted
  BY <1>2 DEF Enqueue, Commit, Rollback, bounds
<1>3. ASSUME NEW S, Cleanup(S) \/ SetGate(S) \/ \E o \in Operators : RequestResend(o, S)
      PROVE  Counted
  BY <1>3 DEF Cleanup, SetGate, RequestResend, bounds
<1>4. ASSUME NEW r \in Rows, Discard(r) \/ BackoffElapses(r) PROVE Counted
  BY <1>4 DEF Discard, BackoffElapses, bounds
<1>5. ASSUME NEW c, LeaseExpires(c) \/ LeaseExpiresEarly(c) PROVE Counted
  BY <1>5 DEF LeaseExpires, LeaseExpiresEarly, bounds
<1>6. BeginTx \/ UNCHANGED vars => Counted
  BY DEF BeginTx, vars, bounds
<1> QED
  BY <1>1, <1>2, <1>3, <1>4, <1>5, <1>6 DEF Next, Workers

\* One row is at the head of a list.
LEMMA OneHead ==
  ASSUME TypeOK, NEW w \in Workers, NEW q, NEW r, IsHead(w, q), IsHead(w, r)
  PROVE  q = r
<1>1. q \in Rows /\ r \in Rows /\ q \in held[w] /\ r \in held[w]
  BY DEF IsHead, TypeOK
<1>2. created[q] \in Nat /\ created[r] \in Nat /\ q \in Nat /\ r \in Nat
  BY <1>1 DEF TypeOK, Rows
<1>3. q = r \/ (Before(q, r) /\ Before(r, q))
  BY <1>1 DEF IsHead
<1> QED
  BY <1>2, <1>3 DEF Before

\* A list that stays as it is has the same head: its rows are committed.
LEMMA SameHead ==
  ASSUME TypeOK, ListsOK, HistoryKept, NEW w \in Workers, held'[w] = held[w], NEW r
  PROVE  IsHead(w, r)' <=> IsHead(w, r)
<1>1. \A q \in held[w] : q \in Rows /\ created'[q] = created[q]
  BY DEF TypeOK, ListsOK, HistoryKept
<1> QED
  BY <1>1 DEF IsHead, Before

\* A worker that goes on with its list, or stands still, leases nothing.
LEMMA SameLeases ==
  ASSUME TypeOK, ListsOK, HistoryKept, NEW w \in Workers, held'[w] = held[w],
         pc'[w] \in Delivering => pc[w] \in Delivering
  PROVE  Leased(w)' \subseteq Leased(w)
  BY SameHead DEF Leased

\* A worker that is done with a row has it no longer.
LEMMA AdvanceLeases ==
  ASSUME TypeOK, NEW w \in Workers, NEW x \in held[w], Advance(w, x), IsHead(w, x),
         pc[w] \in Delivering \/ w \in Operators
  PROVE  /\ Leased(w)' \subseteq Leased(w) \ {x}
         /\ \A v \in Workers : v # w => held'[v] = held[v] /\ pc'[v] = pc[v]
<1>1. /\ held'[w] = held[w] \ {x}
      /\ pc'[w] = IF held[w] = {x} THEN "idle" ELSE IF w \in Dispatchers THEN "sending" ELSE "leasing"
      /\ \A v \in Workers : v # w => held'[v] = held[v] /\ pc'[v] = pc[v]
  BY DEF Advance, TypeOK
<1>2. CASE w \in Dispatchers
  BY <1>1, <1>2, OutboxAssumption DEF Leased
<1>3. CASE w \notin Dispatchers
  BY <1>1, <1>3 DEF Leased, Delivering
<1> QED
  BY <1>1, <1>2, <1>3

Fresh(r) == status[r] \in {"PENDING", "FAILED"} /\ status'[r] = "PROCESSING" /\ leaseAt'[r] = leaseClock + 1
\* One worker w moves: it may lease rows that nobody works at, and what stays leased is
\* not written and does not expire.
LeaseEffect(w) ==
  /\ threshold' <= leaseClock /\ leaseClock <= leaseClock'
  /\ \A v \in Workers : \A r \in Leased(v)' : r \in Leased(v) \/ (v = w /\ Fresh(r))
  /\ \A v \in Workers : \A r \in Leased(v) \cap Leased(v)' :
       status'[r] = status[r] /\ threshold' < leaseAt'[r]

LEMMA LeasesStay ==
  ASSUME TypeOK, TypeOK', LeasesOK, NEW w, LeaseEffect(w)
  PROVE  LeasesOK'
<1>1. ASSUME NEW v \in Workers, NEW r \in Leased(v)'
      PROVE  status'[r] = "PROCESSING" /\ threshold' < leaseAt'[r]
  <2>1. CASE r \in Leased(v)
    BY <1>1, <2>1 DEF LeaseEffect, LeasesOK
  <2>2. CASE r \notin Leased(v)
    <3>1. Fresh(r) /\ r \in Rows
      BY <1>1, <2>2 DEF LeaseEffect, Leased, TypeOK
    <3>2. threshold' <= leaseClock /\ leaseClock \in Nat /\ threshold' \in Nat
      BY <3>1 DEF LeaseEffect, TypeOK
    <3> QED
      BY <3>1, <3>2 DEF Fresh
  <2> QED
    BY <2>1, <2>2
<1>2. ASSUME NEW v \in Workers, NEW u \in Workers, v # u, NEW r \in Leased(v)', r \in Leased(u)'
      PROVE  FALSE
  <2>1. (r \in Leased(v) \/ (v = w /\ Fresh(r))) /\ (r \in Leased(u) \/ (u = w /\ Fresh(r)))
    BY <1>2 DEF LeaseEffect
  <2>2. ~(r \in Leased(v) /\ r \in Leased(u))
    BY <1>2 DEF LeasesOK
  <2>3. r \in Leased(v) \/ r \in Leased(u) => status[r] = "PROCESSING"
    BY DEF LeasesOK
  <2> QED
    BY <1>2, <2>1, <2>2, <2>3 DEF Fresh
<1>3. threshold' <= leaseClock'
  BY DEF LeaseEffect, TypeOK
<1> QED
  BY <1>1, <1>2, <1>3 DEF LeasesOK

\* Nothing is leased, and what stays leased is left alone.
LEMMA QuietLeases ==
  ASSUME TypeOK, TypeOK', LeasesOK, UNCHANGED leases,
         \A v \in Workers : Leased(v)' \subseteq Leased(v),
         \A v \in Workers : \A r \in Leased(v)' : status'[r] = status[r] /\ leaseAt'[r] = leaseAt[r]
  PROVE  LeasesOK'
<1>1. threshold' = threshold /\ leaseClock' = leaseClock /\ leaseClock \in Nat
  BY DEF leases, TypeOK
<1>2. \A v \in Workers : \A r \in Leased(v) \cap Leased(v)' :
        status'[r] = status[r] /\ threshold' < leaseAt'[r]
  BY <1>1 DEF LeasesOK
<1>3. LeaseEffect(0)
  BY <1>1, <1>2 DEF LeaseEffect, LeasesOK
<1> QED
  BY <1>3, LeasesStay

\* No worker's place changes but from one step of a delivery to the next.
LEMMA StillLeases ==
  ASSUME TypeOK, TypeOK', LeasesOK, ListsOK, HistoryKept, UNCHANGED leases,
         \A v \in Workers : held'[v] = held[v] /\ (pc'[v] \in Delivering => pc[v] \in Delivering),
         \A r \in Rows : status[r] = "PROCESSING" /\ threshold < leaseAt[r] =>
                           status'[r] = status[r] /\ leaseAt'[r] = leaseAt[r]
  PROVE  LeasesOK'
<1>1. \A v \in Workers : Leased(v)' \subseteq Leased(v)
  BY SameLeases
<1>2. \A v \in Workers : \A r \in Leased(v) :
        r \in Rows /\ status'[r] = status[r] /\ leaseAt'[r] = leaseAt[r]
  BY DEF LeasesOK, Leased, TypeOK
<1> QED
  BY <1>1, <1>2, QuietLeases

\* Who writes the row it is at gives it up with that.
LEMMA WriteLeases ==
  ASSUME TypeOK, TypeOK', LeasesOK, ListsOK, HistoryKept, UNCHANGED leases,
         NEW w \in Workers, pc[w] \in Delivering, NEW x \in held[w], IsHead(w, x), Advance(w, x),
         NEW s, SetStatus(x, s)
  PROVE  LeasesOK' /\ status[x] = "PROCESSING"
<1>1. x \in Leased(w) /\ x \in Rows
  BY DEF Leased, TypeOK
<1>2. \A r \in Rows : r # x => status'[r] = status[r] /\ leaseAt'[r] = leaseAt[r]
  BY DEF SetStatus, TypeOK
<1>3. /\ Leased(w)' \subseteq Leased(w) \ {x}
      /\ \A v \in Workers : v # w => held'[v] = held[v] /\ pc'[v] = pc[v]
  BY AdvanceLeases
<1>4. \A v \in Workers : v # w => Leased(v)' \subseteq Leased(v)
  BY <1>3, SameLeases
<1>5. \A v \in Workers : v # w => x \notin Leased(v)
  BY <1>1 DEF LeasesOK
<1>6. \A v \in Workers : Leased(v) \subseteq Rows
  BY DEF Leased, TypeOK
<1>7. \A v \in Workers : Leased(v)' \subseteq Leased(v) /\ x \notin Leased(v)'
  BY <1>3, <1>4, <1>5
<1>8. \A v \in Workers : \A r \in Leased(v)' : status'[r] = status[r] /\ leaseAt'[r] = leaseAt[r]
  BY <1>2, <1>6, <1>7
<1>9. status[x] = "PROCESSING"
  BY <1>1 DEF LeasesOK
<1> QED
  BY <1>7, <1>8, <1>9, QuietLeases

\* A dispatcher leases rows that wait: nobody works at them.
LEMMA AcquireLeases ==
  ASSUME TypeOK, TypeOK', LeasesOK, ListsOK, HistoryKept, NEW d \in Dispatchers, Acquire(d)
  PROVE  LeasesOK'
<1>1. d \in Workers /\ \A r \in Batch : r \in Rows /\ status[r] = "PENDING"
  BY DEF Workers, Batch, Eligible
<1>2. CASE Batch = {}
  <2>1. UNCHANGED <<leases, status, leaseAt, held>> /\ pc' = [pc EXCEPT ![d] = "idle"]
    BY <1>2 DEF Acquire, leases
  <2>2. \A v \in Workers : held'[v] = held[v] /\ (pc'[v] \in Delivering => pc[v] \in Delivering)
    BY <2>1 DEF TypeOK, Delivering
  <2> QED
    BY <2>1, <2>2, StillLeases
<1>3. CASE Batch # {}
  <2>1. /\ threshold' = threshold /\ leaseClock' = leaseClock + 1
        /\ held' = [held EXCEPT ![d] = Batch] /\ pc' = [pc EXCEPT ![d] = "sending"]
        /\ status' = [r \in Rows |-> IF r \in Batch THEN "PROCESSING" ELSE status[r]]
        /\ leaseAt' = [r \in Rows |-> IF r \in Batch THEN leaseClock + 1 ELSE leaseAt[r]]
    BY <1>3 DEF Acquire
  <2>2. held'[d] = Batch /\ \A v \in Workers : v # d => held'[v] = held[v] /\ pc'[v] = pc[v]
    BY <1>1, <2>1 DEF TypeOK
  <2>3. \A v \in Workers : v # d => Leased(v)' \subseteq Leased(v)
    BY <2>2, SameLeases
  <2>4. \A r \in Leased(d)' : Fresh(r)
    BY <1>1, <2>1, <2>2 DEF Leased, Fresh
  <2>5. \A v \in Workers : \A r \in Leased(v) :
          r \in Rows /\ r \notin Batch /\ threshold < leaseAt[r]
    BY <1>1 DEF LeasesOK, Leased, TypeOK
  <2>6. \A v \in Workers : \A r \in Leased(v) : status'[r] = status[r] /\ threshold' < leaseAt'[r]
    BY <2>1, <2>5
  <2>7. threshold' <= leaseClock /\ leaseClock <= leaseClock'
    BY <2>1 DEF LeasesOK, TypeOK
  <2>8. LeaseEffect(d)
    BY <2>3, <2>4, <2>6, <2>7 DEF LeaseEffect
  <2> QED
    BY <2>8, LeasesStay
<1> QED
  BY <1>2, <1>3

\* An operator leases a row that is FAILED, or goes on to the next one.
LEMMA ResendLeases ==
  ASSUME TypeOK, TypeOK', LeasesOK, ListsOK, HistoryKept, NEW o \in Operators, LeaseFailed(o)
  PROVE  LeasesOK'
<1>1. PICK x \in held[o] :
        /\ IsHead(o, x)
        /\ \/ /\ status[x] = "FAILED" /\ leaseClock' = leaseClock + 1
              /\ status' = [status EXCEPT ![x] = "PROCESSING"]
              /\ leaseAt' = [leaseAt EXCEPT ![x] = leaseClock + 1]
              /\ pc' = [pc EXCEPT ![o] = "sending"]
              /\ held' = held
           \/ Advance(o, x) /\ UNCHANGED <<status, leaseClock, leaseAt>>
  BY DEF LeaseFailed, Resendable
<1>2. threshold' = threshold
  BY DEF LeaseFailed
<1>3. o \in Workers /\ o \notin Dispatchers /\ x \in Rows
  BY OutboxAssumption DEF Workers, TypeOK
<1>4. CASE Advance(o, x) /\ UNCHANGED <<status, leaseClock, leaseAt>>
  <2>1. /\ Leased(o)' \subseteq Leased(o)
        /\ \A v \in Workers : v # o => held'[v] = held[v] /\ pc'[v] = pc[v]
    BY <1>1, <1>3, <1>4, AdvanceLeases
  <2>2. \A v \in Workers : Leased(v)' \subseteq Leased(v)
    BY <2>1, SameLeases
  <2> QED
    BY <1>2, <1>4, <2>2, QuietLeases DEF leases
<1>5. CASE /\ status[x] = "FAILED" /\ leaseClock' = leaseClock + 1
           /\ status' = [status EXCEPT ![x] = "PROCESSING"]
           /\ leaseAt' = [leaseAt EXCEPT ![x] = leaseClock + 1]
           /\ pc' = [pc EXCEPT ![o] = "sending"]
           /\ held' = held
  <2>1. \A v \in Workers : v # o => Leased(v)' \subseteq Leased(v)
    <3>1. \A v \in Workers : v # o => held'[v] = held[v] /\ pc'[v] = pc[v]
      BY <1>5 DEF TypeOK
    <3> QED
      BY <3>1, SameLeases
  <2>2. Fresh(x)
    BY <1>3, <1>5 DEF Fresh, TypeOK
  <2>3. \A r \in Leased(o)' : IsHead(o, r)
    BY <1>3, <1>5, SameHead DEF Leased
  <2>4. \A r \in Leased(o)' : r = x
    BY <1>1, <1>3, <2>3, OneHead
  <2>5. \A v \in Workers : \A r \in Leased(v) : r \in Rows /\ r # x /\ threshold < leaseAt[r]
    BY <1>5 DEF LeasesOK, Leased, TypeOK
  <2>6. \A r \in Rows : r # x => status'[r] = status[r] /\ leaseAt'[r] = leaseAt[r]
    BY <1>5 DEF TypeOK
  <2>7. \A v \in Workers : \A r \in Leased(v) : status'[r] = status[r] /\ threshold' < leaseAt'[r]
    BY <1>2, <2>5, <2>6
  <2>8. threshold' <= leaseClock /\ leaseClock <= leaseClock'
    BY <1>2, <1>5 DEF LeasesOK, TypeOK
  <2>9. LeaseEffect(o)
    BY <2>1, <2>2, <2>4, <2>7, <2>8 DEF LeaseEffect
  <2> QED
    BY <2>9, LeasesStay
<1> QED
  BY <1>1, <1>4, <1>5

\* Time passes the leases of those who are gone.
LEMMA ExpiryLeases ==
  ASSUME TypeOK, TypeOK', LeasesOK, ListsOK, HistoryKept, NEW c \in 1 .. leaseClock, LeaseExpires(c)
  PROVE  LeasesOK'
<1>1. /\ threshold' = c /\ ~ StillHeld(Expiring(c))
      /\ UNCHANGED <<status, leaseAt, leaseClock, pc, held>>
  BY DEF LeaseExpires, table, memory
<1>2. \A v \in Workers : Leased(v)' \subseteq Leased(v)
  BY <1>1, SameLeases
<1>3. ASSUME NEW v \in Workers, NEW r \in Leased(v) PROVE c < leaseAt[r]
  <2>1. r \in Rows /\ r \in held[v] /\ pc[v] # "leasing"
    BY DEF Leased, TypeOK, Delivering
  <2>2. r \notin Expiring(c)
    BY <1>1, <2>1 DEF StillHeld
  <2>3. status[r] = "PROCESSING" /\ threshold < leaseAt[r]
    BY DEF LeasesOK
  <2>4. leaseAt[r] \in Nat /\ threshold \in Nat /\ c \in Nat
    BY <2>1 DEF TypeOK
  <2> QED
    BY <2>1, <2>2, <2>3, <2>4 DEF Expiring
<1>4. \A v \in Workers : \A r \in Leased(v) : status'[r] = status[r] /\ threshold' < leaseAt'[r]
  BY <1>1, <1>3
<1>5. threshold' <= leaseClock /\ leaseClock <= leaseClock'
  BY <1>1 DEF TypeOK
<1>6. LeaseEffect(0)
  BY <1>2, <1>4, <1>5 DEF LeaseEffect
<1> QED
  BY <1>6, LeasesStay

\* A worker gives its list up, or an operator starts one: it leases nothing with that.
LEMMA DroppedLeases ==
  ASSUME TypeOK, TypeOK', LeasesOK, ListsOK, HistoryKept, UNCHANGED <<table, leases>>,
         NEW w \in Workers, NEW l, NEW p, p \notin Delivering,
         held' = [held EXCEPT ![w] = l], pc' = [pc EXCEPT ![w] = p]
  PROVE  LeasesOK'
<1>1. pc'[w] = p /\ \A v \in Workers : v # w => held'[v] = held[v] /\ pc'[v] = pc[v]
  BY DEF TypeOK
<1>2. Leased(w)' = {}
  BY <1>1 DEF Leased
<1>3. \A v \in Workers : Leased(v)' \subseteq Leased(v)
  BY <1>1, <1>2, SameLeases
<1> QED
  BY <1>3, QuietLeases DEF table

\* While no lease expires under a run, the leases stay disjoint.
LEMMA LeasesStep ==
  ASSUME TypeOK, TypeOK', RowsOK, ListsOK, LeasesOK, late' = 0
  PROVE  [Next]_vars => LeasesOK'
<1>0. [Next]_vars => HistoryKept
  BY HistoryStep
<1>a. ASSUME HistoryKept, UNCHANGED <<table, leases, held, pc>> PROVE LeasesOK'
  BY <1>a, StillLeases DEF table
<1>1. ASSUME BeginTx, HistoryKept
      PROVE  LeasesOK'
  BY <1>1, <1>a DEF BeginTx, memory
<1>2. ASSUME NEW t \in openTx, NEW a \in Aggregates, NEW k \in Keys, Enqueue(t, a, k), HistoryKept
      PROVE  LeasesOK'
  <2>1. lastId + 1 \in Rows /\ status[lastId + 1] = "absent"
    BY <1>2 DEF Enqueue, RowsOK, RowOK, TypeOK
  <2>2. UNCHANGED <<leases, held, pc, leaseAt>> /\ status' = [status EXCEPT ![lastId + 1] = "uncommitted"]
    BY <1>2 DEF Enqueue, memory
  <2>3. \A r \in Rows : status[r] = "PROCESSING" => status'[r] = status[r]
    BY <2>1, <2>2 DEF TypeOK
  <2> QED
    BY <1>2, <2>2, <2>3, StillLeases
<1>3. ASSUME NEW t \in openTx, Commit(t), HistoryKept
      PROVE  LeasesOK'
  BY <1>3, StillLeases DEF Commit, WrittenBy, memory
<1>4. ASSUME NEW t \in openTx, Rollback(t), HistoryKept
      PROVE  LeasesOK'
  BY <1>4, StillLeases DEF Rollback, WrittenBy, memory
<1>5. ASSUME NEW d \in Dispatchers, Requeue(d), HistoryKept
      PROVE  LeasesOK'
  <2>1. \A r \in Rows : status[r] = "PROCESSING" /\ threshold < leaseAt[r] => ~ IsStale(r)
    BY DEF IsStale, TypeOK
  <2>2. \A r \in Rows : ~ IsStale(r) => status'[r] = status[r] /\ leaseAt'[r] = leaseAt[r]
    BY <1>5 DEF Requeue
  <2>3. \A v \in Workers : held'[v] = held[v] /\ (pc'[v] \in Delivering => pc[v] \in Delivering)
    BY <1>5 DEF Requeue, TypeOK, Delivering
  <2> QED
    BY <1>5, <2>1, <2>2, <2>3, StillLeases DEF Requeue
<1>6. ASSUME NEW d \in Dispatchers, Acquire(d), HistoryKept
      PROVE  LeasesOK'
  BY <1>6, AcquireLeases
<1>7. ASSUME NEW w \in Workers, SendOk(w) \/ SendFails(w) \/ MarkFails(w), HistoryKept
      PROVE  LeasesOK'
  <2>1. UNCHANGED <<table, leases, held>>
    BY <1>7 DEF SendOk, SendFails, MarkFails
  <2>2. \A v \in Workers : pc'[v] \in Delivering => pc[v] \in Delivering
    BY <1>7 DEF SendOk, SendFails, MarkFails, TypeOK, Delivering
  <2> QED
    BY <1>7, <2>1, <2>2, StillLeases DEF table
<1>8. ASSUME NEW w \in Workers, MarkPublished(w), HistoryKept
      PROVE  LeasesOK'
  <2>1. PICK x \in held[w] : IsHead(w, x) /\ SetStatus(x, "PUBLISHED") /\ Advance(w, x)
    BY <1>8 DEF MarkPublished
  <2> QED
    BY <1>8, <2>1, WriteLeases DEF MarkPublished, Delivering
<1>9. ASSUME NEW d \in Dispatchers, HandleFailure(d), HistoryKept
      PROVE  LeasesOK'
  <2>1. PICK x \in held[d] :
          IsHead(d, x) /\ SetStatus(x, FailureStatus(snap[d][x] + 1)) /\ Advance(d, x)
    BY <1>9 DEF HandleFailure
  <2>2. d \in Workers
    BY DEF Workers
  <2> QED
    BY <1>9, <2>1, <2>2, WriteLeases DEF HandleFailure, Delivering
<1>10. ASSUME NEW o \in Operators, ResendFailed(o), HistoryKept
      PROVE  LeasesOK'
  <2>1. PICK x \in held[o] : IsHead(o, x) /\ SetStatus(x, "FAILED") /\ Advance(o, x)
    BY <1>10 DEF ResendFailed
  <2>2. o \in Workers
    BY DEF Workers
  <2> QED
    BY <1>10, <2>1, <2>2, WriteLeases DEF ResendFailed, Delivering
<1>11. ASSUME NEW w \in Workers, Crash(w), HistoryKept
      PROVE  LeasesOK'
  BY <1>11, DroppedLeases DEF Crash, Delivering
<1>12. ASSUME NEW S \in SUBSET Rows, Cleanup(S), HistoryKept
      PROVE  LeasesOK'
  BY <1>12, StillLeases DEF Cleanup, Cleanable, memory
<1>13. ASSUME NEW o \in Operators, LeaseFailed(o), HistoryKept
      PROVE  LeasesOK'
  BY <1>13, ResendLeases
<1>14. ASSUME NEW o \in Operators, NEW S, RequestResend(o, S), HistoryKept
      PROVE  LeasesOK'
  BY <1>14, DroppedLeases DEF RequestResend, Delivering, Workers
<1>15. ASSUME NEW x \in Rows, Discard(x), HistoryKept
      PROVE  LeasesOK'
  <2>1. \A r \in Rows : status[r] = "PROCESSING" => status'[r] = status[r] /\ leaseAt'[r] = leaseAt[r]
    BY <1>15 DEF Discard, TypeOK
  <2> QED
    BY <1>15, <2>1, StillLeases DEF Discard, memory
<1>16. ASSUME NEW x \in Rows, BackoffElapses(x), HistoryKept
      PROVE  LeasesOK'
  BY <1>16, StillLeases DEF BackoffElapses, memory
<1>17. ASSUME NEW c \in 1 .. leaseClock, LeaseExpires(c), HistoryKept
      PROVE  LeasesOK'
  BY <1>17, ExpiryLeases
<1>18. ASSUME NEW c \in 1 .. leaseClock, LeaseExpiresEarly(c)
      PROVE  LeasesOK'
  BY <1>18 DEF LeaseExpiresEarly, TypeOK
<1>19. ASSUME NEW S \in SUBSET PausableAggregates, SetGate(S), HistoryKept
      PROVE  LeasesOK'
  BY <1>19, <1>a DEF SetGate, memory
<1>20. ASSUME UNCHANGED vars, HistoryKept
      PROVE  LeasesOK'
  BY <1>20, <1>a DEF vars, memory
<1> QED
  BY <1>0, <1>1, <1>2, <1>3, <1>4, <1>5, <1>6, <1>7, <1>8, <1>9, <1>10, <1>11, <1>12, <1>13,
     <1>14, <1>15, <1>16, <1>17, <1>18, <1>19, <1>20
     DEF Next, DispatcherStep, OperatorStep, Workers

\* What a step may do to the status of a row while the leases hold.
StatusMove(r) ==
  \/ UNCHANGED <<status[r], withdrawn>>
  \/ commitAt[r] = 0 /\ UNCHANGED withdrawn
  \/ status[r] \in {"PENDING", "PROCESSING"} /\ UNCHANGED withdrawn
  \/ status[r] = "FAILED" /\ (UNCHANGED withdrawn \/ status'[r] = "DISCARDED")
  \/ status[r] = "PUBLISHED" /\ status'[r] = "absent" /\ UNCHANGED withdrawn

\* A worker writes only the row it has leased.
LEMMA WriteMoves ==
  ASSUME TypeOK, LeasesOK, NEW r \in Rows, NEW w \in Workers, pc[w] \in Delivering,
         NEW x \in held[w], IsHead(w, x), NEW s, SetStatus(x, s), UNCHANGED withdrawn
  PROVE  StatusMove(r)
<1>1. x \in Leased(w)
  BY DEF Leased
<1>2. status[x] = "PROCESSING"
  BY <1>1 DEF LeasesOK
<1>3. r # x => status'[r] = status[r]
  BY DEF SetStatus, TypeOK
<1> QED
  BY <1>2, <1>3 DEF StatusMove

LEMMA StatusStep ==
  ASSUME TypeOK, RowsOK, LeasesOK, NEW r \in Rows
  PROVE  [Next]_vars => StatusMove(r) \/ \E x \in Rows : x # r /\ Discard(x)
<1> DEFINE Moved == StatusMove(r) \/ \E x \in Rows : x # r /\ Discard(x)
<1>a. ASSUME UNCHANGED <<status, withdrawn>> PROVE Moved
  BY <1>a DEF StatusMove
<1>1. ASSUME BeginTx PROVE Moved
  BY <1>1 DEF BeginTx, table, history, StatusMove
<1>2. ASSUME NEW t \in openTx, NEW a \in Aggregates, NEW k \in Keys, Enqueue(t, a, k)
      PROVE  Moved
  <2>1. commitAt[lastId + 1] = 0 /\ withdrawn' = withdrawn
    BY <1>2 DEF Enqueue, RowsOK, RowOK, TypeOK, history
  <2>2. r # lastId + 1 => status'[r] = status[r]
    BY <1>2 DEF Enqueue, TypeOK
  <2> QED
    BY <2>1, <2>2 DEF StatusMove
<1>3. ASSUME NEW t \in openTx, Commit(t) \/ Rollback(t)
      PROVE  Moved
  <2>1. r \in WrittenBy(t) => commitAt[r] = 0
    BY DEF WrittenBy, RowsOK, RowOK
  <2>2. withdrawn' = withdrawn /\ (r \notin WrittenBy(t) => status'[r] = status[r])
    BY <1>3 DEF Commit, Rollback, history
  <2> QED
    BY <2>1, <2>2 DEF StatusMove
<1>4. ASSUME NEW d \in Dispatchers, Requeue(d)
      PROVE  Moved
  <2>1. withdrawn' = withdrawn /\ (~ IsStale(r) => status'[r] = status[r])
    BY <1>4 DEF Requeue
  <2> QED
    BY <2>1 DEF StatusMove, IsStale
<1>5. ASSUME NEW d \in Dispatchers, Acquire(d)
      PROVE  Moved
  <2>1. withdrawn' = withdrawn /\ (r \notin Batch => status'[r] = status[r])
    BY <1>5 DEF Acquire, history
  <2> QED
    BY <2>1 DEF StatusMove, Batch, Eligible
<1>6. ASSUME NEW w \in Workers, SendOk(w) \/ SendFails(w) \/ MarkFails(w) \/ Crash(w)
      PROVE  Moved
  BY <1>6 DEF SendOk, SendFails, MarkFails, Crash, table, history, StatusMove
<1>7. ASSUME NEW w \in Workers, MarkPublished(w)
      PROVE  Moved
  <2>1. PICK x \in held[w] : IsHead(w, x) /\ SetStatus(x, "PUBLISHED")
    BY <1>7 DEF MarkPublished
  <2>2. pc[w] \in Delivering /\ withdrawn' = withdrawn
    BY <1>7 DEF MarkPublished, Delivering, history
  <2> QED
    BY <2>1, <2>2, WriteMoves
<1>8. ASSUME NEW d \in Dispatchers, HandleFailure(d)
      PROVE  Moved
  <2>1. PICK x \in held[d] : IsHead(d, x) /\ SetStatus(x, FailureStatus(snap[d][x] + 1))
    BY <1>8 DEF HandleFailure
  <2>2. d \in Workers /\ pc[d] \in Delivering /\ withdrawn' = withdrawn
    BY <1>8 DEF HandleFailure, Delivering, Workers
  <2> QED
    BY <2>1, <2>2, WriteMoves
<1>9. ASSUME NEW o \in Operators, ResendFailed(o)
      PROVE  Moved
  <2>1. PICK x \in held[o] : IsHead(o, x) /\ SetStatus(x, "FAILED")
    BY <1>9 DEF ResendFailed
  <2>2. o \in Workers /\ pc[o] \in Delivering /\ withdrawn' = withdrawn
    BY <1>9 DEF ResendFailed, Delivering, Workers
  <2> QED
    BY <2>1, <2>2, WriteMoves
<1>10. ASSUME NEW S \in SUBSET Rows, Cleanup(S)
      PROVE  Moved
  <2>1. /\ withdrawn' = withdrawn /\ (r \notin S => status'[r] = status[r])
        /\ r \in S => status[r] = "PUBLISHED" /\ status'[r] = "absent"
    BY <1>10 DEF Cleanup, Cleanable, history
  <2> QED
    BY <2>1 DEF StatusMove
<1>11. ASSUME NEW o \in Operators, LeaseFailed(o)
      PROVE  Moved
  <2>1. withdrawn' = withdrawn /\ (status[r] = "FAILED" \/ status'[r] = status[r])
    BY <1>11 DEF LeaseFailed, Resendable, TypeOK, history
  <2> QED
    BY <2>1 DEF StatusMove
<1>12. ASSUME NEW o \in Operators, NEW S, RequestResend(o, S)
      PROVE  Moved
  BY <1>12 DEF RequestResend, table, history, StatusMove
<1>13. ASSUME NEW x \in Rows, Discard(x)
      PROVE  Moved
  <2>1. status[x] = "FAILED" /\ status'[x] = "DISCARDED"
    BY <1>13 DEF Discard, TypeOK
  <2> QED
    BY <1>13, <2>1 DEF StatusMove
<1>14. ASSUME NEW x \in Rows, BackoffElapses(x)
      PROVE  Moved
  BY <1>14 DEF BackoffElapses, history, StatusMove
<1>15. ASSUME NEW c \in 1 .. leaseClock, LeaseExpires(c) \/ LeaseExpiresEarly(c)
      PROVE  Moved
  BY <1>15 DEF LeaseExpires, LeaseExpiresEarly, table, history, StatusMove
<1>16. ASSUME NEW S \in SUBSET PausableAggregates, SetGate(S)
      PROVE  Moved
  BY <1>16 DEF SetGate, table, history, StatusMove
<1>17. ASSUME UNCHANGED vars
      PROVE  Moved
  BY <1>17 DEF vars, table, history, StatusMove
<1> HIDE DEF Moved
<1>18. [Next]_vars => Moved
  BY <1>1, <1>2, <1>3, <1>4, <1>5, <1>6, <1>7, <1>8, <1>9, <1>10, <1>11, <1>12, <1>13,
     <1>14, <1>15, <1>16, <1>17
     DEF Next, DispatcherStep, OperatorStep, Workers
<1> QED
  BY <1>18 DEF Moved

\* What is out or discarded does not come back.
LEMMA KeptStep ==
  ASSUME TypeOK, RowsOK, LeasesOK, [Next]_vars, NEW r \in Rows
  PROVE  /\ commitAt[r] > 0 /\ status[r] \in Over => status'[r] \in Over
         /\ r \in withdrawn /\ status[r] = "DISCARDED" => status'[r] = "DISCARDED"
         /\ r \in withdrawn' => r \in withdrawn \/ status'[r] = "DISCARDED"
<1>1. status[r] = "DISCARDED" => commitAt[r] > 0
  BY DEF RowsOK, RowOK, Visible
<1>2. CASE StatusMove(r)
  BY <1>1, <1>2 DEF StatusMove, Over
<1>3. ASSUME NEW x \in Rows, x # r, Discard(x)
      PROVE  status'[r] = status[r] /\ (r \in withdrawn' => r \in withdrawn)
  BY <1>3 DEF Discard, TypeOK
<1> QED
  BY <1>2, <1>3, StatusStep

LEMMA GoneStep ==
  ASSUME TypeOK, TypeOK', RowsOK, LeasesOK, Gone, [Next]_vars
  PROVE  Gone'
<1> SUFFICES ASSUME NEW r \in withdrawn' PROVE status'[r] = "DISCARDED"
  BY DEF Gone
<1>1. r \in Rows
  BY DEF TypeOK
<1> QED
  BY <1>1, KeptStep DEF Gone

\* What a row that can be leased comes after is over.
LEMMA BatchPassed ==
  ASSUME TypeOK, RowsOK, NEW s \in Batch, NEW r \in Rows, agg[r] = agg[s],
         agg[s] \in SequencedAggregates, Precedes(r, s)
  PROVE  status[r] \in Over
<1>1. s \in Rows /\ AggregateClear(s)
  BY DEF Batch, Eligible
<1>2. commitAt[r] > 0 /\ Before(r, s)
  BY <1>1 DEF Precedes, TypeOK
<1>3. status[r] \in Statuses /\ status[r] # "uncommitted"
  BY <1>2 DEF RowsOK, RowOK, TypeOK
<1>4. status[r] \notin Unpublished \cup {"FAILED"}
  BY <1>1, <1>2 DEF AggregateClear
<1> QED
  BY <1>3, <1>4 DEF Statuses, Visible, Unpublished, Over

LEMMA PassedStep ==
  ASSUME TypeOK, TypeOK', RowsOK, ListsOK, LeasesOK, Passed, [Next]_vars
  PROVE  Passed'
<1> SUFFICES ASSUME NEW s \in Rows, NEW r \in Rows, Begun(s)', agg'[r] = agg'[s],
                    agg'[s] \in SequencedAggregates, Precedes(r, s)'
             PROVE  status'[r] \in Over
  BY DEF Passed
<1>1. HistoryKept /\ (Begun(s) \/ s \in Batch)
  BY HistoryStep, BegunStep
<1>2. commitAt[s] > 0
  BY <1>1, BegunCommitted DEF Batch, Eligible, RowsOK, RowOK, Visible
<1>3. commitAt[s] \in Nat /\ commits \in Nat /\ commitAt[r] \in Nat /\ commitAt[s] <= commits
  BY DEF TypeOK, RowsOK, RowOK
<1>4. /\ commitAt'[s] = commitAt[s] /\ created'[s] = created[s] /\ agg'[s] = agg[s]
      /\ commitAt[r] > 0 => UNCHANGED <<commitAt[r], created[r], agg[r]>>
      /\ commitAt[r] = 0 => commitAt'[r] \in {0, commits + 1}
  BY <1>1, <1>2 DEF HistoryKept
<1>5. commitAt[r] > 0
  BY <1>3, <1>4 DEF Precedes
<1>6. Precedes(r, s) /\ agg[r] = agg[s] /\ agg[s] \in SequencedAggregates
  BY <1>4, <1>5 DEF Precedes, Before
<1>7. status[r] \in Over
  BY <1>1, <1>6, BatchPassed DEF Passed
<1> QED
  BY <1>5, <1>7, KeptStep

LEMMA TimelyInit == Init => InTime
<1> SUFFICES ASSUME Init PROVE LeasesOK /\ Gone /\ Passed
  BY DEF InTime
<1>1. LeasesOK
  BY DEF Init, LeasesOK, Leased
<1>2. Gone
  BY DEF Init, Gone
<1>3. Passed
  BY DEF Init, Passed, Begun
<1> QED
  BY <1>1, <1>2, <1>3

LEMMA TimelyStep == IInv /\ IInv' /\ InTime /\ [Next]_vars => InTime'
<1> SUFFICES ASSUME IInv, IInv', InTime, [Next]_vars, late' = 0
             PROVE  LeasesOK' /\ Gone' /\ Passed'
  BY DEF InTime
<1>1. late = 0
  BY LateStep DEF IInv, TypeOK
<1> QED
  BY <1>1, LeasesStep, GoneStep, PassedStep DEF IInv, InTime

\* While every run has ended within its lease, nobody writes a row another run has
\* leased, and what is out or discarded stays so, for any rows, runs and bounds.
THEOREM Timely == Spec => []InTime
  BY TimelyInit, TimelyStep, Invariance, PTL DEF Spec

\* Who sends a row has leased it: it is not discarded, and no later row of its
\* sequence went out.
LEMMA TimelySends ==
  ASSUME IInv, InTime, late = 0, NEW r \in Rows, Sends(r)
  PROVE  /\ r \notin withdrawn
         /\ agg[r] \in SequencedAggregates =>
              ~ \E s \in sent : agg[s] = agg[r] /\ Precedes(r, s)
<1>1. PICK w \in Workers : pc[w] = "sending" /\ IsHead(w, r)
  BY DEF Sends
<1>2. r \in Leased(w)
  BY <1>1 DEF Leased, Delivering, IsHead
<1>3. status[r] = "PROCESSING" /\ Gone /\ Passed
  BY <1>2 DEF InTime, LeasesOK
<1>4. \A s \in sent : s \in Rows /\ Begun(s)
  BY DEF IInv, TypeOK, Begun
<1> QED
  BY <1>3, <1>4 DEF Gone, Passed, Over

\* Where no lease expires under a run, resends included, the broker is handed no row
\* that an operator discarded and none that its sequence has gone past.
THEOREM NoStaleSends == ASSUME MaxLate = 0 PROVE Spec => NoStaleResend
<1>1. Init => late = 0
  BY DEF Init
<1>2. IInv /\ late = 0 /\ [Next]_vars => (late = 0)'
  BY LateStep DEF IInv
<1>3. Spec => [](late = 0)
  BY <1>1, <1>2, Invariance, PTL DEF Spec
<1>4. IInv /\ InTime /\ late = 0 =>
        [\A r \in Rows : Sends(r) =>
          /\ r \notin withdrawn
          /\ agg[r] \in SequencedAggregates =>
               ~ \E s \in sent : agg[s] = agg[r] /\ Precedes(r, s)]_vars
  BY TimelySends
<1> QED
  BY <1>3, <1>4, Invariance, Timely, PTL DEF NoStaleResend
=============================================================================
