------------------------------- MODULE Outbox -------------------------------
(***************************************************************************)
(* The shared transactional outbox of libs/events/src/outbox.              *)
(*                                                                         *)
(* Domain transactions insert rows into event.outbox_events (Enqueue,      *)
(* Commit, Rollback).  Dispatcher runs, which overlap across instances and *)
(* across the 5-second ticks of one instance, requeue rows whose lease has *)
(* expired, lease a batch and then send its rows one after the other.      *)
(* Operators resend or discard the rows that ended FAILED.                 *)
(*                                                                         *)
(* Row identity is the serial id; `created` is created_at, which Postgres  *)
(* fills with the START time of the inserting transaction.  A lease is a   *)
(* point of leaseClock, and a lease is stale once `threshold` (now minus   *)
(* processingTimeoutMs) has reached it.  Nothing else is known of time.    *)
(***************************************************************************)
EXTENDS Naturals, FiniteSets

CONSTANTS
  Dispatchers,              \* dispatcher runs that may be live together
  Operators,                \* people using the failures API
  Aggregates,               \* (topic, aggregate_id) pairs
  PartitionOf,              \* partition_key of the rows of an aggregate
  NoPartition,              \* the NULL partition_key
  SequencedAggregates,      \* aggregates whose topic is in sequencedTopics
  StrictPartitionOrdering,  \* OutboxConfig.strictPartitionOrdering
  PausableAggregates,       \* aggregates the dispatch gate may hold back
  Keys,                     \* (topic, event_type, idempotency_key) triples
  NoKey,                    \* a NULL idempotency_key
  MaxRetries,               \* OutboxConfig.maxRetries
  BatchSize,                \* OutboxConfig.batchSize
  \* Bounds of the model, not of the code:
  MaxRows,      \* rows ever inserted
  MaxTxns,      \* domain transactions ever started
  MaxCrashes,   \* runs that die or abandon their batch
  MaxLate,      \* times a lease expires under a run that is still working
  MaxResends    \* resend requests

Workers == Dispatchers \cup Operators
Rows == 1 .. MaxRows

ASSUME OutboxAssumption ==
  /\ MaxRetries \in Nat \ {0} /\ BatchSize \in Nat \ {0}
  /\ MaxRows \in Nat /\ MaxTxns \in Nat
  /\ MaxCrashes \in Nat /\ MaxLate \in Nat /\ MaxResends \in Nat
  /\ StrictPartitionOrdering \in BOOLEAN
  /\ SequencedAggregates \subseteq Aggregates
  /\ PausableAggregates \subseteq Aggregates
  /\ NoKey \in Keys
  /\ Aggregates # {}
  /\ Dispatchers \cap Operators = {}

VARIABLES
  \* the table event.outbox_events, one function per column
  status, retry, created, agg, key,
  due,        \* next_attempt_at <= now()
  leaseAt,    \* processing_started_at, 0 when NULL
  \* the database clock and the open transactions, named by their start time
  txClock, openTx, lastId,
  leaseClock, threshold,
  \* memory of the runs: where each one is, the rows it still has to
  \* process, and the retry_count it read when it leased them
  pc, held, snap,
  paused,     \* what OutboxDispatchGate.pausedRows() holds back
  \* history, read by the properties only
  commits, commitAt,  \* order in which rows became visible
  sent,               \* rows that reached the broker
  withdrawn,          \* rows an operator discarded
  gaveUp,             \* rows that were FAILED at some time
  \* counters of the bounds
  crashes, late, resends

table   == <<status, retry, created, agg, key, due, leaseAt>>
loading == <<txClock, openTx, lastId>>
leases  == <<leaseClock, threshold>>
memory  == <<pc, held, snap>>
history == <<commits, commitAt, sent, withdrawn, gaveUp>>
bounds  == <<crashes, late, resends>>
vars    == <<table, loading, leases, memory, paused, history, bounds>>

Unpublished == {"PENDING", "PROCESSING"}
Visible     == {"PENDING", "PROCESSING", "PUBLISHED", "FAILED", "DISCARDED"}
Statuses    == Visible \cup {"absent", "uncommitted"}
PCs         == {"idle", "acquiring", "leasing", "sending", "marking", "failing"}

-----------------------------------------------------------------------------
(* Conditions of the queries *)

\* (created_at, id) compared lexicographically.
Before(q, r) == created[q] < created[r] \/ (created[q] = created[r] /\ q < r)

SamePartition(q, r) ==
  /\ StrictPartitionOrdering
  /\ PartitionOf[agg[q]] = PartitionOf[agg[r]]
  /\ PartitionOf[agg[r]] # NoPartition

PartitionClear_LeasedPasses(r) ==
  ~ \E q \in Rows : SamePartition(q, r) /\ status[q] = "PENDING" /\ Before(q, r)

\* strictPartitionOrdering: no earlier unpublished row of the partition.
PartitionClear(r) ==
  ~ \E q \in Rows : SamePartition(q, r) /\ status[q] \in Unpublished /\ Before(q, r)

AggregateClear_FailedPasses(r) ==
  agg[r] \in SequencedAggregates =>
    ~ \E q \in Rows : agg[q] = agg[r] /\ status[q] \in Unpublished /\ Before(q, r)

\* sequencedTopics: no earlier unpublished or FAILED row of the aggregate.
AggregateClear(r) ==
  agg[r] \in SequencedAggregates =>
    ~ \E q \in Rows : /\ agg[q] = agg[r]
                      /\ status[q] \in Unpublished \cup {"FAILED"}
                      /\ Before(q, r)

Eligible ==
  {r \in Rows : /\ status[r] = "PENDING"
                /\ retry[r] < MaxRetries
                /\ due[r]
                /\ agg[r] \notin paused
                /\ PartitionClear(r)
                /\ AggregateClear(r)}

\* order by created_at limit batchSize.  The query leaves the order of equal
\* created_at open; the model takes the id, which matters only between rows of
\* one transaction that no ordering option relates.
Batch ==
  {r \in Eligible : Cardinality({q \in Eligible : Before(q, r)}) < BatchSize}

IsStale_Strict(r) == status[r] = "PROCESSING" /\ leaseAt[r] < threshold
IsStale(r) == status[r] = "PROCESSING" /\ leaseAt[r] <= threshold

\* Where the two UPDATEs of requeueStaleProcessingEvents send a stale row.
StaleStatus_AlwaysPending(r) == "PENDING"
StaleStatus(r) == IF retry[r] < MaxRetries THEN "PENDING" ELSE "FAILED"

-----------------------------------------------------------------------------
Init ==
  /\ status = [r \in Rows |-> "absent"] /\ retry = [r \in Rows |-> 0]
  /\ created = [r \in Rows |-> 0]       /\ agg = [r \in Rows |-> CHOOSE a \in Aggregates : TRUE]
  /\ key = [r \in Rows |-> NoKey]       /\ due = [r \in Rows |-> TRUE]
  /\ leaseAt = [r \in Rows |-> 0]
  /\ txClock = 0 /\ openTx = {} /\ lastId = 0
  /\ leaseClock = 0 /\ threshold = 0
  /\ pc = [w \in Workers |-> "idle"] /\ held = [w \in Workers |-> {}]
  /\ snap = [w \in Workers |-> [r \in Rows |-> 0]]
  /\ paused = {}
  /\ commits = 0 /\ commitAt = [r \in Rows |-> 0]
  /\ sent = {} /\ withdrawn = {} /\ gaveUp = {}
  /\ crashes = 0 /\ late = 0 /\ resends = 0

(* Domain transactions *)

BeginTx ==
  /\ txClock < MaxTxns
  /\ txClock' = txClock + 1
  /\ openTx' = openTx \cup {txClock + 1}
  /\ UNCHANGED <<table, lastId, leases, memory, paused, history, bounds>>

\* Another row with this key is in the table, or will be if its transaction
\* commits: INSERT ... ON CONFLICT DO NOTHING inserts nothing, or waits.
KeyTaken(k) ==
  k # NoKey /\ \E q \in Rows : key[q] = k /\ status[q] # "absent"

Enqueue(t, a, k) ==
  LET r == lastId + 1 IN
  /\ t \in openTx
  /\ r \in Rows
  /\ ~ KeyTaken(k)
  /\ lastId' = r
  /\ status' = [status EXCEPT ![r] = "uncommitted"]
  /\ created' = [created EXCEPT ![r] = t]
  /\ agg' = [agg EXCEPT ![r] = a]
  /\ key' = [key EXCEPT ![r] = k]
  /\ UNCHANGED <<retry, due, leaseAt, txClock, openTx, leases, memory,
                 paused, history, bounds>>

WrittenBy(t) == {r \in Rows : status[r] = "uncommitted" /\ created[r] = t}

Commit(t) ==
  /\ t \in openTx
  /\ openTx' = openTx \ {t}
  /\ status' = [r \in Rows |-> IF r \in WrittenBy(t) THEN "PENDING" ELSE status[r]]
  /\ commits' = commits + 1
  /\ commitAt' = [r \in Rows |-> IF r \in WrittenBy(t) THEN commits + 1 ELSE commitAt[r]]
  /\ UNCHANGED <<retry, created, agg, key, due, leaseAt, txClock, lastId, leases,
                 memory, paused, sent, withdrawn, gaveUp, bounds>>

Rollback(t) ==
  /\ t \in openTx
  /\ openTx' = openTx \ {t}
  /\ status' = [r \in Rows |-> IF r \in WrittenBy(t) THEN "absent" ELSE status[r]]
  /\ UNCHANGED <<retry, created, agg, key, due, leaseAt, txClock, lastId, leases,
                 memory, paused, history, bounds>>

-----------------------------------------------------------------------------
(* One dispatcher run: requeue, acquire, then one row after the other *)

Requeue(d) ==
  /\ pc[d] = "idle"
  /\ pc' = [pc EXCEPT ![d] = "acquiring"]
  /\ status' = [r \in Rows |-> IF IsStale(r) THEN StaleStatus(r) ELSE status[r]]
  /\ due' = [r \in Rows |-> due[r] \/ (IsStale(r) /\ StaleStatus(r) = "PENDING")]
  /\ leaseAt' = [r \in Rows |-> IF IsStale(r) THEN 0 ELSE leaseAt[r]]
  /\ gaveUp' = gaveUp \cup {r \in Rows : IsStale(r) /\ StaleStatus(r) = "FAILED"}
  /\ UNCHANGED <<retry, created, agg, key, loading, leases, held, snap, paused,
                 commits, commitAt, sent, withdrawn, bounds>>

\* select ... for update skip locked, then status and processing_started_at
\* of the whole batch; retry_count is read, not raised.
Acquire(d) ==
  /\ pc[d] = "acquiring"
  /\ \/ /\ Batch = {}
        /\ pc' = [pc EXCEPT ![d] = "idle"]
        /\ UNCHANGED <<status, leaseAt, leaseClock, held, snap>>
     \/ /\ Batch # {}
        /\ pc' = [pc EXCEPT ![d] = "sending"]
        /\ held' = [held EXCEPT ![d] = Batch]
        /\ snap' = [snap EXCEPT ![d] = [r \in Rows |-> IF r \in Batch THEN retry[r] ELSE 0]]
        /\ leaseClock' = leaseClock + 1
        /\ status' = [r \in Rows |-> IF r \in Batch THEN "PROCESSING" ELSE status[r]]
        /\ leaseAt' = [r \in Rows |-> IF r \in Batch THEN leaseClock + 1 ELSE leaseAt[r]]
  /\ UNCHANGED <<retry, created, agg, key, due, loading, threshold, paused,
                 history, bounds>>

\* The row a worker is at: its list is in created_at order.
IsHead(w, r) == r \in held[w] /\ \A q \in held[w] : q = r \/ Before(r, q)

\* The worker is done with row r and moves to the next one of its list.
Advance(w, r) ==
  /\ held' = [held EXCEPT ![w] = @ \ {r}]
  /\ snap' = [snap EXCEPT ![w][r] = 0]
  /\ pc' = [pc EXCEPT ![w] = IF held[w] = {r} THEN "idle"
                             ELSE IF w \in Dispatchers THEN "sending" ELSE "leasing"]

\* publishStoredEnvelope resolves.
SendOk(w) ==
  /\ pc[w] = "sending"
  /\ \E r \in held[w] : IsHead(w, r) /\ sent' = sent \cup {r}
  /\ pc' = [pc EXCEPT ![w] = "marking"]
  /\ UNCHANGED <<table, loading, leases, held, snap, paused, commits, commitAt,
                 withdrawn, gaveUp, bounds>>

\* No publisher, a schema violation or a broker error; after a broker error the
\* record may be in the log all the same.
SendFails(w) ==
  /\ pc[w] = "sending"
  /\ \E r \in held[w] : IsHead(w, r) /\ sent' \in {sent, sent \cup {r}}
  /\ pc' = [pc EXCEPT ![w] = "failing"]
  /\ UNCHANGED <<table, loading, leases, held, snap, paused, commits, commitAt,
                 withdrawn, gaveUp, bounds>>

\* UPDATE ... WHERE id: whatever the row's status is, if it is still there.
SetStatus(r, s) ==
  /\ status' = [status EXCEPT ![r] = IF @ = "absent" THEN @ ELSE s]
  /\ leaseAt' = [leaseAt EXCEPT ![r] = 0]

MarkPublished(w) ==
  /\ pc[w] = "marking"
  /\ \E r \in held[w] : IsHead(w, r) /\ SetStatus(r, "PUBLISHED") /\ Advance(w, r)
  /\ UNCHANGED <<retry, created, agg, key, due, loading, leases, paused, history, bounds>>

\* The UPDATE of publishAndMark throws: the caller's catch takes over.
MarkFails(w) ==
  /\ pc[w] = "marking"
  /\ pc' = [pc EXCEPT ![w] = "failing"]
  /\ UNCHANGED <<table, loading, leases, held, snap, paused, history, bounds>>

FailureStatus_Unknown(n) == IF n >= MaxRetries THEN "DEAD" ELSE "PENDING"
FailureStatus(n) == IF n >= MaxRetries THEN "FAILED" ELSE "PENDING"

\* retry_count and status computed from the snapshot taken at lease time.
HandleFailure(d) ==
  /\ pc[d] = "failing"
  /\ \E r \in held[d] :
       LET n == snap[d][r] + 1 IN
       /\ IsHead(d, r)
       /\ SetStatus(r, FailureStatus(n))
       /\ retry' = [retry EXCEPT ![r] = IF status[r] = "absent" THEN @ ELSE n]
       /\ due' = [due EXCEPT ![r] = IF FailureStatus(n) = "PENDING" THEN FALSE ELSE @]
       /\ gaveUp' = IF FailureStatus(n) = "FAILED" THEN gaveUp \cup {r} ELSE gaveUp
       /\ Advance(d, r)
  /\ UNCHANGED <<created, agg, key, loading, leases, paused, commits, commitAt,
                 sent, withdrawn, bounds>>

\* The process dies, or a database error escapes handleFailure and the tick
\* gives up its batch: the leases stay, the list is gone.
Crash(w) ==
  /\ held[w] # {}
  /\ crashes < MaxCrashes
  /\ crashes' = crashes + 1
  /\ pc' = [pc EXCEPT ![w] = "idle"]
  /\ held' = [held EXCEPT ![w] = {}]
  /\ snap' = [snap EXCEPT ![w] = [r \in Rows |-> 0]]
  /\ UNCHANGED <<table, loading, leases, paused, history, late, resends>>

\* delete ... where status = 'PUBLISHED' and published_at < cutoff
Cleanable_AnySettled(r) == status[r] \in {"PUBLISHED", "FAILED"}
Cleanable(r) == status[r] = "PUBLISHED"

Cleanup(S) ==
  /\ S # {} /\ \A r \in S : Cleanable(r)
  /\ status' = [r \in Rows |-> IF r \in S THEN "absent" ELSE status[r]]
  /\ UNCHANGED <<retry, created, agg, key, due, leaseAt, loading, leases, memory,
                 paused, history, bounds>>

-----------------------------------------------------------------------------
(* The failures API *)

Failed == {r \in Rows : status[r] = "FAILED"}

\* resend is given one row, resendAll lists every FAILED row first.
RequestResend(o, S) ==
  /\ pc[o] = "idle" /\ S # {}
  /\ resends < MaxResends
  /\ resends' = resends + 1
  /\ held' = [held EXCEPT ![o] = S]
  /\ pc' = [pc EXCEPT ![o] = "leasing"]
  /\ UNCHANGED <<table, loading, leases, snap, paused, history, crashes, late>>

Resendable_OrDiscarded(r) == status[r] \in {"FAILED", "DISCARDED"}
Resendable(r) == status[r] = "FAILED"

\* FAILED -> PROCESSING, or a conflict: resend answers 409, resendAll skips.
LeaseFailed(o) ==
  /\ pc[o] = "leasing"
  /\ \E r \in held[o] :
       /\ IsHead(o, r)
       /\ \/ /\ Resendable(r)
             /\ status' = [status EXCEPT ![r] = "PROCESSING"]
             /\ leaseClock' = leaseClock + 1
             /\ leaseAt' = [leaseAt EXCEPT ![r] = leaseClock + 1]
             /\ pc' = [pc EXCEPT ![o] = "sending"]
             /\ UNCHANGED <<held, snap>>
          \/ /\ ~ Resendable(r)
             /\ Advance(o, r)
             /\ UNCHANGED <<status, leaseClock, leaseAt>>
  /\ UNCHANGED <<retry, created, agg, key, due, loading, threshold, paused, history, bounds>>

\* publishLeasedRow after a failure: back to FAILED, retry_count untouched.
ResendFailed(o) ==
  /\ pc[o] = "failing"
  /\ \E r \in held[o] : /\ IsHead(o, r)
                        /\ SetStatus(r, "FAILED")
                        /\ gaveUp' = gaveUp \cup {r}
                        /\ Advance(o, r)
  /\ UNCHANGED <<retry, created, agg, key, due, loading, leases, paused, commits,
                 commitAt, sent, withdrawn, bounds>>

Discard(r) ==
  /\ status[r] = "FAILED"
  /\ status' = [status EXCEPT ![r] = "DISCARDED"]
  /\ leaseAt' = [leaseAt EXCEPT ![r] = 0]
  /\ withdrawn' = withdrawn \cup {r}
  /\ UNCHANGED <<retry, created, agg, key, due, loading, leases, memory, paused,
                 commits, commitAt, sent, gaveUp, bounds>>

-----------------------------------------------------------------------------
(* The environment: time and the dispatch gate *)

BackoffElapses(r) ==
  /\ status[r] = "PENDING" /\ ~ due[r]
  /\ due' = [due EXCEPT ![r] = TRUE]
  /\ UNCHANGED <<status, retry, created, agg, key, leaseAt, loading, leases, memory,
                 paused, history, bounds>>

\* processingTimeoutMs has passed since lease c and every older one.
Expiring(c) == {r \in Rows : status[r] = "PROCESSING" /\ leaseAt[r] \in threshold + 1 .. c}
StillHeld(S) == \E w \in Workers : pc[w] # "leasing" /\ held[w] \cap S # {}

LeaseExpires(c) ==
  /\ Expiring(c) # {} /\ ~ StillHeld(Expiring(c))
  /\ threshold' = c
  /\ UNCHANGED <<table, loading, leaseClock, memory, paused, history, bounds>>

LeaseExpiresEarly(c) ==
  /\ StillHeld(Expiring(c))
  /\ late < MaxLate
  /\ late' = late + 1
  /\ threshold' = c
  /\ UNCHANGED <<table, loading, leaseClock, memory, paused, history, crashes, resends>>

SetGate(S) ==
  /\ S # paused
  /\ paused' = S
  /\ UNCHANGED <<table, loading, leases, memory, history, bounds>>

-----------------------------------------------------------------------------
DispatcherStep(d) ==
  \/ Requeue(d) \/ Acquire(d) \/ SendOk(d) \/ SendFails(d)
  \/ MarkPublished(d) \/ MarkFails(d) \/ HandleFailure(d)

OperatorStep(o) ==
  \/ LeaseFailed(o) \/ SendOk(o) \/ SendFails(o)
  \/ MarkPublished(o) \/ MarkFails(o) \/ ResendFailed(o)

Next ==
  \/ BeginTx
  \/ \E t \in openTx : (\E a \in Aggregates, k \in Keys : Enqueue(t, a, k)) \/ Commit(t) \/ Rollback(t)
  \/ \E d \in Dispatchers : DispatcherStep(d)
  \/ \E w \in Workers : Crash(w)
  \/ \E S \in SUBSET Rows : Cleanup(S)
  \/ \E o \in Operators :
       \/ OperatorStep(o)
       \/ \E S \in {{r} : r \in Failed} \cup {Failed} : RequestResend(o, S)
  \/ \E r \in Rows : Discard(r) \/ BackoffElapses(r)
  \/ \E c \in 1 .. leaseClock : LeaseExpires(c) \/ LeaseExpiresEarly(c)
  \/ \E S \in SUBSET PausableAggregates : SetGate(S)

Spec == Init /\ [][Next]_vars

\* A run is called every five seconds and its promises settle; time passes.
Fairness ==
  /\ \A d \in Dispatchers : WF_vars(DispatcherStep(d))
  /\ \A o \in Operators : WF_vars(OperatorStep(o))
  /\ \A r \in Rows : WF_vars(BackoffElapses(r))
  /\ WF_vars(\E c \in 1 .. leaseClock : LeaseExpires(c))

FairSpec == Spec /\ Fairness

-----------------------------------------------------------------------------
(* Properties *)

\* Every column, clock and list has its type.
TypeOK ==
  /\ status \in [Rows -> Statuses]     /\ retry \in [Rows -> Nat]
  /\ created \in [Rows -> Nat]         /\ agg \in [Rows -> Aggregates]
  /\ key \in [Rows -> Keys]            /\ due \in [Rows -> BOOLEAN]
  /\ leaseAt \in [Rows -> Nat]
  /\ txClock \in Nat /\ openTx \subseteq 1 .. txClock /\ lastId \in 0 .. MaxRows
  /\ leaseClock \in Nat /\ threshold \in Nat
  /\ pc \in [Workers -> PCs]           /\ held \in [Workers -> SUBSET Rows]
  /\ snap \in [Workers -> [Rows -> Nat]]
  /\ paused \subseteq Aggregates
  /\ commits \in Nat                   /\ commitAt \in [Rows -> Nat]
  /\ sent \subseteq Rows /\ withdrawn \subseteq Rows /\ gaveUp \subseteq Rows
  /\ crashes \in Nat /\ late \in Nat /\ resends \in Nat

\* A PENDING row always has a retry left.  acquireEventBatch leases no other, and
\* such a row is in no failure list either, so it would block its aggregate for
\* ever (the case the comment of requeueStaleProcessingEvents describes).
NoStrandedRow == \A r \in Rows : status[r] = "PENDING" => retry[r] < MaxRetries

\* A committed row that never reached the broker is still in the table, waiting,
\* leased or listed as FAILED, unless an operator discarded it: no crash, lease
\* expiry, failed send, resend or clean-up loses an event silently.
NothingLost ==
  \A r \in Rows : commitAt[r] > 0 /\ r \notin sent \cup withdrawn
                    => status[r] \in Unpublished \cup {"FAILED"}

\* Row q was committed no later than r and sorts before it.
Precedes(q, r) == commitAt[q] \in 1 .. commitAt[r] /\ Before(q, r)

\* sequencedTopics: a row goes out for the first time only after each row of the
\* aggregate that was committed earlier and sorts before it went out or was
\* discarded, whatever late runs, crashes and resends do in between.
SequencedInOrder ==
  \A r \in sent, q \in Rows :
    agg[q] = agg[r] /\ agg[r] \in SequencedAggregates /\ Precedes(q, r)
      => q \in sent \cup withdrawn

\* The outbox implements the abstract stream of its sequenced aggregates.
Loaded == {r \in Rows : commitAt[r] > 0}
Predecessors(r) == {q \in Rows : /\ agg[q] = agg[r] /\ agg[r] \in SequencedAggregates
                                 /\ Precedes(q, r)}
Stream == INSTANCE OrderedStream
            WITH Events <- Rows, loaded <- Loaded, delivered <- sent,
                 after <- [r \in Rows |-> Predecessors(r)], withdrawn <- withdrawn

\* Every step of the outbox is a step of OrderedStream or leaves it unchanged.
ImplementsStream == Stream!StreamSpec

\* strictPartitionOrdering: the same for a partition key, except that a row that
\* has used up its retries does not hold the partition.
PartitionInOrder ==
  \A r \in sent, q \in Rows :
    SamePartition(q, r) /\ Precedes(q, r) => q \in sent \cup gaveUp

\* Row r is handed to the broker in this step.
Sends(r) == \E w \in Workers : /\ pc[w] = "sending" /\ pc'[w] \in {"marking", "failing"}
                               /\ IsHead(w, r)

\* What an operator discarded is not handed to the broker any more, and a row of a
\* sequenced aggregate not once a later row of it is out, although resendAll works
\* through an old list.  Holds while every run ends within its lease (MaxLate = 0).
NoStaleResend ==
  [][\A r \in Rows : Sends(r) =>
        /\ r \notin withdrawn
        /\ agg[r] \in SequencedAggregates =>
             ~ \E s \in sent : agg[s] = agg[r] /\ Precedes(r, s)]_vars

\* Every committed row is sent, given up to the operators, or waits behind a
\* FAILED row of its aggregate or a closed gate.
Settles ==
  \A r \in Rows :
    status[r] \in Unpublished
      ~> \/ status[r] \in {"PUBLISHED", "FAILED", "DISCARDED", "absent"}
         \/ agg[r] \in paused
         \/ \E q \in Rows : agg[q] = agg[r] /\ status[q] = "FAILED" /\ Before(q, r)
=============================================================================
