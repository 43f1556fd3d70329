----------------------------- MODULE DeadLetter -----------------------------
(***************************************************************************)
(* How an app consumes one Kafka partition with the dead-letter table of   *)
(* libs/events: the retry interceptor, the dead_letters rows and the       *)
(* redriver.                                                               *)
(*                                                                         *)
(* Messages are numbered by offset.  Every message goes to the handlers of *)
(* its event type at once (Nest forkJoins them), each behind its own       *)
(* interceptor: check whether the sequence is blocked and hold the         *)
(* message, or run the handler, retry, and record the final failure.       *)
(* Offsets are committed now and then, so what follows the committed one   *)
(* comes again after a crash, a rebalance or a thrown error.               *)
(*                                                                         *)
(* A consumer is one incarnation of the consumption loop.  The one that    *)
(* lost the partition may still be running the handlers of its message.    *)
(* A row is named by its unique key, <<handler, message>>.                 *)
(***************************************************************************)
EXTENDS Naturals, FiniteSets

CONSTANTS
  Consumers,      \* incarnations of the consumption loop that may be alive
  Handlers,       \* the @On handlers of the app for this topic
  Operators,      \* people (or redriveAll loops) who redrive and discard
  Sequences,      \* sequence keys, source.aggregateId
  NoSequence,     \* no key, or a topic outside sequencedTopics
  SequenceOf,     \* the sequence of each message
  HandledBy,      \* the handlers of the event type of each message
  DisabledDLQ,    \* handlers marked @DisableDLQ
  MaxRetries,     \* @RetryPolicy maxRetries
  \* Bounds of the model, not of the code:
  NumMessages,        \* messages in the partition
  MaxCrashes,         \* consumer processes that die
  MaxRebalances,      \* rebalances that leave a loop running behind
  MaxErrors,          \* database errors met by the interceptor
  MaxRequests,        \* redrive and discard requests
  MaxStops            \* redrives that end in the middle

Messages == 1 .. NumMessages
Rows == Handlers \X Messages
NoRow == <<>>

ASSUME DeadLetterAssumption ==
  /\ NumMessages \in Nat /\ MaxRetries \in Nat
  /\ SequenceOf \in [Messages -> Sequences \cup {NoSequence}]
  /\ NoSequence \notin Sequences
  /\ HandledBy \in [Messages -> SUBSET Handlers]
  /\ DisabledDLQ \subseteq Handlers
  /\ Consumers # {}

VARIABLES
  \* the table event.dead_letters: status ("none" when there is no row), serial id
  status, id, lastId,
  \* the consumer group: who owns the partition, the last committed message
  owner, committed,
  \* each loop: the message it is at, where each handler is, retries so far
  next, step, attempt,
  \* each operator: what it does, the row it was asked about, the row in work
  opc, asked, cur,
  \* history, read by the properties only
  applied,    \* handlers that ran to the end on a message
  discarded,  \* rows that were discarded at some time
  \* counters of the bounds
  crashes, rebalances, errors, requests, stops

table   == <<status, id, lastId>>
group   == <<owner, committed>>
loops   == <<next, step, attempt>>
people  == <<opc, asked, cur>>
history == <<applied, discarded>>
bounds  == <<crashes, rebalances, errors, requests, stops>>
vars    == <<table, group, loops, people, history, bounds>>

Unresolved == {"failed", "held"}
Statuses   == Unresolved \cup {"none", "redriven", "discarded"}
Steps      == {"none", "checking", "holding", "running", "failing", "done", "thrown"}
Jobs       == {"idle", "redrive", "discard", "next", "running", "marking",
               "refusing", "reading"}

-----------------------------------------------------------------------------
(* Sequences, their locks and their rows *)

\* A row without a sequence is a sequence of its own, locked by its id.
SequenceOfRow(row) ==
  IF SequenceOf[row[2]] = NoSequence THEN row ELSE SequenceOf[row[2]]

\* Operators hold the lock through their loop, handlers from a positive check
\* to the insert.
InLoop(o) == opc[o] \notin {"idle", "redrive", "discard"}
Redriving(s) == \E o \in Operators : InLoop(o) /\ SequenceOfRow(asked[o]) = s

LockFree_Unlocked(s) == TRUE
LockFree(s) ==
  /\ ~ Redriving(s)
  /\ \A c \in Consumers, h \in Handlers :
       step[c][h] = "holding" => SequenceOfRow(<<h, next[c]>>) # s

Blocks_FailedOnly(row) == status[row] = "failed"
Blocks(row) == status[row] \in Unresolved

UnresolvedIn(s) == {row \in Rows : Blocks(row) /\ SequenceOfRow(row) = s}

\* The row nextInSequence selects.
IsHead(row, s) ==
  row \in UnresolvedIn(s) /\ \A r \in UnresolvedIn(s) : id[row] <= id[r]

\* INSERT of a row whose unique key is new takes the next serial id.
InsertId(row) ==
  IF status[row] = "none"
  THEN /\ lastId' = lastId + 1
       /\ id' = [id EXCEPT ![row] = lastId + 1]
  ELSE UNCHANGED <<id, lastId>>

SetStatus(row, s) == status' = [status EXCEPT ![row] = s]

Init ==
  /\ status = [row \in Rows |-> "none"] /\ id = [row \in Rows |-> 0] /\ lastId = 0
  /\ owner \in Consumers /\ committed = 0
  /\ next = [c \in Consumers |-> 1]
  /\ step = [c \in Consumers |-> [h \in Handlers |-> "none"]]
  /\ attempt = [c \in Consumers |-> [h \in Handlers |-> 0]]
  /\ opc = [o \in Operators |-> "idle"]
  /\ asked = [o \in Operators |-> NoRow] /\ cur = [o \in Operators |-> NoRow]
  /\ applied = {} /\ discarded = {}
  /\ crashes = 0 /\ rebalances = 0 /\ errors = 0 /\ requests = 0 /\ stops = 0

-----------------------------------------------------------------------------
(* Live consumption *)

Resting(c) == \A h \in Handlers : step[c][h] = "none"
Ended(c)   == \A h \in Handlers : step[c][h] \in {"none", "done", "thrown"}

\* A handler of another event type does nothing; a message without a sequence
\* skips the check.
FirstStep(h, m) ==
  IF h \notin HandledBy[m] THEN "done"
  ELSE IF SequenceOf[m] = NoSequence THEN "running" ELSE "checking"

Deliver(c) ==
  /\ owner = c /\ Resting(c) /\ next[c] \in Messages
  /\ step' = [step EXCEPT ![c] = [h \in Handlers |-> FirstStep(h, next[c])]]
  /\ UNCHANGED <<table, group, next, attempt, people, history, bounds>>

Go(c, h, s) == step' = [step EXCEPT ![c][h] = s]

Blocked_ByOthers(row) == UnresolvedIn(SequenceOfRow(row)) \ {row} # {}
\* A message is also blocked by its own row.
Blocked(row) == UnresolvedIn(SequenceOfRow(row)) # {}

\* holdIfBlocked takes the lock and looks for an unresolved row.  When there is
\* none it ends, otherwise it keeps the lock until it has inserted.
Check(c, h) ==
  LET row == <<h, next[c]>> IN
  /\ step[c][h] = "checking"
  /\ LockFree(SequenceOfRow(row))
  /\ Go(c, h, IF Blocked(row) THEN "holding" ELSE "running")
  /\ UNCHANGED <<table, group, next, attempt, people, history, bounds>>

OnHoldConflict_Throws == "thrown"
OnHoldConflict == "done"

\* insert ... on conflict do nothing: a redelivered message keeps its row.
Hold(c, h) ==
  LET row == <<h, next[c]>> IN
  /\ step[c][h] = "holding"
  /\ InsertId(row)
  /\ IF status[row] = "none"
     THEN SetStatus(row, "held") /\ Go(c, h, "done")
     ELSE UNCHANGED status /\ Go(c, h, OnHoldConflict)
  /\ UNCHANGED <<group, next, attempt, people, history, bounds>>

\* lock_timeout while somebody redrives the sequence.
CheckTimesOut(c, h) ==
  /\ step[c][h] = "checking"
  /\ Redriving(SequenceOfRow(<<h, next[c]>>))
  /\ Go(c, h, "thrown")
  /\ UNCHANGED <<table, group, next, attempt, people, history, bounds>>

RunOk(c, h) ==
  /\ step[c][h] = "running"
  /\ Go(c, h, "done")
  /\ applied' = applied \cup {<<h, next[c]>>}
  /\ UNCHANGED <<table, group, next, attempt, people, discarded, bounds>>

RetryAllowed_OneMore(n) == n <= MaxRetries
RetryAllowed(n) == n < MaxRetries

\* The handler throws: it is run again, or the failure is final because the
\* error is not retryable or the retries are used up.
RunFails(c, h) ==
  /\ step[c][h] = "running"
  /\ \/ /\ RetryAllowed(attempt[c][h])
        /\ attempt' = [attempt EXCEPT ![c][h] = @ + 1]
        /\ UNCHANGED step
     \/ /\ Go(c, h, IF h \in DisabledDLQ THEN "done" ELSE "failing")
        /\ UNCHANGED attempt
  /\ UNCHANGED <<table, group, next, people, history, bounds>>

\* recordFailure: insert, or on conflict set the row to failed whatever it was.
RecordFailure(c, h) ==
  /\ step[c][h] = "failing"
  /\ InsertId(<<h, next[c]>>)
  /\ SetStatus(<<h, next[c]>>, "failed")
  /\ Go(c, h, "done")
  /\ UNCHANGED <<group, next, attempt, people, history, bounds>>

AfterRecordError_Swallowed == "done"
AfterRecordError == "thrown"

\* holdIfBlocked or recordFailure throws: DlqDeliveryError.
DatabaseError(c, h) ==
  /\ step[c][h] \in {"checking", "holding", "failing"}
  /\ errors < MaxErrors
  /\ errors' = errors + 1
  /\ Go(c, h, AfterRecordError)
  /\ UNCHANGED <<table, group, next, attempt, people, history, crashes,
                 rebalances, requests, stops>>

Clear(c) ==
  /\ step' = [step EXCEPT ![c] = [h \in Handlers |-> "none"]]
  /\ attempt' = [attempt EXCEPT ![c] = [h \in Handlers |-> 0]]

\* All handlers resolved: eachMessage resolves and the loop moves on.
Advance(c) ==
  /\ owner = c /\ ~ Resting(c)
  /\ \A h \in Handlers : step[c][h] = "done"
  /\ next' = [next EXCEPT ![c] = @ + 1]
  /\ Clear(c)
  /\ UNCHANGED <<table, group, people, history, bounds>>

\* Auto-commit: every 5 s, every 100 messages, at the end of a batch.
CommitOffsets(c) ==
  /\ owner = c /\ committed < next[c] - 1
  /\ committed' = next[c] - 1
  /\ UNCHANGED <<table, owner, loops, people, history, bounds>>

\* Loop d takes over after the committed offset.
StartFrom(d, offset) ==
  /\ owner' = d
  /\ committed' = offset
  /\ next' = [next EXCEPT ![d] = offset + 1]

\* forkJoin rejects as soon as one handler throws: the loop starts again, after
\* committing what was resolved before if it can, and leaves the other handlers
\* of the message running.
Throw(c, d) ==
  /\ owner = c
  /\ \E h \in Handlers : step[c][h] = "thrown"
  /\ IF d = c THEN Ended(c) /\ Clear(c) ELSE Resting(d) /\ UNCHANGED <<step, attempt>>
  /\ \E offset \in {committed, next[c] - 1} : StartFrom(d, offset)
  /\ UNCHANGED <<table, people, history, bounds>>

\* The session of c times out while it runs a message; its commits are refused.
Rebalance(c, d) ==
  /\ owner = c /\ c # d /\ Resting(d)
  /\ rebalances < MaxRebalances
  /\ rebalances' = rebalances + 1
  /\ StartFrom(d, committed)
  /\ UNCHANGED <<table, step, attempt, people, history, crashes, errors, requests,
                 stops>>

\* A loop that lost the partition stops after its message.
Retire(c) ==
  /\ owner # c /\ ~ Resting(c) /\ Ended(c)
  /\ Clear(c)
  /\ UNCHANGED <<table, group, next, people, history, bounds>>

Crash(c) ==
  /\ crashes < MaxCrashes
  /\ crashes' = crashes + 1
  /\ Clear(c)
  /\ next' = [next EXCEPT ![c] = committed + 1]
  /\ UNCHANGED <<table, group, people, history, rebalances, errors, requests,
                 stops>>

-----------------------------------------------------------------------------
(* Redrive and discard *)

Release(o) ==
  /\ opc' = [opc EXCEPT ![o] = "idle"]
  /\ asked' = [asked EXCEPT ![o] = NoRow]
  /\ cur' = [cur EXCEPT ![o] = NoRow]

\* load (or the list of redriveAll): the row must be unresolved.
Request(o, row, job) ==
  /\ opc[o] = "idle"
  /\ status[row] \in Unresolved
  /\ requests < MaxRequests
  /\ requests' = requests + 1
  /\ opc' = [opc EXCEPT ![o] = job]
  /\ asked' = [asked EXCEPT ![o] = row]
  /\ UNCHANGED <<table, group, loops, cur, history, crashes, rebalances, errors,
                 stops>>

\* tryLockSequence: somebody else is at it.
Busy(o) ==
  /\ opc[o] \in {"redrive", "discard"}
  /\ ~ LockFree(SequenceOfRow(asked[o]))
  /\ Release(o)
  /\ UNCHANGED <<table, group, loops, history, bounds>>

Lock(o) ==
  /\ opc[o] = "redrive"
  /\ LockFree(SequenceOfRow(asked[o]))
  /\ opc' = [opc EXCEPT ![o] = "next"]
  /\ UNCHANGED <<table, group, loops, asked, cur, history, bounds>>

\* The guarded UPDATE; the loop goes on when the row was the head.
Discard(o) ==
  LET row == asked[o] IN
  /\ opc[o] = "discard"
  /\ LockFree(SequenceOfRow(row))
  /\ IF status[row] \in Unresolved
     THEN /\ SetStatus(row, "discarded")
          /\ discarded' = discarded \cup {row}
          /\ IF IsHead(row, SequenceOfRow(row))
             THEN opc' = [opc EXCEPT ![o] = "next"] /\ UNCHANGED <<asked, cur>>
             ELSE Release(o)
     ELSE Release(o) /\ UNCHANGED <<status, discarded>>
  /\ UNCHANGED <<id, lastId, group, loops, applied, bounds>>

\* nextInSequence: dispatch the head, or end and release the lock.
TakeNext(o) ==
  LET s == SequenceOfRow(asked[o]) IN
  /\ opc[o] = "next"
  /\ \/ /\ UnresolvedIn(s) = {} /\ Release(o)
     \/ \E row \in Rows : /\ IsHead(row, s)
                          /\ cur' = [cur EXCEPT ![o] = row]
                          /\ opc' = [opc EXCEPT ![o] = "running"]
                          /\ UNCHANGED asked
  /\ UNCHANGED <<table, group, loops, history, bounds>>

\* executeRedrive: one attempt, no check.
RedriveOk(o) ==
  /\ opc[o] = "running"
  /\ applied' = applied \cup {cur[o]}
  /\ opc' = [opc EXCEPT ![o] = "marking"]
  /\ UNCHANGED <<table, group, loops, asked, cur, discarded, bounds>>

RedriveFails(o) ==
  /\ opc[o] = "running"
  /\ opc' = [opc EXCEPT ![o] = "refusing"]
  /\ UNCHANGED <<table, group, loops, asked, cur, history, bounds>>

\* markRedriven or recordRedriveFailure, by id.
RecordResult(o) ==
  /\ opc[o] \in {"marking", "refusing"}
  /\ SetStatus(cur[o], IF opc[o] = "marking" THEN "redriven" ELSE "failed")
  /\ opc' = [opc EXCEPT ![o] = "reading"]
  /\ UNCHANGED <<id, lastId, group, loops, asked, cur, history, bounds>>

\* dispatchOne reads the row again and goes on only if it is redriven.
ReadResult(o) ==
  /\ opc[o] = "reading"
  /\ IF status[cur[o]] = "redriven"
     THEN /\ opc' = [opc EXCEPT ![o] = "next"]
          /\ cur' = [cur EXCEPT ![o] = NoRow]
          /\ UNCHANGED asked
     ELSE Release(o)
  /\ UNCHANGED <<table, group, loops, history, bounds>>

\* The process dies, a database call fails or the handler is gone: the redrive
\* ends where it is.  The transaction of the lock is rolled back, what was
\* recorded on the way stays.
RedriveStops(o) ==
  /\ InLoop(o)
  /\ stops < MaxStops
  /\ stops' = stops + 1
  /\ Release(o)
  /\ UNCHANGED <<table, group, loops, history, crashes, rebalances, errors, requests>>

-----------------------------------------------------------------------------
HandlerStep(c, h) ==
  \/ Check(c, h) \/ Hold(c, h) \/ CheckTimesOut(c, h)
  \/ RunOk(c, h) \/ RunFails(c, h) \/ RecordFailure(c, h)

LoopStep(c) ==
  \/ Deliver(c) \/ Advance(c) \/ CommitOffsets(c) \/ Retire(c)
  \/ \E d \in Consumers : Throw(c, d)

RedriveStep(o) ==
  \/ Busy(o) \/ Lock(o) \/ Discard(o) \/ TakeNext(o) \/ RedriveOk(o) \/ RedriveFails(o)
  \/ RecordResult(o) \/ ReadResult(o)

Fault ==
  \/ \E c \in Consumers : \/ Crash(c)
                          \/ \E d \in Consumers : Rebalance(c, d)
                          \/ \E h \in Handlers : DatabaseError(c, h)
  \/ \E o \in Operators : RedriveStops(o)

Next ==
  \/ \E c \in Consumers : LoopStep(c) \/ \E h \in Handlers : HandlerStep(c, h)
  \/ \E o \in Operators : \/ RedriveStep(o)
                          \/ \E row \in Rows, job \in {"redrive", "discard"} :
                               Request(o, row, job)
  \/ Fault

Spec == Init /\ [][Next]_vars

\* kafkajs keeps fetching and committing, promises settle, and a redrive that
\* was started goes on.  Nothing obliges a person to ask for one.
Fairness ==
  /\ \A c \in Consumers : /\ WF_vars(LoopStep(c))
                          /\ WF_vars(CommitOffsets(c))
                          /\ \A h \in Handlers : WF_vars(HandlerStep(c, h))
  /\ \A o \in Operators : WF_vars(RedriveStep(o))

LiveSpec == Spec /\ Fairness

-----------------------------------------------------------------------------
(* Properties *)

TypeOK ==
  /\ status \in [Rows -> Statuses] /\ id \in [Rows -> Nat] /\ lastId \in Nat
  /\ owner \in Consumers /\ committed \in 0 .. NumMessages
  /\ next \in [Consumers -> 1 .. NumMessages + 1]
  /\ step \in [Consumers -> [Handlers -> Steps]]
  /\ attempt \in [Consumers -> [Handlers -> 0 .. MaxRetries]]
  /\ opc \in [Operators -> Jobs]
  /\ asked \in [Operators -> Rows \cup {NoRow}] /\ cur \in [Operators -> Rows \cup {NoRow}]
  /\ applied \subseteq Rows /\ discarded \subseteq Rows
  /\ crashes \in Nat /\ rebalances \in Nat /\ errors \in Nat /\ requests \in Nat
  /\ stops \in Nat

\* The rows a message is due to.
Due(m) == (HandledBy[m] \ DisabledDLQ) \X {m}

\* Whatever fails and whenever, a message whose offset is committed was applied
\* by each of its handlers, or is listed as unresolved, or was discarded by hand.
NothingLost ==
  \A m \in 1 .. committed : \A row \in Due(m) :
    row \in applied \cup discarded \/ status[row] \in Unresolved

SameSequence(m, n) == SequenceOf[m] = SequenceOf[n] /\ SequenceOf[m] # NoSequence

\* A handler applies a message of a sequence for the first time only when it has
\* applied the earlier messages of the sequence or they were discarded: holding
\* and redriving keep the order across crashes, rebalances and failed redrives.
FirstInOrder ==
  \A row \in applied : \A m \in 1 .. row[2] - 1 :
    SameSequence(m, row[2]) /\ <<row[1], m>> \in Due(m)
      => <<row[1], m>> \in applied \cup discarded

\* A redrive and live consumption never run the same handler on one sequence at
\* the same time.  Holds while no consumption loop is left running behind, so the
\* run has one consumer.
RedriveExclusive ==
  \A o \in Operators, c \in Consumers, h \in Handlers :
    ~ /\ opc[o] = "running" /\ cur[o][1] = h
      /\ step[c][h] = "running" /\ SameSequence(cur[o][2], next[c])

\* A held row is never forgotten: an earlier row of its sequence is failed, so a
\* person has something to redrive, or a redrive is on its way to it.  Holds as
\* long as no redrive is cut short.
HeldBehindFailed ==
  \A row \in Rows :
    status[row] = "held" =>
      \/ \E r \in Rows : /\ SequenceOfRow(r) = SequenceOfRow(row)
                         /\ status[r] = "failed" /\ id[r] < id[row]
      \/ Redriving(SequenceOfRow(row))

\* A message that fails for ever, a busy sequence or a dead process never stops
\* the partition: in the end every message is consumed and committed.
PartitionDrains == <>[](committed = NumMessages)
=============================================================================
