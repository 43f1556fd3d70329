-------------------------- MODULE DeadLetterProofs --------------------------
(***************************************************************************)
(* Proofs about DeadLetter for every number of consumption loops, handlers,*)
(* operators, messages, sequences, retries and faults.                     *)
(***************************************************************************)
EXTENDS DeadLetter, TLAPS

InWork(o) == opc[o] \in {"running", "marking", "refusing", "reading"}

\* A loop at work is at a message; a redrive has the row it was asked about, and
\* dispatches rows of the same sequence.
Working ==
  /\ \A c \in Consumers : next[c] \in Messages \/ Resting(c)
  /\ \A o \in Operators :
       /\ opc[o] # "idle" => asked[o] \in Rows /\ status[asked[o]] # "none"
       /\ InWork(o) => /\ cur[o] \in Rows /\ status[cur[o]] # "none"
                       /\ SequenceOfRow(cur[o]) = SequenceOfRow(asked[o])
       /\ opc[o] = "marking" => cur[o] \in applied

Settled(row) == row \in applied \cup discarded
Handled(row) == Settled(row) \/ status[row] \in Unresolved

\* A row is resolved for a reason; ids are given once, in the order of the inserts.
RowsOK ==
  \A row \in Rows :
    /\ status[row] = "redriven" => row \in applied
    /\ status[row] = "discarded" => row \in discarded
    /\ status[row] # "none" => id[row] \in 1 .. lastId
    /\ \A r \in Rows : status[row] # "none" /\ status[r] # "none" /\ id[r] = id[row]
                         => r = row

\* Whatever loop moves past a message has it handled.
NothingSkipped ==
  /\ committed < next[owner]
  /\ \A c \in Consumers :
       /\ \A m \in 1 .. next[c] - 1 : \A row \in Due(m) : Handled(row)
       /\ \A h \in Handlers :
            step[c][h] = "done" /\ <<h, next[c]>> \in Due(next[c]) => Handled(<<h, next[c]>>)

\* r must be applied before row.
Earlier(r, row) ==
  /\ r[1] = row[1] /\ r[2] < row[2]
  /\ SameSequence(r[2], row[2]) /\ r \in Due(r[2])

\* Who runs a handler has its earlier rows settled.
RunsInOrder ==
  /\ \A c \in Consumers, h \in Handlers, r \in Rows :
       step[c][h] = "running" /\ Earlier(r, <<h, next[c]>>) => Settled(r)
  /\ \A o \in Operators, r \in Rows :
       opc[o] = "running" /\ Earlier(r, cur[o]) => Settled(r)

\* Of two rows in the table the earlier one is settled or has the smaller id.
InOrder ==
  \A row \in Rows, r \in Rows :
    Earlier(r, row) =>
      /\ row \in applied => Settled(r)
      /\ status[row] # "none" => Settled(r) \/ (status[r] # "none" /\ id[r] < id[row])

IInv == TypeOK /\ Working /\ RowsOK /\ NothingSkipped /\ RunsInOrder /\ InOrder

\* One loop: while it runs a handler no row of this handler waits in the sequence
\* and nobody redrives one.
Alone ==
  \A c \in Consumers, h \in Handlers, row \in Rows :
    /\ step[c][h] = "running" /\ SequenceOf[next[c]] # NoSequence
    /\ row[1] = h /\ SequenceOfRow(row) = SequenceOfRow(<<h, next[c]>>)
    => /\ status[row] \notin Unresolved
       /\ \A o \in Operators : InWork(o) => cur[o] # row

\* The lock of a sequence is held by one.
Locked ==
  /\ \A o \in Operators, p \in Operators :
       InLoop(o) /\ InLoop(p) /\ SequenceOfRow(asked[o]) = SequenceOfRow(asked[p]) => o = p
  /\ \A o \in Operators, c \in Consumers, h \in Handlers :
       InLoop(o) /\ step[c][h] = "holding" => SequenceOfRow(asked[o]) # SequenceOfRow(<<h, next[c]>>)

\* What a handler that holds, or a redrive in the middle of a row, knows of the row at the head.
HeadKnown ==
  /\ \A c \in Consumers, h \in Handlers :
       step[c][h] = "holding" => Blocked(<<h, next[c]>>)
  /\ \A o \in Operators : InWork(o) =>
       /\ \A r \in Rows : status[r] = "held" /\ SequenceOfRow(r) = SequenceOfRow(cur[o])
                            => r = cur[o] \/ id[cur[o]] < id[r]
       /\ opc[o] = "reading" => status[cur[o]] \in {"redriven", "failed"}

-----------------------------------------------------------------------------
(* Facts about the definitions *)

LEMMA RowFacts ==
  ASSUME NEW h \in Handlers, NEW m \in Messages
  PROVE  <<h, m>> \in Rows /\ <<h, m>>[1] = h /\ <<h, m>>[2] = m
  BY DEF Rows

LEMMA RowPair ==
  ASSUME NEW row \in Rows
  PROVE  row[1] \in Handlers /\ row[2] \in Messages /\ row = <<row[1], row[2]>>
  BY DEF Rows

\* The rows a message is due to are rows of it.
LEMMA DueFacts ==
  ASSUME NEW m \in Messages, NEW row \in Due(m)
  PROVE  row \in Rows /\ row[2] = m /\ row[1] \in HandledBy[m]
  BY DeadLetterAssumption DEF Due, Rows

LEMMA EarlierFacts ==
  ASSUME NEW r \in Rows, NEW row \in Rows, Earlier(r, row)
  PROVE  /\ r[2] \in 1 .. row[2] - 1 /\ r \in Due(r[2])
         /\ SequenceOf[row[2]] # NoSequence
         /\ SequenceOfRow(r) = SequenceOfRow(row)
<1>1. r[2] \in Messages /\ row[2] \in Messages
  BY RowPair
<1>2. r[2] < row[2] /\ r \in Due(r[2]) /\ SameSequence(r[2], row[2])
  BY DEF Earlier
<1>3. r[2] \in 1 .. row[2] - 1
  BY <1>1, <1>2, DeadLetterAssumption DEF Messages
<1> QED
  BY <1>2, <1>3 DEF SameSequence, SequenceOfRow

-----------------------------------------------------------------------------
(* Types *)

\* A step of one handler of one loop.
LEMMA GoType ==
  ASSUME TypeOK, NEW c \in Consumers, NEW h \in Handlers, NEW s \in Steps, Go(c, h, s)
  PROVE  /\ step' \in [Consumers -> [Handlers -> Steps]]
         /\ step'[c][h] = s
         /\ \A d \in Consumers, g \in Handlers : <<d, g>> # <<c, h>> => step'[d][g] = step[d][g]
<1>1. step' = [step EXCEPT ![c] = [step[c] EXCEPT ![h] = s]]
  BY DEF Go, TypeOK
<1>2. [step[c] EXCEPT ![h] = s] \in [Handlers -> Steps]
  BY DEF TypeOK
<1> QED
  BY <1>1, <1>2 DEF TypeOK

LEMMA ClearType ==
  ASSUME TypeOK, NEW c \in Consumers, Clear(c)
  PROVE  /\ step' \in [Consumers -> [Handlers -> Steps]]
         /\ attempt' \in [Consumers -> [Handlers -> 0 .. MaxRetries]]
         /\ \A h \in Handlers : step'[c][h] = "none"
         /\ \A d \in Consumers \ {c} : step'[d] = step[d]
<1>1. /\ [h \in Handlers |-> "none"] \in [Handlers -> Steps]
      /\ [h \in Handlers |-> 0] \in [Handlers -> 0 .. MaxRetries]
  BY DeadLetterAssumption DEF Steps
<1> QED
  BY <1>1 DEF Clear, TypeOK

LEMMA InsertType ==
  ASSUME TypeOK, NEW row \in Rows, InsertId(row)
  PROVE  /\ id' \in [Rows -> Nat] /\ lastId' \in Nat /\ lastId <= lastId'
         /\ status[row] = "none" => id'[row] = lastId + 1 /\ lastId' = lastId + 1
         /\ status[row] # "none" => id'[row] = id[row]
         /\ \A r \in Rows \ {row} : id'[r] = id[r]
<1>1. CASE status[row] = "none"
  BY <1>1 DEF InsertId, TypeOK
<1>2. CASE status[row] # "none"
  BY <1>2 DEF InsertId, TypeOK
<1> QED
  BY <1>1, <1>2

LEMMA StatusType ==
  ASSUME TypeOK, NEW row \in Rows, NEW s \in Statuses, SetStatus(row, s)
  PROVE  /\ status' \in [Rows -> Statuses] /\ status'[row] = s
         /\ \A r \in Rows \ {row} : status'[r] = status[r]
  BY DEF SetStatus, TypeOK

LEMMA ReleaseType ==
  ASSUME TypeOK, NEW o \in Operators, Release(o)
  PROVE  /\ opc' \in [Operators -> Jobs]
         /\ asked' \in [Operators -> Rows \cup {NoRow}]
         /\ cur' \in [Operators -> Rows \cup {NoRow}]
         /\ opc'[o] = "idle"
         /\ \A p \in Operators \ {o} : opc'[p] = opc[p] /\ asked'[p] = asked[p] /\ cur'[p] = cur[p]
  BY DEF Release, TypeOK, Jobs

-----------------------------------------------------------------------------
(* Steps of the loops that write nothing to the table *)

\* What the new state of the loops must satisfy.
LEMMA LoopKeeps ==
  ASSUME IInv, UNCHANGED <<table, people, history>>,
         owner' \in Consumers, committed' \in 0 .. NumMessages,
         next' \in [Consumers -> 1 .. NumMessages + 1],
         step' \in [Consumers -> [Handlers -> Steps]],
         attempt' \in [Consumers -> [Handlers -> 0 .. MaxRetries]],
         crashes' \in Nat, rebalances' \in Nat, errors' \in Nat, UNCHANGED <<requests, stops>>,
         committed' < next'[owner'],
         \A c \in Consumers : next'[c] \in Messages \/ \A h \in Handlers : step'[c][h] = "none",
         \A c \in Consumers : \A m \in 1 .. next'[c] - 1 : \A row \in Due(m) : Handled(row),
         \A c \in Consumers, h \in Handlers :
           step'[c][h] = "done" /\ <<h, next'[c]>> \in Due(next'[c])
             => Handled(<<h, next'[c]>>),
         \A c \in Consumers, h \in Handlers, r \in Rows :
           step'[c][h] = "running" /\ Earlier(r, <<h, next'[c]>>) => Settled(r)
  PROVE  IInv'
<1>0. /\ UNCHANGED <<status, id, lastId, opc, asked, cur, applied, discarded>>
      /\ UNCHANGED <<requests, stops>>
  BY DEF table, people, history
<1>1. TypeOK'
  BY <1>0 DEF IInv, TypeOK
<1>2. \A row : Handled(row)' = Handled(row) /\ Settled(row)' = Settled(row)
  BY <1>0 DEF Handled, Settled
<1>3. Working'
  BY <1>0 DEF IInv, Working, InWork, Resting
<1>4. RowsOK'
  BY <1>0 DEF IInv, RowsOK
<1>5. NothingSkipped'
  BY <1>2 DEF NothingSkipped
<1>6. RunsInOrder'
  BY <1>0, <1>2 DEF IInv, RunsInOrder
<1>7. InOrder'
  BY <1>0, <1>2 DEF IInv, InOrder
<1> QED
  BY <1>1, <1>3, <1>4, <1>5, <1>6, <1>7 DEF IInv

\* A handler goes from one step of its message to the next.
LEMMA GoKeeps ==
  ASSUME IInv, NEW c \in Consumers, NEW h \in Handlers, NEW s \in Steps, Go(c, h, s),
         step[c][h] # "none",
         UNCHANGED <<table, group, next, people, history>>,
         attempt' \in [Consumers -> [Handlers -> 0 .. MaxRetries]],
         crashes' \in Nat, rebalances' \in Nat, errors' \in Nat, UNCHANGED <<requests, stops>>,
         s = "done" /\ <<h, next[c]>> \in Due(next[c]) => Handled(<<h, next[c]>>),
         s = "running" =>
           \A r \in Rows : Earlier(r, <<h, next[c]>>) => Settled(r)
  PROVE  IInv'
<1>1. TypeOK /\ NothingSkipped /\ RunsInOrder
  BY DEF IInv
<1>2. /\ step' \in [Consumers -> [Handlers -> Steps]] /\ step'[c][h] = s
      /\ \A d \in Consumers, g \in Handlers : <<d, g>> # <<c, h>> => step'[d][g] = step[d][g]
  BY <1>1, GoType
<1>3. UNCHANGED <<owner, committed, next>>
  BY DEF group
<1>4. \A d \in Consumers : next'[d] \in Messages \/ \A g \in Handlers : step'[d][g] = "none"
  <2> SUFFICES ASSUME NEW d \in Consumers, next[d] \notin Messages, NEW g \in Handlers
               PROVE  step'[d][g] = "none"
    BY <1>3
  <2>1. Resting(d)
    BY DEF IInv, Working
  <2> QED
    BY <2>1, <1>2 DEF Resting
<1>5. \A d \in Consumers : \A m \in 1 .. next'[d] - 1 : \A row \in Due(m) : Handled(row)
  BY <1>1, <1>3 DEF NothingSkipped
<1>6. \A d \in Consumers, g \in Handlers :
        step'[d][g] = "done" /\ <<g, next'[d]>> \in Due(next'[d]) => Handled(<<g, next'[d]>>)
  BY <1>1, <1>2, <1>3 DEF NothingSkipped
<1>7. \A d \in Consumers, g \in Handlers, r \in Rows :
        step'[d][g] = "running" /\ Earlier(r, <<g, next'[d]>>) => Settled(r)
  BY <1>1, <1>2, <1>3 DEF RunsInOrder
<1>8. /\ owner' \in Consumers /\ committed' \in 0 .. NumMessages
      /\ next' \in [Consumers -> 1 .. NumMessages + 1] /\ committed' < next'[owner']
  BY <1>1, <1>3 DEF TypeOK, NothingSkipped
<1>9. UNCHANGED <<table, people, history>>
  OBVIOUS
<1> QED
  BY <1>2, <1>4, <1>5, <1>6, <1>7, <1>8, <1>9, LoopKeeps

\* What was handled and is not waiting in the table is settled.
LEMMA NotBlocked ==
  ASSUME IInv, NEW c \in Consumers, NEW h \in Handlers, next[c] \in Messages,
         ~ Blocked(<<h, next[c]>>), NEW r \in Rows, Earlier(r, <<h, next[c]>>)
  PROVE  Settled(r)
<1>1. <<h, next[c]>> \in Rows /\ <<h, next[c]>>[2] = next[c]
  BY RowFacts
<1>2. /\ r[2] \in 1 .. next[c] - 1 /\ r \in Due(r[2])
      /\ SequenceOfRow(r) = SequenceOfRow(<<h, next[c]>>)
  BY <1>1, EarlierFacts
<1>3. Handled(r)
  BY <1>2 DEF IInv, NothingSkipped
<1>4. status[r] \notin Unresolved
  BY <1>2 DEF Blocked, UnresolvedIn, Blocks
<1> QED
  BY <1>3, <1>4 DEF Handled

LEMMA CheckKeeps ==
  ASSUME IInv, NEW c \in Consumers, NEW h \in Handlers, Check(c, h)
  PROVE  IInv'
<1> DEFINE s == IF Blocked(<<h, next[c]>>) THEN "holding" ELSE "running"
<1>1. /\ step[c][h] = "checking" /\ Go(c, h, s)
      /\ UNCHANGED <<table, group, next, attempt, people, history, bounds>>
  BY DEF Check
<1>2. s \in Steps /\ s # "done"
  BY DEF Steps
<1>3. next[c] \in Messages
  BY <1>1 DEF IInv, Working, Resting
<1>4. s = "running" => \A r \in Rows : Earlier(r, <<h, next[c]>>) => Settled(r)
  BY <1>3, NotBlocked
<1>5. /\ attempt' \in [Consumers -> [Handlers -> 0 .. MaxRetries]]
      /\ crashes' \in Nat /\ rebalances' \in Nat /\ errors' \in Nat
      /\ UNCHANGED <<requests, stops>>
  BY <1>1 DEF IInv, TypeOK, bounds
<1>6. UNCHANGED <<table, group, next, people, history>>
  BY <1>1
<1> HIDE DEF s
<1> QED
  BY <1>1, <1>2, <1>4, <1>5, <1>6, GoKeeps

LEMMA ThrowsKeeps ==
  ASSUME IInv, NEW c \in Consumers, NEW h \in Handlers,
         CheckTimesOut(c, h) \/ DatabaseError(c, h)
  PROVE  IInv'
<1>1. /\ step[c][h] # "none" /\ Go(c, h, "thrown")
      /\ UNCHANGED <<table, group, next, attempt, people, history>>
      /\ errors' \in Nat /\ UNCHANGED <<crashes, rebalances, requests, stops>>
  BY DEF IInv, TypeOK, CheckTimesOut, DatabaseError, AfterRecordError, bounds
<1>2. /\ attempt' \in [Consumers -> [Handlers -> 0 .. MaxRetries]]
      /\ crashes' \in Nat /\ rebalances' \in Nat
  BY <1>1 DEF IInv, TypeOK
<1>3. "thrown" \in Steps
  BY DEF Steps
<1> QED
  BY <1>1, <1>2, <1>3, GoKeeps

LEMMA RunFailsKeeps ==
  ASSUME IInv, NEW c \in Consumers, NEW h \in Handlers, RunFails(c, h)
  PROVE  IInv'
<1>1. /\ step[c][h] = "running" /\ attempt[c][h] \in 0 .. MaxRetries
      /\ UNCHANGED <<table, group, next, people, history, bounds>>
  BY DEF RunFails, IInv, TypeOK
<1>2. /\ crashes' \in Nat /\ rebalances' \in Nat /\ errors' \in Nat
      /\ UNCHANGED <<requests, stops>>
  BY <1>1 DEF IInv, TypeOK, bounds
<1>3. ASSUME NEW s \in {"done", "failing"}, Go(c, h, s), UNCHANGED attempt,
             s = "done" => h \in DisabledDLQ
      PROVE  IInv'
  <2>1. s = "done" => <<h, next[c]>> \notin Due(next[c])
    BY <1>3 DEF Due
  <2>2. attempt' \in [Consumers -> [Handlers -> 0 .. MaxRetries]]
    BY <1>3 DEF IInv, TypeOK
  <2>3. s \in Steps /\ s # "running"
    BY DEF Steps
  <2> QED
    BY <1>1, <1>2, <1>3, <2>1, <2>2, <2>3, GoKeeps
<1>4. CASE RetryAllowed(attempt[c][h]) /\ UNCHANGED step
           /\ attempt' = [attempt EXCEPT ![c][h] = @ + 1]
  <2>1. attempt[c][h] + 1 \in 0 .. MaxRetries
    BY <1>1, <1>4, DeadLetterAssumption DEF RetryAllowed
  <2>2. [attempt[c] EXCEPT ![h] = attempt[c][h] + 1] \in [Handlers -> 0 .. MaxRetries]
    BY <2>1 DEF IInv, TypeOK
  <2>3. attempt' = [attempt EXCEPT ![c] = [attempt[c] EXCEPT ![h] = attempt[c][h] + 1]]
    BY <1>4 DEF IInv, TypeOK
  <2>4. attempt' \in [Consumers -> [Handlers -> 0 .. MaxRetries]]
    BY <2>2, <2>3 DEF IInv, TypeOK
  <2>5. /\ UNCHANGED <<table, people, history>> /\ UNCHANGED <<owner, committed, next, step>>
    BY <1>1, <1>4 DEF group
  <2>6. /\ owner' \in Consumers /\ committed' \in 0 .. NumMessages
        /\ next' \in [Consumers -> 1 .. NumMessages + 1] /\ committed' < next'[owner']
        /\ step' \in [Consumers -> [Handlers -> Steps]]
    BY <2>5 DEF IInv, TypeOK, NothingSkipped
  <2>7. \A d \in Consumers : next'[d] \in Messages \/ \A g \in Handlers : step'[d][g] = "none"
    BY <2>5 DEF IInv, Working, Resting
  <2>8. /\ \A d \in Consumers : \A m \in 1 .. next'[d] - 1 : \A row \in Due(m) : Handled(row)
        /\ \A d \in Consumers, g \in Handlers :
             step'[d][g] = "done" /\ <<g, next'[d]>> \in Due(next'[d]) => Handled(<<g, next'[d]>>)
    BY <2>5 DEF IInv, NothingSkipped
  <2>9. \A d \in Consumers, g \in Handlers, r \in Rows :
          step'[d][g] = "running" /\ Earlier(r, <<g, next'[d]>>) => Settled(r)
    BY <2>5 DEF IInv, RunsInOrder
  <2> QED
    BY <1>2, <2>4, <2>5, <2>6, <2>7, <2>8, <2>9, LoopKeeps
<1> QED
  BY <1>3, <1>4 DEF RunFails

LEMMA DeliverKeeps ==
  ASSUME IInv, NEW c \in Consumers, Deliver(c)
  PROVE  IInv'
<1>1. /\ next[c] \in Messages
      /\ step' = [step EXCEPT ![c] = [h \in Handlers |-> FirstStep(h, next[c])]]
      /\ UNCHANGED <<table, group, next, attempt, people, history, bounds>>
  BY DEF Deliver
<1>2. [h \in Handlers |-> FirstStep(h, next[c])] \in [Handlers -> Steps]
  BY DEF FirstStep, Steps
<1>3. /\ step' \in [Consumers -> [Handlers -> Steps]]
      /\ \A h \in Handlers : step'[c][h] = FirstStep(h, next[c])
      /\ \A d \in Consumers \ {c} : step'[d] = step[d]
  BY <1>1, <1>2 DEF IInv, TypeOK
<1>4. UNCHANGED <<owner, committed, next, attempt, crashes, rebalances, errors, requests, stops>>
  BY <1>1 DEF group, bounds
<1>5. /\ owner' \in Consumers /\ committed' \in 0 .. NumMessages
      /\ next' \in [Consumers -> 1 .. NumMessages + 1] /\ committed' < next'[owner']
      /\ attempt' \in [Consumers -> [Handlers -> 0 .. MaxRetries]]
      /\ crashes' \in Nat /\ rebalances' \in Nat /\ errors' \in Nat
  BY <1>4 DEF IInv, TypeOK, NothingSkipped
<1>6. \A d \in Consumers : next'[d] \in Messages \/ \A g \in Handlers : step'[d][g] = "none"
  BY <1>1, <1>3, <1>4 DEF IInv, Working, Resting
<1>7. \A d \in Consumers : \A m \in 1 .. next'[d] - 1 : \A row \in Due(m) : Handled(row)
  BY <1>4 DEF IInv, NothingSkipped
<1>8. \A d \in Consumers, g \in Handlers :
        step'[d][g] = "done" /\ <<g, next'[d]>> \in Due(next'[d]) => Handled(<<g, next'[d]>>)
  <2> SUFFICES ASSUME NEW d \in Consumers, NEW g \in Handlers, step'[d][g] = "done",
                      <<g, next[d]>> \in Due(next[d])
               PROVE  Handled(<<g, next[d]>>)
    BY <1>4
  <2>1. CASE d = c
    BY <2>1, <1>3 DEF FirstStep, Due
  <2>2. CASE d # c
    BY <2>2, <1>3 DEF IInv, NothingSkipped
  <2> QED
    BY <2>1, <2>2
<1>9. \A d \in Consumers, g \in Handlers, r \in Rows :
        step'[d][g] = "running" /\ Earlier(r, <<g, next'[d]>>) => Settled(r)
  <2> SUFFICES ASSUME NEW d \in Consumers, NEW g \in Handlers, NEW r \in Rows,
                      step'[d][g] = "running", Earlier(r, <<g, next[d]>>)
               PROVE  Settled(r)
    BY <1>4
  <2>1. CASE d = c
    <3>1. SequenceOf[next[c]] # NoSequence
      BY <2>1, <1>1, RowFacts, EarlierFacts
    <3> QED
      BY <3>1, <2>1, <1>3 DEF FirstStep
  <2>2. CASE d # c
    BY <2>2, <1>3 DEF IInv, RunsInOrder
  <2> QED
    BY <2>1, <2>2
<1> QED
  BY <1>1, <1>3, <1>4, <1>5, <1>6, <1>7, <1>8, <1>9, LoopKeeps

\* A loop that ends its message, starts elsewhere or dies is at rest afterwards.
LEMMA RestKeeps ==
  ASSUME IInv, NEW c \in Consumers,
         Clear(c) \/ (Resting(c) /\ UNCHANGED <<step, attempt>>),
         UNCHANGED <<table, people, history>>,
         owner' \in Consumers, committed' \in 0 .. NumMessages,
         next' \in [Consumers -> 1 .. NumMessages + 1],
         \A d \in Consumers \ {c} : next'[d] = next[d],
         committed' < next'[owner'],
         \A m \in 1 .. next'[c] - 1 : \A row \in Due(m) : Handled(row),
         crashes' \in Nat, rebalances' \in Nat, errors' \in Nat, UNCHANGED <<requests, stops>>
  PROVE  IInv'
<1>1. /\ step' \in [Consumers -> [Handlers -> Steps]]
      /\ attempt' \in [Consumers -> [Handlers -> 0 .. MaxRetries]]
      /\ \A h \in Handlers : step'[c][h] = "none"
      /\ \A d \in Consumers \ {c} : step'[d] = step[d]
  BY ClearType DEF IInv, TypeOK, Resting
<1>2. \A d \in Consumers : next'[d] \in Messages \/ \A g \in Handlers : step'[d][g] = "none"
  BY <1>1 DEF IInv, Working, Resting
<1>3. \A d \in Consumers : \A m \in 1 .. next'[d] - 1 : \A row \in Due(m) : Handled(row)
  <2> SUFFICES ASSUME NEW d \in Consumers \ {c}
               PROVE  \A m \in 1 .. next'[d] - 1 : \A row \in Due(m) : Handled(row)
    OBVIOUS
  <2> QED
    BY DEF IInv, NothingSkipped
<1>4. \A d \in Consumers, g \in Handlers :
        step'[d][g] = "done" /\ <<g, next'[d]>> \in Due(next'[d]) => Handled(<<g, next'[d]>>)
  BY <1>1 DEF IInv, NothingSkipped
<1>5. \A d \in Consumers, g \in Handlers, r \in Rows :
        step'[d][g] = "running" /\ Earlier(r, <<g, next'[d]>>) => Settled(r)
  BY <1>1 DEF IInv, RunsInOrder
<1> QED
  BY <1>1, <1>2, <1>3, <1>4, <1>5, LoopKeeps

LEMMA AdvanceKeeps ==
  ASSUME IInv, NEW c \in Consumers, Advance(c)
  PROVE  IInv'
<1>1. /\ owner = c /\ ~ Resting(c) /\ Clear(c)
      /\ \A h \in Handlers : step[c][h] = "done"
      /\ next' = [next EXCEPT ![c] = next[c] + 1]
      /\ UNCHANGED <<table, people, history>>
      /\ UNCHANGED <<owner, committed, crashes, rebalances, errors, requests, stops>>
  BY DEF Advance, group, bounds
<1>2. next[c] \in Messages
  BY <1>1 DEF IInv, Working
<1>3. /\ next' \in [Consumers -> 1 .. NumMessages + 1] /\ next'[c] = next[c] + 1
      /\ \A d \in Consumers \ {c} : next'[d] = next[d]
  BY <1>1, <1>2, DeadLetterAssumption DEF IInv, TypeOK, Messages
<1>4. \A m \in 1 .. next'[c] - 1 : \A row \in Due(m) : Handled(row)
  <2> SUFFICES ASSUME NEW m \in 1 .. next[c], NEW row \in Due(m) PROVE Handled(row)
    BY <1>2, <1>3 DEF Messages
  <2>1. CASE m = next[c]
    <3>1. row[1] \in Handlers /\ row = <<row[1], next[c]>>
      BY <2>1, <1>2, DueFacts, RowPair
    <3> QED
      BY <3>1, <2>1, <1>1 DEF IInv, NothingSkipped
  <2>2. CASE m # next[c]
    <3>1. m \in 1 .. next[c] - 1
      BY <2>2, <1>2 DEF Messages
    <3> QED
      BY <3>1 DEF IInv, NothingSkipped
  <2> QED
    BY <2>1, <2>2
<1>5. /\ owner' \in Consumers /\ committed' \in 0 .. NumMessages /\ committed' < next'[owner']
      /\ crashes' \in Nat /\ rebalances' \in Nat /\ errors' \in Nat
  BY <1>1, <1>2, <1>3 DEF IInv, TypeOK, NothingSkipped, Messages
<1> QED
  BY <1>1, <1>3, <1>4, <1>5, RestKeeps

\* What is committed is before the message of the loop that owns the partition.
LEMMA BeforeOwner ==
  ASSUME IInv, NEW c \in Consumers, owner = c,
         NEW offset \in {committed, next[c] - 1}
  PROVE  /\ offset \in 0 .. NumMessages /\ offset < next[c]
         /\ \A m \in 1 .. offset : \A row \in Due(m) : Handled(row)
<1>1. /\ committed \in 0 .. NumMessages /\ next[c] \in 1 .. NumMessages + 1
      /\ committed < next[c] /\ NumMessages \in Nat
  BY DeadLetterAssumption DEF IInv, TypeOK, NothingSkipped
<1>2. offset \in 0 .. NumMessages /\ offset < next[c]
  BY <1>1
<1>3. \A m \in 1 .. offset : m \in 1 .. next[c] - 1
  BY <1>1, <1>2
<1> QED
  BY <1>2, <1>3 DEF IInv, NothingSkipped

LEMMA CommitKeeps ==
  ASSUME IInv, NEW c \in Consumers, CommitOffsets(c)
  PROVE  IInv'
<1>1. /\ owner = c /\ committed' = next[c] - 1 /\ UNCHANGED <<table, people, history>>
      /\ UNCHANGED <<owner, next, step, attempt, crashes, rebalances, errors, requests, stops>>
  BY DEF CommitOffsets, loops, bounds
<1>2. committed' \in 0 .. NumMessages /\ committed' < next'[owner']
  BY <1>1, BeforeOwner
<1>3. /\ owner' \in Consumers /\ next' \in [Consumers -> 1 .. NumMessages + 1]
      /\ step' \in [Consumers -> [Handlers -> Steps]]
      /\ attempt' \in [Consumers -> [Handlers -> 0 .. MaxRetries]]
      /\ crashes' \in Nat /\ rebalances' \in Nat /\ errors' \in Nat
  BY <1>1 DEF IInv, TypeOK
<1>4. /\ \A d \in Consumers : next'[d] \in Messages \/ \A g \in Handlers : step'[d][g] = "none"
  BY <1>1 DEF IInv, Working, Resting
<1>5. /\ \A d \in Consumers : \A m \in 1 .. next'[d] - 1 : \A row \in Due(m) : Handled(row)
      /\ \A d \in Consumers, g \in Handlers :
           step'[d][g] = "done" /\ <<g, next'[d]>> \in Due(next'[d]) => Handled(<<g, next'[d]>>)
  BY <1>1 DEF IInv, NothingSkipped
<1>6. \A d \in Consumers, g \in Handlers, r \in Rows :
        step'[d][g] = "running" /\ Earlier(r, <<g, next'[d]>>) => Settled(r)
  BY <1>1 DEF IInv, RunsInOrder
<1> QED
  BY <1>1, <1>2, <1>3, <1>4, <1>5, <1>6, LoopKeeps

\* Another loop takes over behind what is committed.
LEMMA StartFromFacts ==
  ASSUME IInv, NEW c \in Consumers, owner = c, NEW d \in Consumers,
         NEW offset \in {committed, next[c] - 1}, StartFrom(d, offset)
  PROVE  /\ owner' \in Consumers /\ committed' \in 0 .. NumMessages
         /\ next' \in [Consumers -> 1 .. NumMessages + 1]
         /\ \A b \in Consumers \ {d} : next'[b] = next[b]
         /\ committed' < next'[owner']
         /\ \A m \in 1 .. next'[d] - 1 : \A row \in Due(m) : Handled(row)
<1>1. /\ offset \in 0 .. NumMessages
      /\ \A m \in 1 .. offset : \A row \in Due(m) : Handled(row)
  BY BeforeOwner
<1>2. owner' = d /\ committed' = offset /\ next' = [next EXCEPT ![d] = offset + 1]
  BY DEF StartFrom
<1>3. offset + 1 \in 1 .. NumMessages + 1 /\ offset < offset + 1 /\ (offset + 1) - 1 = offset
  BY <1>1, DeadLetterAssumption
<1>4. /\ next' \in [Consumers -> 1 .. NumMessages + 1] /\ next'[d] = offset + 1
      /\ \A b \in Consumers \ {d} : next'[b] = next[b]
  BY <1>2, <1>3 DEF IInv, TypeOK
<1> QED
  BY <1>1, <1>2, <1>3, <1>4

LEMMA ThrowKeeps ==
  ASSUME IInv, NEW c \in Consumers, NEW d \in Consumers, Throw(c, d)
  PROVE  IInv'
<1>1. /\ owner = c
      /\ Clear(d) \/ (Resting(d) /\ UNCHANGED <<step, attempt>>)
      /\ UNCHANGED <<table, people, history>>
      /\ UNCHANGED <<crashes, rebalances, errors, requests, stops>>
  BY DEF Throw, bounds
<1>2. PICK offset \in {committed, next[c] - 1} : StartFrom(d, offset)
  BY DEF Throw
<1>3. crashes' \in Nat /\ rebalances' \in Nat /\ errors' \in Nat
  BY <1>1 DEF IInv, TypeOK
<1>4. /\ owner' \in Consumers /\ committed' \in 0 .. NumMessages
      /\ next' \in [Consumers -> 1 .. NumMessages + 1]
      /\ \A b \in Consumers \ {d} : next'[b] = next[b]
      /\ committed' < next'[owner']
      /\ \A m \in 1 .. next'[d] - 1 : \A row \in Due(m) : Handled(row)
  BY <1>1, <1>2, StartFromFacts
<1> QED
  BY <1>1, <1>3, <1>4, RestKeeps

LEMMA RebalanceKeeps ==
  ASSUME IInv, NEW c \in Consumers, NEW d \in Consumers, Rebalance(c, d)
  PROVE  IInv'
<1>1. /\ owner = c /\ Resting(d) /\ UNCHANGED <<step, attempt>>
      /\ StartFrom(d, committed) /\ UNCHANGED <<table, people, history>>
      /\ rebalances' = rebalances + 1 /\ UNCHANGED <<crashes, errors, requests, stops>>
  BY DEF Rebalance
<1>2. crashes' \in Nat /\ rebalances' \in Nat /\ errors' \in Nat
  BY <1>1 DEF IInv, TypeOK
<1> QED
  BY <1>1, <1>2, StartFromFacts, RestKeeps

LEMMA RetireKeeps ==
  ASSUME IInv, NEW c \in Consumers, Retire(c)
  PROVE  IInv'
<1>1. /\ Clear(c) /\ UNCHANGED <<table, people, history>>
      /\ UNCHANGED <<owner, committed, next, crashes, rebalances, errors, requests, stops>>
  BY DEF Retire, group, bounds
<1>2. /\ owner' \in Consumers /\ committed' \in 0 .. NumMessages
      /\ next' \in [Consumers -> 1 .. NumMessages + 1] /\ committed' < next'[owner']
      /\ \A m \in 1 .. next'[c] - 1 : \A row \in Due(m) : Handled(row)
      /\ crashes' \in Nat /\ rebalances' \in Nat /\ errors' \in Nat
  BY <1>1 DEF IInv, TypeOK, NothingSkipped
<1> QED
  BY <1>1, <1>2, RestKeeps

LEMMA CrashKeeps ==
  ASSUME IInv, NEW c \in Consumers, Crash(c)
  PROVE  IInv'
<1>1. /\ Clear(c) /\ UNCHANGED <<table, people, history>>
      /\ next' = [next EXCEPT ![c] = committed + 1] /\ crashes' = crashes + 1
      /\ UNCHANGED <<owner, committed, rebalances, errors, requests, stops>>
  BY DEF Crash, group
<1>2. committed \in 0 .. NumMessages /\ committed < next[owner] /\ owner \in Consumers
  BY DEF IInv, TypeOK, NothingSkipped
<1>3. committed + 1 \in 1 .. NumMessages + 1 /\ committed < committed + 1
  BY <1>2, DeadLetterAssumption
<1>4. /\ next' \in [Consumers -> 1 .. NumMessages + 1] /\ next'[c] = committed + 1
      /\ \A d \in Consumers \ {c} : next'[d] = next[d]
  BY <1>1, <1>3 DEF IInv, TypeOK
<1>5. committed' < next'[owner']
  BY <1>1, <1>2, <1>3, <1>4
<1>6. \A m \in 1 .. next'[c] - 1 : \A row \in Due(m) : Handled(row)
  <2>1. next'[c] - 1 = committed
    BY <1>2, <1>4
  <2> QED
    BY <1>2, <2>1, BeforeOwner
<1>7. /\ owner' \in Consumers /\ committed' \in 0 .. NumMessages
      /\ crashes' \in Nat /\ rebalances' \in Nat /\ errors' \in Nat
  BY <1>1 DEF IInv, TypeOK
<1> QED
  BY <1>1, <1>4, <1>5, <1>6, <1>7, RestKeeps

-----------------------------------------------------------------------------
(* Steps that write the table, the history or the state of an operator *)

\* Where operator o is fits the table.
AtWork(o) ==
  /\ opc[o] # "idle" => asked[o] \in Rows /\ status[asked[o]] # "none"
  /\ InWork(o) => /\ cur[o] \in Rows /\ status[cur[o]] # "none"
                  /\ SequenceOfRow(cur[o]) = SequenceOfRow(asked[o])
  /\ opc[o] = "marking" => cur[o] \in applied
  /\ \A r \in Rows : opc[o] = "running" /\ Earlier(r, cur[o]) => Settled(r)

\* What was settled, handled or in the table stays so; then the other loops and the
\* other operators are as they were.
LEMMA WriteKeeps ==
  ASSUME IInv, TypeOK', RowsOK', InOrder', UNCHANGED <<group, next>>,
         applied \subseteq applied', discarded \subseteq discarded',
         \A r \in Rows : Handled(r) => Handled(r)',
         \A r \in Rows : status[r] # "none" => status'[r] # "none",
         \A c \in Consumers, h \in Handlers :
           \/ step'[c][h] = step[c][h]
           \/ /\ step[c][h] # "none" /\ step'[c][h] = "done"
              /\ <<h, next[c]>> \in Due(next[c]) => Handled(<<h, next[c]>>)',
         \A p \in Operators :
           \/ opc'[p] = opc[p] /\ asked'[p] = asked[p] /\ cur'[p] = cur[p]
           \/ AtWork(p)'
  PROVE  IInv'
<1>1. UNCHANGED <<owner, committed, next>>
  BY DEF group
<1>2. \A r : Settled(r) => Settled(r)'
  BY DEF Settled
<1>3. Working'
  <2>1. ASSUME NEW c \in Consumers PROVE next'[c] \in Messages \/ Resting(c)'
    BY <1>1 DEF IInv, Working, Resting
  <2>2. ASSUME NEW o \in Operators
        PROVE  /\ opc'[o] # "idle" => asked'[o] \in Rows /\ status'[asked'[o]] # "none"
               /\ InWork(o)' => /\ cur'[o] \in Rows /\ status'[cur'[o]] # "none"
                                /\ SequenceOfRow(cur'[o]) = SequenceOfRow(asked'[o])
               /\ opc'[o] = "marking" => cur'[o] \in applied'
    BY DEF IInv, Working, InWork, AtWork
  <2> QED
    BY <2>1, <2>2, <1>1 DEF Working, SequenceOfRow
<1>4. NothingSkipped'
  <2>1. ASSUME NEW c \in Consumers, NEW m \in 1 .. next[c] - 1, NEW row \in Due(m)
        PROVE  Handled(row)'
    <3>1. m \in Messages
      BY DeadLetterAssumption DEF IInv, TypeOK, Messages
    <3> QED
      BY <3>1, DueFacts DEF IInv, NothingSkipped
  <2>2. ASSUME NEW c \in Consumers, NEW h \in Handlers, step'[c][h] = "done",
               <<h, next[c]>> \in Due(next[c])
        PROVE  Handled(<<h, next[c]>>)'
    <3>1. CASE step'[c][h] = step[c][h]
      <4>1. next[c] \in Messages
        BY <2>2, <3>1 DEF IInv, Working, Resting
      <4> QED
        BY <4>1, <3>1, <2>2, DueFacts DEF IInv, NothingSkipped
    <3> QED
      BY <3>1, <2>2
  <2> QED
    BY <1>1, <2>1, <2>2 DEF IInv, NothingSkipped
<1>5. RunsInOrder'
  <2>1. ASSUME NEW c \in Consumers, NEW h \in Handlers, NEW r \in Rows,
               step'[c][h] = "running", Earlier(r, <<h, next[c]>>)
        PROVE  Settled(r)'
    BY <2>1, <1>2 DEF IInv, RunsInOrder
  <2>2. ASSUME NEW o \in Operators, NEW r \in Rows,
               opc'[o] = "running", Earlier(r, cur'[o])
        PROVE  Settled(r)'
    BY <2>2, <1>2 DEF IInv, RunsInOrder, AtWork
  <2> QED
    BY <2>1, <2>2, <1>1 DEF RunsInOrder, Earlier
<1> QED
  BY <1>3, <1>4, <1>5 DEF IInv

\* Steps of an operator that write neither the table nor the history.
LEMMA PeopleKeeps ==
  ASSUME IInv, NEW o \in Operators, UNCHANGED <<table, group, loops, history>>,
         UNCHANGED <<crashes, rebalances, errors>>, requests' \in Nat, stops' \in Nat,
         opc' \in [Operators -> Jobs],
         asked' \in [Operators -> Rows \cup {NoRow}],
         cur' \in [Operators -> Rows \cup {NoRow}],
         \A p \in Operators \ {o} : opc'[p] = opc[p] /\ asked'[p] = asked[p] /\ cur'[p] = cur[p],
         AtWork(o)'
  PROVE  IInv'
<1>1. UNCHANGED <<status, id, lastId, next, step, attempt, owner, committed, applied, discarded>>
  BY DEF table, group, loops, history
<1>2. TypeOK'
  BY <1>1 DEF IInv, TypeOK
<1>3. RowsOK' /\ InOrder'
  BY <1>1 DEF IInv, RowsOK, InOrder, Earlier, Settled
<1>4. \A r \in Rows : Handled(r) => Handled(r)'
  BY <1>1 DEF Handled, Settled
<1> QED
  BY <1>1, <1>2, <1>3, <1>4, WriteKeeps

LEMMA ReleaseKeeps ==
  ASSUME IInv, NEW o \in Operators, Release(o), UNCHANGED <<table, group, loops, history>>,
         UNCHANGED <<crashes, rebalances, errors>>, requests' \in Nat, stops' \in Nat
  PROVE  IInv'
<1>1. TypeOK
  BY DEF IInv
<1>2. /\ opc' \in [Operators -> Jobs] /\ opc'[o] = "idle"
      /\ asked' \in [Operators -> Rows \cup {NoRow}]
      /\ cur' \in [Operators -> Rows \cup {NoRow}]
      /\ \A p \in Operators \ {o} : opc'[p] = opc[p] /\ asked'[p] = asked[p] /\ cur'[p] = cur[p]
  BY <1>1, ReleaseType
<1>3. AtWork(o)'
  BY <1>2 DEF AtWork, InWork
<1> QED
  BY <1>2, <1>3, PeopleKeeps

LEMMA RequestKeeps ==
  ASSUME IInv, NEW o \in Operators, NEW row \in Rows, NEW job \in {"redrive", "discard"},
         Request(o, row, job)
  PROVE  IInv'
<1>1. /\ status[row] # "none" /\ UNCHANGED <<table, group, loops, history, cur>>
      /\ UNCHANGED <<crashes, rebalances, errors>> /\ requests' \in Nat /\ stops' \in Nat
      /\ opc' = [opc EXCEPT ![o] = job] /\ asked' = [asked EXCEPT ![o] = row]
  BY DEF Request, Unresolved, IInv, TypeOK
<1>2. /\ opc' \in [Operators -> Jobs]
      /\ asked' \in [Operators -> Rows \cup {NoRow}]
      /\ cur' \in [Operators -> Rows \cup {NoRow}]
      /\ opc'[o] = job /\ asked'[o] = row
      /\ \A p \in Operators \ {o} : opc'[p] = opc[p] /\ asked'[p] = asked[p] /\ cur'[p] = cur[p]
  BY <1>1 DEF IInv, TypeOK, Jobs
<1>3. AtWork(o)'
  BY <1>1, <1>2 DEF AtWork, InWork, table
<1> QED
  BY <1>1, <1>2, <1>3, PeopleKeeps

LEMMA StopsKeeps ==
  ASSUME IInv, NEW o \in Operators, Busy(o) \/ RedriveStops(o)
  PROVE  IInv'
<1>1. /\ Release(o) /\ UNCHANGED <<table, group, loops, history>>
      /\ UNCHANGED <<crashes, rebalances, errors>> /\ requests' \in Nat /\ stops' \in Nat
  BY DEF Busy, RedriveStops, bounds, IInv, TypeOK
<1> QED
  BY <1>1, ReleaseKeeps

\* An operator goes on to another part of its job.
LEMMA JobKeeps ==
  ASSUME IInv, NEW o \in Operators, NEW job \in Jobs,
         opc' = [opc EXCEPT ![o] = job],
         NEW row \in Rows \cup {NoRow}, cur' = [cur EXCEPT ![o] = row],
         UNCHANGED <<table, group, loops, asked, history, bounds>>,
         opc[o] # "idle", job # "marking",
         job \in {"running", "refusing", "reading"} =>
           /\ row \in Rows /\ status[row] # "none"
           /\ SequenceOfRow(row) = SequenceOfRow(asked[o]),
         job = "running" => \A r \in Rows : Earlier(r, row) => Settled(r)
  PROVE  IInv'
<1>1. /\ UNCHANGED <<crashes, rebalances, errors>> /\ requests' \in Nat /\ stops' \in Nat
      /\ UNCHANGED <<status, asked, applied, discarded>>
  BY DEF bounds, IInv, TypeOK, table, history
<1>2. /\ opc' \in [Operators -> Jobs]
      /\ asked' \in [Operators -> Rows \cup {NoRow}]
      /\ cur' \in [Operators -> Rows \cup {NoRow}]
      /\ opc'[o] = job /\ cur'[o] = row
      /\ \A p \in Operators \ {o} : opc'[p] = opc[p] /\ asked'[p] = asked[p] /\ cur'[p] = cur[p]
  BY DEF IInv, TypeOK
<1>3. AtWork(o)'
  <2>1. asked'[o] \in Rows /\ status'[asked'[o]] # "none"
    BY <1>1 DEF IInv, Working
  <2>2. InWork(o)' => /\ cur'[o] \in Rows /\ status'[cur'[o]] # "none"
                      /\ SequenceOfRow(cur'[o]) = SequenceOfRow(asked'[o])
    BY <1>1, <1>2 DEF InWork
  <2>3. \A r \in Rows : opc'[o] = "running" /\ Earlier(r, cur'[o]) => Settled(r)'
    BY <1>1, <1>2 DEF Settled
  <2> QED
    BY <2>1, <2>2, <2>3, <1>1, <1>2 DEF AtWork, Earlier, SequenceOfRow
<1> QED
  BY <1>1, <1>2, <1>3, PeopleKeeps

LEMMA LockKeeps ==
  ASSUME IInv, NEW o \in Operators, Lock(o)
  PROVE  IInv'
<1>1. /\ opc' = [opc EXCEPT ![o] = "next"] /\ cur' = [cur EXCEPT ![o] = cur[o]]
      /\ UNCHANGED <<table, group, loops, asked, history, bounds>>
      /\ opc[o] # "idle" /\ cur[o] \in Rows \cup {NoRow}
  BY DEF Lock, IInv, TypeOK
<1>2. "next" \in Jobs
  BY DEF Jobs
<1> QED
  BY <1>1, <1>2, JobKeeps

\* The row at the head of a sequence has its earlier rows settled: they have
\* smaller ids and are resolved.
LEMMA HeadInOrder ==
  ASSUME IInv, NEW row \in Rows, NEW s, IsHead(row, s), NEW r \in Rows, Earlier(r, row)
  PROVE  Settled(r)
<1>1. status[row] # "none" /\ SequenceOfRow(row) = s
  BY DEF IsHead, UnresolvedIn, Blocks, Unresolved
<1>2. Settled(r) \/ (status[r] # "none" /\ id[r] < id[row])
  BY <1>1 DEF IInv, InOrder
<1>3. CASE status[r] # "none" /\ id[r] < id[row]
  <2>1. r \notin UnresolvedIn(s)
    BY <1>3 DEF IsHead, IInv, TypeOK
  <2>2. SequenceOfRow(r) = s
    BY <1>1, EarlierFacts
  <2>3. status[r] \in {"redriven", "discarded"}
    BY <2>1, <2>2, <1>3 DEF UnresolvedIn, Blocks, IInv, TypeOK, Statuses
  <2> QED
    BY <2>3 DEF IInv, RowsOK, Settled
<1> QED
  BY <1>2, <1>3

LEMMA TakeNextKeeps ==
  ASSUME IInv, NEW o \in Operators, TakeNext(o)
  PROVE  IInv'
<1>1. /\ UNCHANGED <<table, group, loops, history, bounds>> /\ opc[o] # "idle"
  BY DEF TakeNext
<1>2. CASE Release(o)
  <2>1. UNCHANGED <<crashes, rebalances, errors>> /\ requests' \in Nat /\ stops' \in Nat
    BY <1>1 DEF bounds, IInv, TypeOK
  <2> QED
    BY <1>1, <1>2, <2>1, ReleaseKeeps
<1>3. ASSUME NEW row \in Rows, IsHead(row, SequenceOfRow(asked[o])),
             cur' = [cur EXCEPT ![o] = row], opc' = [opc EXCEPT ![o] = "running"],
             UNCHANGED asked
      PROVE  IInv'
  <2>1. /\ status[row] # "none" /\ SequenceOfRow(row) = SequenceOfRow(asked[o])
    BY <1>3 DEF IsHead, UnresolvedIn, Blocks, Unresolved
  <2>2. \A r \in Rows : Earlier(r, row) => Settled(r)
    BY <1>3, HeadInOrder
  <2>3. "running" \in Jobs
    BY DEF Jobs
  <2> QED
    BY <1>1, <1>3, <2>1, <2>2, <2>3, JobKeeps
<1> QED
  BY <1>2, <1>3 DEF TakeNext

LEMMA RedriveFailsKeeps ==
  ASSUME IInv, NEW o \in Operators, RedriveFails(o)
  PROVE  IInv'
<1>1. /\ opc' = [opc EXCEPT ![o] = "refusing"] /\ cur' = [cur EXCEPT ![o] = cur[o]]
      /\ UNCHANGED <<table, group, loops, asked, history, bounds>>
      /\ opc[o] = "running"
  BY DEF RedriveFails, IInv, TypeOK
<1>2. /\ cur[o] \in Rows /\ status[cur[o]] # "none"
      /\ SequenceOfRow(cur[o]) = SequenceOfRow(asked[o])
  BY <1>1 DEF IInv, Working, InWork
<1>3. "refusing" \in Jobs
  BY DEF Jobs
<1> QED
  BY <1>1, <1>2, <1>3, JobKeeps

LEMMA ReadResultKeeps ==
  ASSUME IInv, NEW o \in Operators, ReadResult(o)
  PROVE  IInv'
<1>1. /\ UNCHANGED <<table, group, loops, history, bounds>> /\ opc[o] # "idle"
  BY DEF ReadResult
<1>2. CASE Release(o)
  <2>1. UNCHANGED <<crashes, rebalances, errors>> /\ requests' \in Nat /\ stops' \in Nat
    BY <1>1 DEF bounds, IInv, TypeOK
  <2> QED
    BY <1>1, <1>2, <2>1, ReleaseKeeps
<1>3. CASE /\ opc' = [opc EXCEPT ![o] = "next"] /\ cur' = [cur EXCEPT ![o] = NoRow]
           /\ UNCHANGED asked
  <2>1. "next" \in Jobs /\ NoRow \in Rows \cup {NoRow}
    BY DEF Jobs
  <2> QED
    BY <1>1, <1>3, <2>1, JobKeeps
<1> QED
  BY <1>2, <1>3 DEF ReadResult

\* The message of a loop that is not at rest.
LEMMA AtMessage ==
  ASSUME IInv, NEW c \in Consumers, NEW h \in Handlers, step[c][h] # "none"
  PROVE  next[c] \in Messages /\ <<h, next[c]>> \in Rows
<1>1. next[c] \in Messages
  BY DEF IInv, Working, Resting
<1> QED
  BY <1>1, RowFacts

\* A handler inserts the row of its message or sets it: what came before it in the
\* sequence is settled or waits with a smaller id.
LEMMA InsertKeeps ==
  ASSUME IInv, NEW c \in Consumers, NEW h \in Handlers, NEW s \in {"held", "failed"},
         step[c][h] # "none", Go(c, h, "done"),
         InsertId(<<h, next[c]>>), SetStatus(<<h, next[c]>>, s),
         UNCHANGED <<group, next, attempt, people, history, bounds>>
  PROVE  IInv'
<1> DEFINE row == <<h, next[c]>>
<1>1. /\ next[c] \in Messages /\ row \in Rows /\ row[2] = next[c] /\ TypeOK
      /\ "done" \in Steps /\ s \in Statuses /\ s \in Unresolved
  BY AtMessage, RowFacts DEF IInv, Steps, Statuses, Unresolved
<1>2. UNCHANGED <<owner, committed, next, attempt, opc, asked, cur, applied, discarded,
                  crashes, rebalances, errors, requests, stops>>
  BY DEF group, people, history, bounds
<1>3. /\ status' \in [Rows -> Statuses] /\ status'[row] = s
      /\ \A r \in Rows \ {row} : status'[r] = status[r]
  BY <1>1, StatusType
<1>4. /\ id' \in [Rows -> Nat] /\ lastId' \in Nat /\ lastId <= lastId'
      /\ status[row] = "none" => id'[row] = lastId + 1 /\ lastId' = lastId + 1
      /\ status[row] # "none" => id'[row] = id[row]
      /\ \A r \in Rows \ {row} : id'[r] = id[r]
  BY <1>1, InsertType
<1>5. /\ step' \in [Consumers -> [Handlers -> Steps]] /\ step'[c][h] = "done"
      /\ \A d \in Consumers, g \in Handlers : <<d, g>> # <<c, h>> => step'[d][g] = step[d][g]
  BY <1>1, GoType
<1> HIDE DEF row
<1>6. TypeOK'
  BY <1>1, <1>2, <1>3, <1>4, <1>5 DEF TypeOK
<1>7. \A r : Settled(r)' = Settled(r)
  BY <1>2 DEF Settled
<1>8. RowsOK'
  <2>1. ASSUME NEW r \in Rows
        PROVE  /\ status'[r] = "redriven" => r \in applied'
               /\ status'[r] = "discarded" => r \in discarded'
               /\ status'[r] # "none" => id'[r] \in 1 .. lastId'
    <3>1. status[r] # "none" => id[r] \in 1 .. lastId
      BY DEF IInv, RowsOK
    <3>2. CASE r = row
      BY <3>1, <3>2, <1>1, <1>3, <1>4 DEF Unresolved, TypeOK
    <3>3. CASE r # row
      BY <3>1, <3>3, <1>1, <1>2, <1>3, <1>4 DEF IInv, RowsOK, TypeOK
    <3> QED
      BY <3>2, <3>3
  <2>2. ASSUME NEW r \in Rows, NEW q \in Rows, status'[r] # "none", id'[q] = id'[r],
               q # r, status'[q] # "none"
        PROVE  FALSE
    <3>1. /\ status[r] # "none" => id[r] \in 1 .. lastId
          /\ status[q] # "none" => id[q] \in 1 .. lastId
          /\ status[r] # "none" /\ status[q] # "none" => id[q] # id[r]
          /\ lastId \in Nat
      BY <2>2 DEF IInv, RowsOK, TypeOK
    <3> QED
      BY <3>1, <2>2, <1>3, <1>4
  <2> QED
    BY <2>1, <2>2 DEF RowsOK
<1>9. ASSUME NEW r \in Rows, Earlier(r, row)
      PROVE  Settled(r) \/ (status[r] # "none" /\ id[r] \in 1 .. lastId)
  <2>1. r[2] \in 1 .. next[c] - 1 /\ r \in Due(r[2])
    BY <1>1, <1>9, EarlierFacts
  <2>2. Handled(r)
    BY <2>1 DEF IInv, NothingSkipped
  <2> QED
    BY <2>2 DEF Handled, Unresolved, IInv, RowsOK
<1>10. InOrder'
  <2> SUFFICES ASSUME NEW q \in Rows, NEW r \in Rows, Earlier(r, q)
               PROVE  /\ q \in applied => Settled(r)
                      /\ status'[q] # "none"
                           => Settled(r) \/ (status'[r] # "none" /\ id'[r] < id'[q])
    BY <1>2, <1>7 DEF InOrder, Earlier
  <2>1. /\ q \in applied => Settled(r)
        /\ status[q] # "none" => Settled(r) \/ (status[r] # "none" /\ id[r] < id[q])
    BY DEF IInv, InOrder
  <2>2. r # q
    BY EarlierFacts
  <2>3. CASE q = row /\ status[row] = "none"
    BY <2>1, <2>2, <2>3, <1>1, <1>3, <1>4, <1>9 DEF TypeOK
  <2>4. CASE q # row \/ status[row] # "none"
    BY <2>1, <2>4, <1>1, <1>3, <1>4 DEF Unresolved
  <2> QED
    BY <2>1, <2>3, <2>4
<1>11. \A r \in Rows : Handled(r) => Handled(r)'
  BY <1>1, <1>3, <1>7 DEF Handled
<1>12. \A r \in Rows : status[r] # "none" => status'[r] # "none"
  BY <1>1, <1>3 DEF Unresolved
<1>13. \A r \in Rows : r = row => Handled(r)'
  BY <1>1, <1>3 DEF Handled
<1>14. \A d \in Consumers, g \in Handlers :
         \/ step'[d][g] = step[d][g]
         \/ /\ step[d][g] # "none" /\ step'[d][g] = "done"
            /\ <<g, next[d]>> \in Due(next[d]) => Handled(<<g, next[d]>>)'
  BY <1>1, <1>2, <1>5, <1>13 DEF row
<1>15. UNCHANGED <<group, next>>
  OBVIOUS
<1> QED
  BY <1>2, <1>6, <1>8, <1>10, <1>11, <1>12, <1>14, <1>15, WriteKeeps

LEMMA HoldKeeps ==
  ASSUME IInv, NEW c \in Consumers, NEW h \in Handlers, Hold(c, h)
  PROVE  IInv'
<1> DEFINE row == <<h, next[c]>>
<1>1. /\ step[c][h] # "none" /\ InsertId(row)
      /\ UNCHANGED <<group, next, attempt, people, history, bounds>>
  BY DEF Hold
<1>2. CASE status[row] = "none"
  <2>1. SetStatus(row, "held") /\ Go(c, h, "done")
    BY <1>2 DEF Hold
  <2> QED
    BY <1>1, <2>1, InsertKeeps
<1>3. CASE status[row] # "none"
  <2>1. Go(c, h, "done") /\ UNCHANGED table
    BY <1>1, <1>3 DEF Hold, OnHoldConflict, InsertId, table
  <2>2. row \in Rows /\ "done" \in Steps
    BY <1>1, AtMessage DEF Steps
  <2>3. Handled(row)
    BY <1>3, <2>2 DEF IInv, TypeOK, Statuses, RowsOK, Handled, Settled
  <2>4. /\ attempt' \in [Consumers -> [Handlers -> 0 .. MaxRetries]]
        /\ crashes' \in Nat /\ rebalances' \in Nat /\ errors' \in Nat
        /\ UNCHANGED <<requests, stops>>
    BY <1>1 DEF IInv, TypeOK, bounds
  <2>5. UNCHANGED <<table, group, next, people, history>>
    BY <1>1, <2>1
  <2> HIDE DEF row
  <2> QED
    BY <1>1, <2>1, <2>2, <2>3, <2>4, <2>5, GoKeeps DEF row
<1> QED
  BY <1>2, <1>3

LEMMA RecordFailureKeeps ==
  ASSUME IInv, NEW c \in Consumers, NEW h \in Handlers, RecordFailure(c, h)
  PROVE  IInv'
<1>1. /\ step[c][h] # "none" /\ Go(c, h, "done")
      /\ InsertId(<<h, next[c]>>) /\ SetStatus(<<h, next[c]>>, "failed")
      /\ UNCHANGED <<group, next, attempt, people, history, bounds>>
  BY DEF RecordFailure
<1> QED
  BY <1>1, InsertKeeps

\* A handler or a redrive applies a row whose earlier rows are settled.
LEMMA ApplyFacts ==
  ASSUME IInv, NEW row \in Rows, applied' = applied \cup {row},
         UNCHANGED <<table, discarded>>,
         \A r \in Rows : Earlier(r, row) => Settled(r)
  PROVE  /\ RowsOK' /\ InOrder' /\ Settled(row)'
         /\ \A r \in Rows : Settled(r) => Settled(r)'
         /\ \A r \in Rows : Handled(r) => Handled(r)'
<1>1. UNCHANGED <<status, id, lastId, discarded>>
  BY DEF table
<1>2. \A r : Settled(r) => Settled(r)'
  BY <1>1 DEF Settled
<1>3. RowsOK'
  BY <1>1 DEF IInv, RowsOK
<1>4. InOrder'
  BY <1>1, <1>2 DEF IInv, InOrder, Earlier
<1> QED
  BY <1>1, <1>2, <1>3, <1>4 DEF Settled, Handled

LEMMA RunOkKeeps ==
  ASSUME IInv, NEW c \in Consumers, NEW h \in Handlers, RunOk(c, h)
  PROVE  IInv'
<1> DEFINE row == <<h, next[c]>>
<1>1. /\ step[c][h] = "running" /\ Go(c, h, "done") /\ applied' = applied \cup {row}
      /\ UNCHANGED <<table, group, next, attempt, people, discarded, bounds>>
  BY DEF RunOk
<1>2. row \in Rows /\ TypeOK /\ "done" \in Steps
  BY <1>1, AtMessage DEF IInv, Steps
<1>3. /\ step' \in [Consumers -> [Handlers -> Steps]] /\ step'[c][h] = "done"
      /\ \A d \in Consumers, g \in Handlers : <<d, g>> # <<c, h>> => step'[d][g] = step[d][g]
  BY <1>1, <1>2, GoType
<1>4. UNCHANGED <<status, id, lastId, owner, committed, next, attempt, opc, asked, cur,
                  discarded, crashes, rebalances, errors, requests, stops>>
  BY <1>1 DEF table, group, people, bounds
<1> HIDE DEF row
<1>5. \A r \in Rows : Earlier(r, row) => Settled(r)
  BY <1>1 DEF IInv, RunsInOrder, row
<1>6. /\ RowsOK' /\ InOrder' /\ \A r \in Rows : r = row => Settled(r)'
      /\ \A r \in Rows : Handled(r) => Handled(r)'
  BY <1>1, <1>2, <1>5, ApplyFacts
<1>7. TypeOK'
  BY <1>1, <1>2, <1>3, <1>4 DEF TypeOK
<1>8. \A d \in Consumers, g \in Handlers :
        \/ step'[d][g] = step[d][g]
        \/ /\ step[d][g] # "none" /\ step'[d][g] = "done"
           /\ <<g, next[d]>> \in Due(next[d]) => Handled(<<g, next[d]>>)'
  BY <1>1, <1>2, <1>3, <1>4, <1>6 DEF Handled, row
<1>9. UNCHANGED <<group, next>> /\ applied \subseteq applied'
  BY <1>1
<1> QED
  BY <1>4, <1>6, <1>7, <1>8, <1>9, WriteKeeps

LEMMA RedriveOkKeeps ==
  ASSUME IInv, NEW o \in Operators, RedriveOk(o)
  PROVE  IInv'
<1>1. /\ opc[o] = "running" /\ applied' = applied \cup {cur[o]}
      /\ opc' = [opc EXCEPT ![o] = "marking"]
      /\ UNCHANGED <<table, group, loops, asked, cur, discarded, bounds>>
  BY DEF RedriveOk
<1>2. /\ cur[o] \in Rows /\ status[cur[o]] # "none"
      /\ SequenceOfRow(cur[o]) = SequenceOfRow(asked[o])
      /\ asked[o] \in Rows /\ status[asked[o]] # "none"
  BY <1>1 DEF IInv, Working, InWork
<1>3. UNCHANGED <<status, id, lastId, owner, committed, next, step, attempt, asked, cur,
                  discarded, crashes, rebalances, errors, requests, stops>>
  BY <1>1 DEF table, group, loops, bounds
<1>4. \A r \in Rows : Earlier(r, cur[o]) => Settled(r)
  BY <1>1 DEF IInv, RunsInOrder
<1>5. /\ RowsOK' /\ InOrder'
      /\ \A r \in Rows : Handled(r) => Handled(r)'
  BY <1>1, <1>2, <1>4, ApplyFacts
<1>6. /\ opc' \in [Operators -> Jobs] /\ opc'[o] = "marking"
      /\ \A p \in Operators \ {o} : opc'[p] = opc[p]
  BY <1>1 DEF IInv, TypeOK, Jobs
<1>7. TypeOK'
  BY <1>1, <1>2, <1>3, <1>6 DEF IInv, TypeOK
<1>8. AtWork(o)'
  BY <1>1, <1>2, <1>3, <1>6 DEF AtWork, SequenceOfRow
<1>9. UNCHANGED <<group, next>> /\ applied \subseteq applied'
  BY <1>1, <1>3
<1> QED
  BY <1>3, <1>5, <1>6, <1>7, <1>8, <1>9, WriteKeeps

\* A row is given a status for a reason: ids and order stay.
LEMMA ResolveFacts ==
  ASSUME IInv, NEW row \in Rows, NEW s \in {"failed", "redriven", "discarded"},
         status[row] # "none", SetStatus(row, s), UNCHANGED <<id, lastId, applied>>,
         discarded \subseteq discarded',
         s = "redriven" => row \in applied, s = "discarded" => row \in discarded'
  PROVE  /\ RowsOK' /\ InOrder'
         /\ \A r \in Rows : Settled(r) => Settled(r)'
         /\ \A r \in Rows : Handled(r) => Handled(r)'
         /\ \A r \in Rows : status[r] # "none" => status'[r] # "none"
<1>1. /\ status'[row] = s /\ \A r \in Rows \ {row} : status'[r] = status[r]
  BY StatusType DEF IInv, Statuses, Unresolved
<1>2. \A r : Settled(r) => Settled(r)'
  BY DEF Settled
<1>3. RowsOK'
  BY <1>1 DEF IInv, RowsOK
<1>4. \A r \in Rows : status'[r] # "none" <=> status[r] # "none"
  BY <1>1
<1>5. InOrder'
  BY <1>2, <1>4 DEF IInv, InOrder, Earlier
<1>6. \A r \in Rows : Handled(r) => Handled(r)'
  BY <1>1, <1>2 DEF Handled, Settled, Unresolved
<1> QED
  BY <1>2, <1>3, <1>4, <1>5, <1>6

LEMMA DiscardKeeps ==
  ASSUME IInv, NEW o \in Operators, Discard(o)
  PROVE  IInv'
<1> DEFINE row == asked[o]
<1>1. /\ opc[o] = "discard" /\ row \in Rows /\ status[row] # "none"
      /\ UNCHANGED <<id, lastId, group, loops, applied, bounds>>
  BY DEF Discard, IInv, Working
<1>2. UNCHANGED <<owner, committed, next, step, attempt, crashes, rebalances, errors,
                  requests, stops>>
  BY <1>1 DEF group, loops, bounds
<1>3. CASE Release(o) /\ UNCHANGED <<status, discarded>>
  <2>1. UNCHANGED <<table, group, loops, history>> /\ requests' \in Nat /\ stops' \in Nat
    BY <1>1, <1>2, <1>3 DEF table, history, IInv, TypeOK
  <2> QED
    BY <1>2, <1>3, <2>1, ReleaseKeeps
<1>4. CASE /\ status[row] \in Unresolved /\ SetStatus(row, "discarded")
           /\ discarded' = discarded \cup {row}
           /\ \/ opc' = [opc EXCEPT ![o] = "next"] /\ UNCHANGED <<asked, cur>>
              \/ Release(o)
  <2>1. /\ RowsOK' /\ InOrder'
        /\ \A r \in Rows : Handled(r) => Handled(r)'
        /\ \A r \in Rows : status[r] # "none" => status'[r] # "none"
    BY <1>1, <1>4, ResolveFacts
  <2>2. status' \in [Rows -> Statuses]
    BY <1>1, <1>4, StatusType DEF IInv, Statuses
  <2>3. /\ opc' \in [Operators -> Jobs] /\ opc'[o] \in {"next", "idle"}
        /\ asked' \in [Operators -> Rows \cup {NoRow}]
        /\ cur' \in [Operators -> Rows \cup {NoRow}]
        /\ opc'[o] = "next" => asked'[o] = row
        /\ \A p \in Operators \ {o} : opc'[p] = opc[p] /\ asked'[p] = asked[p] /\ cur'[p] = cur[p]
    <3>1. TypeOK
      BY DEF IInv
    <3>2. CASE Release(o)
      BY <3>1, <3>2, ReleaseType
    <3>3. CASE opc' = [opc EXCEPT ![o] = "next"] /\ UNCHANGED <<asked, cur>>
      BY <3>1, <3>3 DEF TypeOK, Jobs
    <3> QED
      BY <1>4, <3>2, <3>3
  <2>4. TypeOK'
    BY <1>1, <1>2, <1>4, <2>2, <2>3 DEF IInv, TypeOK
  <2>5. AtWork(o)'
    BY <1>1, <2>1, <2>3 DEF AtWork, InWork
  <2>6. UNCHANGED <<group, next>> /\ discarded \subseteq discarded'
    BY <1>1, <1>2, <1>4
  <2> QED
    BY <1>1, <1>2, <2>1, <2>3, <2>4, <2>5, <2>6, WriteKeeps
<1> QED
  BY <1>3, <1>4 DEF Discard

LEMMA RecordResultKeeps ==
  ASSUME IInv, NEW o \in Operators, RecordResult(o)
  PROVE  IInv'
<1> DEFINE s == IF opc[o] = "marking" THEN "redriven" ELSE "failed"
<1>1. /\ opc[o] \in {"marking", "refusing"} /\ SetStatus(cur[o], s)
      /\ opc' = [opc EXCEPT ![o] = "reading"]
      /\ UNCHANGED <<id, lastId, group, loops, asked, cur, history, bounds>>
  BY DEF RecordResult
<1>2. /\ cur[o] \in Rows /\ status[cur[o]] # "none"
      /\ SequenceOfRow(cur[o]) = SequenceOfRow(asked[o])
      /\ asked[o] \in Rows /\ status[asked[o]] # "none"
      /\ s = "redriven" => cur[o] \in applied
  BY <1>1 DEF IInv, Working, InWork
<1>3. UNCHANGED <<owner, committed, next, step, attempt, asked, cur, applied,
                  discarded, crashes, rebalances, errors, requests, stops>>
  BY <1>1 DEF group, loops, history, bounds
<1>4. s \in {"failed", "redriven", "discarded"} /\ s # "discarded" /\ s \in Statuses
  BY DEF Statuses, Unresolved
<1> HIDE DEF s
<1>5. /\ RowsOK' /\ InOrder'
      /\ \A r \in Rows : Handled(r) => Handled(r)'
      /\ \A r \in Rows : status[r] # "none" => status'[r] # "none"
  BY <1>1, <1>2, <1>3, <1>4, ResolveFacts
<1>6. status' \in [Rows -> Statuses]
  BY <1>1, <1>2, <1>4, StatusType DEF IInv
<1>7. /\ opc' \in [Operators -> Jobs] /\ opc'[o] = "reading"
      /\ \A p \in Operators \ {o} : opc'[p] = opc[p]
  BY <1>1 DEF IInv, TypeOK, Jobs
<1>8. TypeOK'
  BY <1>1, <1>3, <1>6, <1>7 DEF IInv, TypeOK
<1>9. AtWork(o)'
  BY <1>2, <1>3, <1>5, <1>7 DEF AtWork, SequenceOfRow
<1>10. UNCHANGED <<group, next>>
  BY <1>1, <1>3
<1> QED
  BY <1>3, <1>5, <1>7, <1>8, <1>9, <1>10, WriteKeeps

-----------------------------------------------------------------------------
(* The invariant and what it says *)

LEMMA InitIInv == Init => IInv
<1> SUFFICES ASSUME Init PROVE IInv
  OBVIOUS
<1>1. /\ "none" \in Statuses /\ "none" \in Steps /\ "idle" \in Jobs
      /\ 1 \in 1 .. NumMessages + 1 /\ 0 \in 0 .. NumMessages /\ 0 \in 0 .. MaxRetries
  BY DeadLetterAssumption DEF Statuses, Steps, Jobs
<1>2. TypeOK
  BY <1>1 DEF Init, TypeOK
<1>3. Working
  BY DEF Init, Working, InWork, Resting
<1>4. RowsOK
  BY DEF Init, RowsOK
<1>5. NothingSkipped
  BY DEF Init, NothingSkipped
<1>6. RunsInOrder
  BY DEF Init, RunsInOrder
<1>7. InOrder
  BY DEF Init, InOrder
<1> QED
  BY <1>2, <1>3, <1>4, <1>5, <1>6, <1>7 DEF IInv

LEMMA StutterIInv ==
  ASSUME IInv, UNCHANGED vars
  PROVE  IInv'
<1>1. UNCHANGED <<status, id, lastId, owner, committed, next, step, attempt, opc, asked, cur,
                  applied, discarded, crashes, rebalances, errors, requests, stops>>
  BY DEF vars, table, group, loops, people, history, bounds
<1>2. TypeOK'
  BY <1>1 DEF IInv, TypeOK
<1>3. Working'
  BY <1>1 DEF IInv, Working, InWork, Resting
<1>4. RowsOK' /\ InOrder' /\ RunsInOrder'
  BY <1>1 DEF IInv, RowsOK, InOrder, RunsInOrder, Settled
<1>5. NothingSkipped'
  BY <1>1 DEF IInv, NothingSkipped, Handled, Settled
<1> QED
  BY <1>2, <1>3, <1>4, <1>5 DEF IInv

LEMMA NextKeeps ==
  ASSUME IInv, [Next]_vars
  PROVE  IInv'
<1>1. ASSUME NEW c \in Consumers, LoopStep(c) PROVE IInv'
  BY <1>1, DeliverKeeps, AdvanceKeeps, CommitKeeps, RetireKeeps, ThrowKeeps DEF LoopStep
<1>2. ASSUME NEW c \in Consumers, NEW h \in Handlers, HandlerStep(c, h) PROVE IInv'
  BY <1>2, CheckKeeps, HoldKeeps, ThrowsKeeps, RunOkKeeps, RunFailsKeeps,
     RecordFailureKeeps DEF HandlerStep
<1>3. ASSUME NEW o \in Operators, RedriveStep(o) PROVE IInv'
  BY <1>3, StopsKeeps, LockKeeps, DiscardKeeps, TakeNextKeeps, RedriveOkKeeps,
     RedriveFailsKeeps, RecordResultKeeps, ReadResultKeeps DEF RedriveStep
<1>4. ASSUME NEW o \in Operators, NEW row \in Rows, NEW job \in {"redrive", "discard"},
             Request(o, row, job)
      PROVE  IInv'
  BY <1>4, RequestKeeps
<1>5. CASE Fault
  BY <1>5, CrashKeeps, RebalanceKeeps, ThrowsKeeps, StopsKeeps DEF Fault
<1>6. CASE UNCHANGED vars
  BY <1>6, StutterIInv
<1> QED
  BY <1>1, <1>2, <1>3, <1>4, <1>5, <1>6 DEF Next

\* The inductive invariant of the table, the loops and the redrives.
THEOREM Invariance == Spec => []IInv
  BY InitIInv, NextKeeps, PTL DEF Spec

\* Every variable has its type.
THEOREM TypeCorrect == Spec => []TypeOK
<1>1. IInv => TypeOK
  BY DEF IInv
<1> QED
  BY <1>1, Invariance, PTL

\* Whatever fails and whenever, a message whose offset is committed was applied by
\* each of its handlers, or is listed as unresolved, or was discarded by hand.
THEOREM CommittedNotLost == Spec => []NothingLost
<1>1. ASSUME IInv PROVE NothingLost
  <2>1. \A m \in 1 .. committed : \A row \in Due(m) : Handled(row)
    BY <1>1, BeforeOwner DEF IInv, TypeOK
  <2> QED
    BY <2>1 DEF NothingLost, Handled, Settled
<1> QED
  BY <1>1, Invariance, PTL

\* A handler applies a message of a sequence for the first time only when the
\* earlier messages of the sequence are applied or discarded.
THEOREM AppliedInOrder == Spec => []FirstInOrder
<1>1. ASSUME IInv PROVE FirstInOrder
  <2> SUFFICES ASSUME NEW row \in applied, NEW m \in 1 .. row[2] - 1,
                      SameSequence(m, row[2]), <<row[1], m>> \in Due(m)
               PROVE  <<row[1], m>> \in applied \cup discarded
    BY DEF FirstInOrder
  <2> DEFINE r == <<row[1], m>>
  <2>1. row \in Rows
    BY <1>1 DEF IInv, TypeOK
  <2>2. row[1] \in Handlers /\ row[2] \in 1 .. NumMessages
    BY <2>1, RowPair DEF Messages
  <2>3. m \in Messages /\ m < row[2]
    BY <2>2, DeadLetterAssumption DEF Messages
  <2>4. r \in Rows /\ r[1] = row[1] /\ r[2] = m
    BY <2>2, <2>3, RowFacts
  <2>5. Earlier(r, row)
    BY <2>3, <2>4 DEF Earlier
  <2> QED
    BY <1>1, <2>1, <2>4, <2>5 DEF IInv, InOrder, Settled
<1> QED
  BY <1>1, Invariance, PTL

-----------------------------------------------------------------------------
(* Redrives and live consumption while one loop consumes the partition *)

OneLoop == \A c, d \in Consumers : c = d

\* Nobody starts to run a handler, no row starts to wait but the one in work or one of
\* a handler that does not run, and redrives take only rows that wait.
LEMMA AloneStep ==
  ASSUME IInv, Alone, OneLoop,
         \A c \in Consumers, h \in Handlers :
           step'[c][h] = "running" /\ SequenceOf[next'[c]] # NoSequence
             => step[c][h] = "running" /\ next'[c] = next[c],
         \A row \in Rows : status'[row] \in Unresolved =>
           \/ status[row] \in Unresolved
           \/ \E o \in Operators : InWork(o) /\ cur[o] = row
           \/ \E c \in Consumers : row[2] = next[c] /\ step[c][row[1]] # "running",
         \A o \in Operators : InWork(o)' =>
           \/ InWork(o) /\ cur'[o] = cur[o]
           \/ status[cur'[o]] \in Unresolved
  PROVE  Alone'
<1> SUFFICES ASSUME NEW c \in Consumers, NEW h \in Handlers, NEW row \in Rows,
                    step'[c][h] = "running", SequenceOf[next'[c]] # NoSequence, row[1] = h,
                    SequenceOfRow(row) = SequenceOfRow(<<h, next'[c]>>)
             PROVE  /\ status'[row] \notin Unresolved
                    /\ \A o \in Operators : InWork(o)' => cur'[o] # row
  BY DEF Alone, SequenceOfRow
<1>1. step[c][h] = "running" /\ next'[c] = next[c]
  OBVIOUS
<1>2. /\ status[row] \notin Unresolved
      /\ \A o \in Operators : InWork(o) => cur[o] # row
  BY <1>1 DEF Alone
<1>3. \A d \in Consumers : step[d][row[1]] = "running"
  BY <1>1 DEF OneLoop
<1> QED
  BY <1>2, <1>3

\* Steps that leave the table and the operators alone.
LEMMA AloneLoops ==
  ASSUME IInv, Alone, OneLoop, UNCHANGED <<table, people>>,
         \A c \in Consumers, h \in Handlers :
           step'[c][h] = "running" /\ SequenceOf[next'[c]] # NoSequence
             => step[c][h] = "running" /\ next'[c] = next[c]
  PROVE  Alone'
<1>1. UNCHANGED <<status, opc, cur>>
  BY DEF table, people
<1> QED
  BY <1>1, AloneStep DEF InWork

LEMMA AloneDeliver ==
  ASSUME IInv, Alone, OneLoop, NEW c \in Consumers, Deliver(c)
  PROVE  Alone'
<1>1. /\ step' = [step EXCEPT ![c] = [h \in Handlers |-> FirstStep(h, next[c])]]
      /\ UNCHANGED <<table, people, next>>
  BY DEF Deliver
<1>2. /\ \A h \in Handlers : step'[c][h] = FirstStep(h, next[c])
      /\ \A d \in Consumers \ {c} : step'[d] = step[d]
  BY <1>1 DEF IInv, TypeOK
<1> QED
  BY <1>1, <1>2, AloneLoops DEF FirstStep

\* A loop that clears its message or is at rest runs nothing afterwards.
LEMMA AloneRest ==
  ASSUME IInv, Alone, OneLoop, NEW c \in Consumers,
         Clear(c) \/ (Resting(c) /\ UNCHANGED step),
         UNCHANGED <<table, people>>, \A d \in Consumers \ {c} : next'[d] = next[d]
  PROVE  Alone'
<1>1. /\ \A h \in Handlers : step'[c][h] = "none"
      /\ \A d \in Consumers \ {c} : step'[d] = step[d]
  BY ClearType DEF IInv, Resting
<1> QED
  BY <1>1, AloneLoops

LEMMA AloneLoopStep ==
  ASSUME IInv, Alone, OneLoop, NEW c \in Consumers,
         \/ Deliver(c) \/ Advance(c) \/ CommitOffsets(c) \/ Retire(c) \/ Crash(c)
         \/ \E d \in Consumers : Throw(c, d) \/ Rebalance(c, d)
  PROVE  Alone'
<1>0. next \in [Consumers -> 1 .. NumMessages + 1]
  BY DEF IInv, TypeOK
<1>1. CASE Deliver(c)
  BY <1>1, AloneDeliver
<1>2. CASE Advance(c) \/ Retire(c) \/ Crash(c)
  <2>1. Clear(c) /\ UNCHANGED <<table, people>>
    BY <1>2 DEF Advance, Retire, Crash
  <2>2. \A d \in Consumers \ {c} : next'[d] = next[d]
    BY <1>0, <1>2 DEF Advance, Retire, Crash
  <2> QED
    BY <2>1, <2>2, AloneRest
<1>3. CASE CommitOffsets(c)
  BY <1>3, AloneLoops DEF CommitOffsets, loops
<1>4. ASSUME NEW d \in Consumers, Throw(c, d) \/ Rebalance(c, d)
      PROVE  Alone'
  <2>1. /\ Clear(d) \/ (Resting(d) /\ UNCHANGED step)
        /\ UNCHANGED <<table, people>>
    BY <1>4 DEF Throw, Rebalance
  <2>2. PICK offset : StartFrom(d, offset)
    BY <1>4 DEF Throw, Rebalance
  <2>3. \A b \in Consumers \ {d} : next'[b] = next[b]
    BY <1>0, <2>2 DEF StartFrom
  <2> QED
    BY <2>1, <2>3, AloneRest
<1> QED
  BY <1>1, <1>2, <1>3, <1>4

\* The check passes when no row of the sequence waits and nobody redrives it.
LEMMA AloneCheck ==
  ASSUME IInv, Alone, OneLoop, NEW c \in Consumers, NEW h \in Handlers, Check(c, h)
  PROVE  Alone'
<1> DEFINE s == IF Blocked(<<h, next[c]>>) THEN "holding" ELSE "running"
<1>1. /\ LockFree(SequenceOfRow(<<h, next[c]>>)) /\ Go(c, h, s)
      /\ UNCHANGED <<table, people, next>> /\ s \in Steps
  BY DEF Check, Steps
<1>2. /\ step'[c][h] = s
      /\ \A d \in Consumers, g \in Handlers : <<d, g>> # <<c, h>> => step'[d][g] = step[d][g]
  BY <1>1, GoType DEF IInv
<1>3. CASE Blocked(<<h, next[c]>>)
  BY <1>1, <1>2, <1>3, AloneLoops
<1>4. CASE ~ Blocked(<<h, next[c]>>)
  <2>1. UNCHANGED <<status, opc, cur, next>>
    BY <1>1 DEF table, people
  <2> SUFFICES ASSUME NEW d \in Consumers, NEW g \in Handlers, NEW row \in Rows,
                      step'[d][g] = "running", SequenceOf[next[d]] # NoSequence, row[1] = g,
                      SequenceOfRow(row) = SequenceOfRow(<<g, next[d]>>)
               PROVE  /\ status[row] \notin Unresolved
                      /\ \A o \in Operators : InWork(o) => cur[o] # row
    BY <2>1 DEF Alone, SequenceOfRow, InWork
  <2>2. CASE <<d, g>> # <<c, h>>
    BY <2>2, <1>2 DEF Alone
  <2>3. CASE d = c /\ g = h
    <3>1. status[row] \notin Unresolved
      BY <1>4, <2>3 DEF Blocked, UnresolvedIn, Blocks
    <3>2. \A o \in Operators : InWork(o) => cur[o] # row
      BY <1>1, <2>3 DEF IInv, Working, LockFree, Redriving, InLoop, InWork
    <3> QED
      BY <3>1, <3>2
  <2> QED
    BY <2>2, <2>3
<1> QED
  BY <1>3, <1>4

LEMMA AloneHandlerStep ==
  ASSUME IInv, Alone, OneLoop, NEW c \in Consumers, NEW h \in Handlers,
         HandlerStep(c, h) \/ DatabaseError(c, h)
  PROVE  Alone'
<1>1. CASE Check(c, h)
  BY <1>1, AloneCheck
<1>2. ASSUME NEW s \in Steps \ {"running"}, Go(c, h, s), UNCHANGED <<table, people, next>>
      PROVE  Alone'
  <2>1. /\ step'[c][h] = s
        /\ \A d \in Consumers, g \in Handlers : <<d, g>> # <<c, h>> => step'[d][g] = step[d][g]
    BY <1>2, GoType DEF IInv
  <2> QED
    BY <1>2, <2>1, AloneLoops
<1>3. CASE CheckTimesOut(c, h) \/ DatabaseError(c, h) \/ RunOk(c, h)
  <2>1. \E s \in Steps \ {"running"} : Go(c, h, s) /\ UNCHANGED <<table, people, next>>
    BY <1>3 DEF CheckTimesOut, DatabaseError, RunOk, Steps, AfterRecordError
  <2> QED
    BY <2>1, <1>2
<1>4. CASE RunFails(c, h)
  <2>1. UNCHANGED <<table, people, next>>
    BY <1>4 DEF RunFails
  <2>2. CASE UNCHANGED step
    BY <2>1, <2>2, AloneLoops
  <2>3. CASE \E s \in Steps \ {"running"} : Go(c, h, s)
    BY <2>1, <2>3, <1>2
  <2> QED
    BY <1>4, <2>2, <2>3 DEF RunFails, Steps
<1>5. CASE Hold(c, h) \/ RecordFailure(c, h)
  <2> DEFINE row == <<h, next[c]>>
  <2>1. /\ step[c][h] \in {"holding", "failing"} /\ Go(c, h, "done")
        /\ UNCHANGED <<people, next>> /\ "done" \in Steps
    BY <1>5 DEF Hold, RecordFailure, OnHoldConflict, Steps
  <2>2. /\ step'[c][h] = "done"
        /\ \A d \in Consumers, g \in Handlers : <<d, g>> # <<c, h>> => step'[d][g] = step[d][g]
    BY <2>1, GoType DEF IInv
  <2>3. row \in Rows /\ row[1] = h /\ row[2] = next[c]
    BY <2>1, AtMessage
  <2>4. \A r \in Rows : r # row => status'[r] = status[r]
    BY <1>5, <2>3 DEF Hold, RecordFailure, SetStatus, IInv, TypeOK
  <2>5. UNCHANGED <<opc, cur, next>>
    BY <2>1 DEF people
  <2>6. step[c][h] # "running"
    BY <2>1
  <2>7. \A r \in Rows : status'[r] \in Unresolved =>
           \/ status[r] \in Unresolved
           \/ \E d \in Consumers : r[2] = next[d] /\ step[d][r[1]] # "running"
    BY <2>3, <2>4, <2>6
  <2>8. \A d \in Consumers, g \in Handlers :
           step'[d][g] = "running" => step[d][g] = "running"
    BY <2>2
  <2> QED
    BY <2>5, <2>7, <2>8, AloneStep DEF InWork
<1> QED
  BY <1>1, <1>3, <1>4, <1>5 DEF HandlerStep

LEMMA AloneOperator ==
  ASSUME IInv, Alone, OneLoop, NEW o \in Operators,
         \/ RedriveStep(o) \/ RedriveStops(o)
         \/ \E row \in Rows, job \in {"redrive", "discard"} : Request(o, row, job)
  PROVE  Alone'
<1> USE DEF IInv, TypeOK
<1>1. UNCHANGED <<step, next>>
  BY DEF RedriveStep, Busy, Lock, Discard, TakeNext, RedriveOk, RedriveFails, RecordResult,
         ReadResult, RedriveStops, Request, loops
<1>2. \A row \in Rows : status'[row] \in Unresolved =>
           \/ status[row] \in Unresolved
           \/ InWork(o) /\ cur[o] = row
  <2>1. CASE Discard(o)
    <3>1. opc[o] # "idle"
      BY <2>1 DEF Discard
    <3>2. asked[o] \in Rows
      BY <3>1 DEF Working
    <3> QED
      BY <2>1, <3>2 DEF Discard, SetStatus, Unresolved
  <2>2. CASE RecordResult(o)
    <3>1. opc[o] \in {"marking", "refusing"}
      BY <2>2 DEF RecordResult
    <3>2. InWork(o) /\ cur[o] \in Rows
      BY <3>1 DEF Working, InWork
    <3> QED
      BY <2>2, <3>2 DEF RecordResult, SetStatus
  <2>3. CASE \/ Busy(o) \/ Lock(o) \/ TakeNext(o) \/ RedriveOk(o) \/ RedriveFails(o)
             \/ ReadResult(o) \/ RedriveStops(o)
             \/ \E row \in Rows, job \in {"redrive", "discard"} : Request(o, row, job)
    <3>1. UNCHANGED status
      BY <2>3 DEF Busy, Lock, TakeNext, RedriveOk, RedriveFails, ReadResult, RedriveStops,
                  Request, table
    <3> QED
      BY <3>1
  <2> QED
    BY <2>1, <2>2, <2>3 DEF RedriveStep
<1>3. \A p \in Operators \ {o} : opc'[p] = opc[p] /\ cur'[p] = cur[p]
  BY DEF RedriveStep, Busy, Lock, Discard, TakeNext, RedriveOk, RedriveFails, RecordResult,
         ReadResult, RedriveStops, Request, Release
<1>4. InWork(o)' => (InWork(o) /\ cur'[o] = cur[o]) \/ status[cur'[o]] \in Unresolved
  <2>1. CASE Release(o)
    BY <2>1 DEF Release, InWork
  <2>2. CASE Lock(o) \/ Discard(o) \/ ReadResult(o)
             \/ \E row \in Rows, job \in {"redrive", "discard"} : Request(o, row, job)
    BY <2>1, <2>2 DEF Lock, Discard, ReadResult, Request, InWork
  <2>3. CASE TakeNext(o)
    BY <2>1, <2>3 DEF TakeNext, IsHead, UnresolvedIn, Blocks
  <2>4. CASE RedriveOk(o) \/ RedriveFails(o) \/ RecordResult(o)
    BY <2>4 DEF RedriveOk, RedriveFails, RecordResult, InWork
  <2> QED
    BY <2>1, <2>2, <2>3, <2>4 DEF RedriveStep, Busy, RedriveStops
<1>5. \A p \in Operators : InWork(p)' =>
           (InWork(p) /\ cur'[p] = cur[p]) \/ status[cur'[p]] \in Unresolved
  BY <1>3, <1>4 DEF InWork
<1> QED
  BY <1>1, <1>2, <1>5, AloneStep

LEMMA NextAlone ==
  ASSUME IInv, Alone, OneLoop, [Next]_vars
  PROVE  Alone'
<1>1. CASE UNCHANGED vars
  BY <1>1, AloneLoops DEF vars, loops
<1>2. CASE Fault
  BY <1>2, AloneLoopStep, AloneHandlerStep, AloneOperator DEF Fault
<1>3. ASSUME NEW c \in Consumers, LoopStep(c) PROVE Alone'
  BY <1>3, AloneLoopStep DEF LoopStep
<1> QED
  BY <1>1, <1>2, <1>3, AloneHandlerStep, AloneOperator DEF Next

\* While one loop consumes the partition, a redrive and live consumption never run
\* the same handler on one sequence at the same time.
THEOREM RedriveApart ==
  ASSUME OneLoop
  PROVE  Spec => []RedriveExclusive
<1>1. Init => Alone
  BY DEF Init, Alone
<1>2. IInv /\ Alone /\ [Next]_vars => Alone'
  BY NextAlone
<1>3. ASSUME IInv, Alone PROVE RedriveExclusive
  <2> SUFFICES ASSUME NEW o \in Operators, NEW c \in Consumers, NEW h \in Handlers,
                      opc[o] = "running", cur[o][1] = h, step[c][h] = "running",
                      SameSequence(cur[o][2], next[c])
               PROVE  FALSE
    BY DEF RedriveExclusive
  <2>1. InWork(o) /\ cur[o] \in Rows
    BY <1>3 DEF InWork, IInv, Working
  <2>2. SequenceOfRow(cur[o]) = SequenceOfRow(<<h, next[c]>>) /\ SequenceOf[next[c]] # NoSequence
    BY DEF SameSequence, SequenceOfRow
  <2> QED
    BY <1>3, <2>1, <2>2 DEF Alone
<1> QED
  BY <1>1, <1>2, <1>3, Invariance, PTL DEF Spec

-----------------------------------------------------------------------------
(* Held rows while no redrive was cut short *)

Behind == Locked /\ HeadKnown /\ HeldBehindFailed

\* Steps of the loops: they resolve no row, and a row they hold is blocked and last.
LEMMA BehindLoops ==
  ASSUME IInv, Behind, UNCHANGED people,
         \A c \in Consumers, h \in Handlers : step'[c][h] = "holding" =>
           /\ next'[c] = next[c]
           /\ \/ step[c][h] = "holding"
              \/ /\ Blocked(<<h, next[c]>>)
                 /\ ~ Redriving(SequenceOfRow(<<h, next[c]>>)),
         \A r \in Rows : status[r] \in Unresolved => status'[r] \in Unresolved,
         \A r \in Rows : status[r] = "failed" => status'[r] = "failed",
         \A r \in Rows : status[r] \in {"redriven", "failed"} => status'[r] \in {"redriven", "failed"},
         \A r \in Rows : status[r] # "none" => id'[r] = id[r],
         \A r \in Rows : status'[r] = "held" =>
           status[r] = "held" \/ (id'[r] = lastId + 1 /\ Blocked(r))
  PROVE  Behind'
<1>1. UNCHANGED <<opc, asked, cur>>
  BY DEF people
<1>2. \A s : Redriving(s)' <=> Redriving(s)
  BY <1>1 DEF Redriving, InLoop, SequenceOfRow
<1>3. Locked'
  <2>1. ASSUME NEW o \in Operators, NEW p \in Operators, InLoop(o), InLoop(p),
               SequenceOfRow(asked[o]) = SequenceOfRow(asked[p])
        PROVE  o = p
    BY <2>1 DEF Behind, Locked
  <2>2. ASSUME NEW o \in Operators, NEW c \in Consumers, NEW h \in Handlers,
               InLoop(o), step'[c][h] = "holding"
        PROVE  SequenceOfRow(asked[o]) # SequenceOfRow(<<h, next'[c]>>)
    BY <2>2 DEF Behind, Locked, Redriving
  <2> QED
    BY <1>1, <2>1, <2>2 DEF Locked, InLoop, SequenceOfRow
<1>4. ASSUME NEW r \in Rows, status[r] # "none" PROVE id[r] \in 1 .. lastId
  BY <1>4 DEF IInv, RowsOK
<1>5. HeadKnown'
  <2>1. ASSUME NEW c \in Consumers, NEW h \in Handlers, step'[c][h] = "holding"
        PROVE  Blocked(<<h, next[c]>>)'
    <3>1. Blocked(<<h, next[c]>>) /\ next'[c] = next[c]
      BY <2>1 DEF Behind, HeadKnown
    <3>2. PICK u \in Rows :
            status[u] \in Unresolved /\ SequenceOfRow(u) = SequenceOfRow(<<h, next[c]>>)
      BY <3>1 DEF Blocked, UnresolvedIn, Blocks
    <3> QED
      BY <3>1, <3>2 DEF Blocked, UnresolvedIn, Blocks, SequenceOfRow
  <2>2. ASSUME NEW o \in Operators, InWork(o), NEW r \in Rows, status'[r] = "held",
               SequenceOfRow(r) = SequenceOfRow(cur[o])
        PROVE  r = cur[o] \/ id'[cur[o]] < id'[r]
    <3>1. cur[o] \in Rows /\ status[cur[o]] # "none" /\ lastId \in Nat
      BY <2>2 DEF IInv, TypeOK, Working
    <3>2. id'[cur[o]] = id[cur[o]] /\ id[cur[o]] \in 1 .. lastId
      BY <3>1, <1>4
    <3>3. CASE status[r] = "held"
      BY <2>2, <3>2, <3>3 DEF Behind, HeadKnown
    <3>4. CASE id'[r] = lastId + 1
      BY <3>1, <3>2, <3>4
    <3> QED
      BY <2>2, <3>3, <3>4
  <2>3. ASSUME NEW o \in Operators, opc[o] = "reading"
        PROVE  status'[cur[o]] \in {"redriven", "failed"}
    BY <2>3 DEF Behind, HeadKnown, IInv, Working, InWork
  <2>4. \A o \in Operators :
          /\ InWork(o)' <=> InWork(o)
          /\ opc'[o] = opc[o] /\ cur'[o] = cur[o]
    BY <1>1 DEF InWork
  <2>5. \A o \in Operators : InWork(o)' =>
          /\ \A r \in Rows : status'[r] = "held" /\ SequenceOfRow(r)' = SequenceOfRow(cur[o])'
                               => r = cur'[o] \/ id'[cur'[o]] < id'[r]
          /\ opc'[o] = "reading" => status'[cur'[o]] \in {"redriven", "failed"}
    BY <2>2, <2>3, <2>4 DEF SequenceOfRow
  <2> QED
    BY <2>1, <2>5 DEF HeadKnown
<1>6. HeldBehindFailed'
  <2> SUFFICES ASSUME NEW row \in Rows, status'[row] = "held", ~ Redriving(SequenceOfRow(row))
               PROVE  \E r \in Rows : /\ SequenceOfRow(r) = SequenceOfRow(row)
                                      /\ status'[r] = "failed" /\ id'[r] < id'[row]
    BY <1>2 DEF HeldBehindFailed, SequenceOfRow
  <2>1. ASSUME NEW q \in Rows, status[q] = "held", SequenceOfRow(q) = SequenceOfRow(row)
        PROVE  /\ id[q] \in 1 .. lastId
               /\ \E r \in Rows : /\ SequenceOfRow(r) = SequenceOfRow(row)
                                  /\ status'[r] = "failed" /\ id'[r] \in Nat /\ id'[r] < id[q]
    <3>1. PICK r \in Rows : /\ SequenceOfRow(r) = SequenceOfRow(q)
                            /\ status[r] = "failed" /\ id[r] < id[q]
      BY <2>1 DEF Behind, HeldBehindFailed
    <3>2. id'[r] = id[r] /\ id[r] \in Nat
      BY <3>1, <1>4
    <3> QED
      BY <2>1, <3>1, <3>2, <1>4
  <2>2. CASE status[row] = "held"
    BY <2>1, <2>2
  <2>3. CASE id'[row] = lastId + 1 /\ Blocked(row)
    <3>1. PICK u \in Rows : status[u] \in Unresolved /\ SequenceOfRow(u) = SequenceOfRow(row)
      BY <2>3 DEF Blocked, UnresolvedIn, Blocks
    <3>2. id'[u] = id[u] /\ id[u] \in 1 .. lastId /\ lastId \in Nat /\ id[u] < lastId + 1
      BY <3>1, <1>4 DEF Unresolved, IInv, TypeOK
    <3>3. CASE status[u] = "failed"
      BY <2>3, <3>1, <3>2, <3>3
    <3>4. CASE status[u] = "held"
      <4>1. PICK r \in Rows : /\ SequenceOfRow(r) = SequenceOfRow(row)
                              /\ status'[r] = "failed" /\ id'[r] \in Nat /\ id'[r] < id[u]
        BY <3>1, <3>4, <2>1
      <4> QED
        BY <2>3, <3>2, <4>1
    <3> QED
      BY <3>1, <3>3, <3>4 DEF Unresolved
  <2> QED
    BY <2>2, <2>3
<1> QED
  BY <1>3, <1>5, <1>6 DEF Behind

\* Steps of the loops that leave the table alone too.
LEMMA BehindQuiet ==
  ASSUME IInv, Behind, UNCHANGED <<table, people>>,
         \A c \in Consumers, h \in Handlers : step'[c][h] = "holding" =>
           /\ next'[c] = next[c]
           /\ \/ step[c][h] = "holding"
              \/ /\ Blocked(<<h, next[c]>>)
                 /\ ~ Redriving(SequenceOfRow(<<h, next[c]>>))
  PROVE  Behind'
<1>1. UNCHANGED <<status, id>> /\ UNCHANGED people
  BY DEF table
<1> QED
  BY <1>1, BehindLoops

LEMMA BehindRest ==
  ASSUME IInv, Behind, NEW c \in Consumers,
         Clear(c) \/ (Resting(c) /\ UNCHANGED step),
         UNCHANGED <<table, people>>, \A d \in Consumers \ {c} : next'[d] = next[d]
  PROVE  Behind'
<1>1. /\ \A h \in Handlers : step'[c][h] = "none"
      /\ \A d \in Consumers \ {c} : step'[d] = step[d]
  BY ClearType DEF IInv, Resting
<1> QED
  BY <1>1, BehindQuiet

LEMMA BehindLoopStep ==
  ASSUME IInv, Behind, NEW c \in Consumers,
         \/ Deliver(c) \/ Advance(c) \/ CommitOffsets(c) \/ Retire(c) \/ Crash(c)
         \/ \E d \in Consumers : Throw(c, d) \/ Rebalance(c, d)
  PROVE  Behind'
<1>0. next \in [Consumers -> 1 .. NumMessages + 1]
  BY DEF IInv, TypeOK
<1>1. CASE Deliver(c)
  <2>1. /\ step' = [step EXCEPT ![c] = [h \in Handlers |-> FirstStep(h, next[c])]]
        /\ UNCHANGED <<table, people, next>>
    BY <1>1 DEF Deliver
  <2>2. /\ \A h \in Handlers : step'[c][h] = FirstStep(h, next[c])
        /\ \A d \in Consumers \ {c} : step'[d] = step[d]
    BY <2>1 DEF IInv, TypeOK
  <2> QED
    BY <2>1, <2>2, BehindQuiet DEF FirstStep
<1>2. CASE Advance(c) \/ Retire(c) \/ Crash(c)
  <2>1. Clear(c) /\ UNCHANGED <<table, people>>
    BY <1>2 DEF Advance, Retire, Crash
  <2>2. \A d \in Consumers \ {c} : next'[d] = next[d]
    BY <1>0, <1>2 DEF Advance, Retire, Crash
  <2> QED
    BY <2>1, <2>2, BehindRest
<1>3. CASE CommitOffsets(c)
  BY <1>3, BehindQuiet DEF CommitOffsets, loops
<1>4. ASSUME NEW d \in Consumers, Throw(c, d) \/ Rebalance(c, d)
      PROVE  Behind'
  <2>1. /\ Clear(d) \/ (Resting(d) /\ UNCHANGED step)
        /\ UNCHANGED <<table, people>>
    BY <1>4 DEF Throw, Rebalance
  <2>2. PICK offset : StartFrom(d, offset)
    BY <1>4 DEF Throw, Rebalance
  <2>3. \A b \in Consumers \ {d} : next'[b] = next[b]
    BY <1>0, <2>2 DEF StartFrom
  <2> QED
    BY <2>1, <2>3, BehindRest
<1> QED
  BY <1>1, <1>2, <1>3, <1>4

LEMMA BehindHandlerStep ==
  ASSUME IInv, Behind, NEW c \in Consumers, NEW h \in Handlers,
         HandlerStep(c, h) \/ DatabaseError(c, h)
  PROVE  Behind'
<1> DEFINE row == <<h, next[c]>>
<1>1. ASSUME NEW s \in Steps, Go(c, h, s), UNCHANGED <<table, people, next>>,
             s = "holding" => Blocked(row) /\ ~ Redriving(SequenceOfRow(row))
      PROVE  Behind'
  <2>1. /\ step'[c][h] = s
        /\ \A d \in Consumers, g \in Handlers : <<d, g>> # <<c, h>> => step'[d][g] = step[d][g]
    BY <1>1, GoType DEF IInv
  <2> QED
    BY <1>1, <2>1, BehindQuiet
<1>2. CASE Check(c, h)
  <2> DEFINE s == IF Blocked(row) THEN "holding" ELSE "running"
  <2>1. /\ Go(c, h, s) /\ UNCHANGED <<table, people, next>> /\ s \in Steps
        /\ s = "holding" => Blocked(row) /\ ~ Redriving(SequenceOfRow(row))
    BY <1>2 DEF Check, LockFree, Steps
  <2> HIDE DEF s
  <2> QED
    BY <2>1, <1>1
<1>3. CASE CheckTimesOut(c, h) \/ DatabaseError(c, h) \/ RunOk(c, h)
  <2>1. \E s \in Steps \ {"holding"} : Go(c, h, s) /\ UNCHANGED <<table, people, next>>
    BY <1>3 DEF CheckTimesOut, DatabaseError, RunOk, Steps, AfterRecordError
  <2> QED
    BY <2>1, <1>1
<1>4. CASE RunFails(c, h)
  <2>1. UNCHANGED <<table, people, next>>
    BY <1>4 DEF RunFails
  <2>2. CASE UNCHANGED step
    BY <2>1, <2>2, BehindQuiet
  <2>3. CASE \E s \in Steps \ {"holding"} : Go(c, h, s)
    BY <2>1, <2>3, <1>1
  <2> QED
    BY <1>4, <2>2, <2>3 DEF RunFails, Steps
<1>5. CASE Hold(c, h) \/ RecordFailure(c, h)
  <2>1. /\ step[c][h] \in {"holding", "failing"} /\ Go(c, h, "done")
        /\ InsertId(row) /\ UNCHANGED <<people, next>> /\ "done" \in Steps /\ TypeOK
    BY <1>5 DEF Hold, RecordFailure, OnHoldConflict, Steps, IInv
  <2>2. /\ step'[c][h] = "done"
        /\ \A d \in Consumers, g \in Handlers : <<d, g>> # <<c, h>> => step'[d][g] = step[d][g]
    BY <2>1, GoType
  <2>3. row \in Rows
    BY <2>1, AtMessage
  <2>4. /\ status[row] = "none" => id'[row] = lastId + 1
        /\ status[row] # "none" => id'[row] = id[row]
        /\ \A r \in Rows \ {row} : id'[r] = id[r]
    BY <2>1, <2>3, InsertType
  <2>5. /\ \/ status'[row] = "failed" \/ status'[row] = status[row]
           \/ status[row] = "none" /\ status'[row] = "held" /\ Blocked(row)
        /\ \A r \in Rows \ {row} : status'[r] = status[r]
    <3>1. CASE Hold(c, h)
      <4>1. step[c][h] = "holding"
        BY <3>1 DEF Hold
      <4>2. Blocked(row)
        BY <4>1 DEF Behind, HeadKnown
      <4> QED
        BY <2>1, <2>3, <3>1, <4>2, StatusType DEF Hold, Statuses, Unresolved
    <3>2. CASE RecordFailure(c, h)
      BY <2>1, <2>3, <3>2, StatusType DEF RecordFailure, Statuses, Unresolved
    <3> QED
      BY <1>5, <3>1, <3>2
  <2> HIDE DEF row
  <2>6. /\ \A r \in Rows : status[r] \in Unresolved => status'[r] \in Unresolved
        /\ \A r \in Rows : status[r] = "failed" => status'[r] = "failed"
        /\ \A r \in Rows :
             status[r] \in {"redriven", "failed"} => status'[r] \in {"redriven", "failed"}
    BY <2>3, <2>5 DEF Unresolved
  <2>7. /\ \A r \in Rows : status[r] # "none" => id'[r] = id[r]
        /\ \A r \in Rows : status'[r] = "held" =>
             status[r] = "held" \/ (id'[r] = lastId + 1 /\ Blocked(r))
    BY <2>3, <2>4, <2>5
  <2>8. \A d \in Consumers, g \in Handlers :
          step'[d][g] = "holding" => next'[d] = next[d] /\ step[d][g] = "holding"
    BY <2>1, <2>2
  <2>9. UNCHANGED people
    BY <2>1
  <2> QED
    BY <2>6, <2>7, <2>8, <2>9, BehindLoops
<1> QED
  BY <1>2, <1>3, <1>4, <1>5 DEF HandlerStep

\* Steps of an operator: it changes rows only under the lock of their sequence.
LEMMA BehindOperator ==
  ASSUME IInv, Behind, NEW o \in Operators, UNCHANGED <<loops, id>>,
         \A p \in Operators \ {o} : opc'[p] = opc[p] /\ asked'[p] = asked[p] /\ cur'[p] = cur[p],
         \A r \in Rows : \/ status'[r] = status[r] \/ LockFree(SequenceOfRow(r))
                         \/ InLoop(o) /\ SequenceOfRow(asked[o]) = SequenceOfRow(r),
         \A r \in Rows : status'[r] = "held" => status[r] = "held",
         InLoop(o)' => /\ asked'[o] = asked[o]
                       /\ InLoop(o) \/ LockFree(SequenceOfRow(asked[o])),
         InWork(o)' =>
           /\ \A r \in Rows : status[r] = "held" /\ SequenceOfRow(r) = SequenceOfRow(cur'[o])
                                => r = cur'[o] \/ id[cur'[o]] < id[r]
           /\ opc'[o] = "reading" => status'[cur'[o]] \in {"redriven", "failed"},
         HeldBehindFailed'
  PROVE  Behind'
<1>1. UNCHANGED <<step, next>>
  BY DEF loops
<1>2. \A p \in Operators \ {o} : (InLoop(p)' <=> InLoop(p)) /\ (InWork(p)' <=> InWork(p))
  BY DEF InLoop, InWork
<1>3. Locked'
  <2>1. ASSUME NEW p \in Operators, NEW q \in Operators, InLoop(p)', InLoop(q)',
               SequenceOfRow(asked'[p]) = SequenceOfRow(asked'[q]), q # o
        PROVE  p = q
    <3>1. InLoop(q) /\ asked'[q] = asked[q]
      BY <2>1, <1>2
    <3>2. CASE p # o
      BY <2>1, <3>1, <3>2, <1>2 DEF Behind, Locked
    <3>3. CASE p = o
      BY <2>1, <3>1, <3>3 DEF Behind, Locked, LockFree, Redriving
    <3> QED
      BY <3>2, <3>3
  <2>2. ASSUME NEW p \in Operators, NEW c \in Consumers, NEW h \in Handlers,
               InLoop(p)', step[c][h] = "holding"
        PROVE  SequenceOfRow(asked'[p]) # SequenceOfRow(<<h, next[c]>>)
    <3>1. InLoop(p) => SequenceOfRow(asked[p]) # SequenceOfRow(<<h, next[c]>>)
      BY <2>2 DEF Behind, Locked
    <3>2. CASE p # o
      BY <2>2, <3>1, <3>2, <1>2
    <3>3. CASE p = o
      BY <2>2, <3>1, <3>3 DEF LockFree
    <3> QED
      BY <3>2, <3>3
  <2>3. ASSUME NEW p \in Operators, NEW q \in Operators, InLoop(p)', InLoop(q)',
               SequenceOfRow(asked'[p]) = SequenceOfRow(asked'[q])
        PROVE  p = q
    BY <2>1, <2>3
  <2> QED
    BY <1>1, <2>2, <2>3 DEF Locked, SequenceOfRow
<1>4. HeadKnown'
  <2>1. ASSUME NEW c \in Consumers, NEW h \in Handlers, step[c][h] = "holding"
        PROVE  Blocked(<<h, next[c]>>)'
    <3>1. PICK u \in Rows : status[u] \in Unresolved
                            /\ SequenceOfRow(u) = SequenceOfRow(<<h, next[c]>>)
      BY <2>1 DEF Behind, HeadKnown, Blocked, UnresolvedIn, Blocks
    <3>2. ~ LockFree(SequenceOfRow(u))
      BY <2>1, <3>1 DEF LockFree
    <3>3. InLoop(o) => SequenceOfRow(asked[o]) # SequenceOfRow(u)
      BY <2>1, <3>1 DEF Behind, Locked
    <3>4. status'[u] = status[u]
      BY <3>2, <3>3
    <3> QED
      BY <1>1, <3>1, <3>4 DEF Blocked, UnresolvedIn, Blocks, SequenceOfRow
  <2>2. ASSUME NEW p \in Operators, InWork(p)', NEW r \in Rows, status'[r] = "held",
               SequenceOfRow(r) = SequenceOfRow(cur'[p])
        PROVE  r = cur'[p] \/ id'[cur'[p]] < id'[r]
    BY <2>2, <1>2 DEF Behind, HeadKnown
  <2>3. ASSUME NEW p \in Operators, opc'[p] = "reading"
        PROVE  status'[cur'[p]] \in {"redriven", "failed"}
    <3>1. CASE p = o
      BY <2>3, <3>1 DEF InWork
    <3>2. CASE p # o
      <4>1. InWork(p) /\ InLoop(p) /\ opc[p] = "reading" /\ cur'[p] = cur[p]
        BY <2>3, <3>2 DEF InWork, InLoop
      <4>2. /\ cur[p] \in Rows /\ SequenceOfRow(cur[p]) = SequenceOfRow(asked[p])
            /\ status[cur[p]] \in {"redriven", "failed"}
        BY <4>1 DEF IInv, Working, Behind, HeadKnown
      <4>3. ~ LockFree(SequenceOfRow(cur[p]))
        BY <4>1, <4>2 DEF LockFree, Redriving
      <4>4. InLoop(o) => SequenceOfRow(asked[o]) # SequenceOfRow(cur[p])
        BY <3>2, <4>1, <4>2 DEF Behind, Locked
      <4> QED
        BY <4>1, <4>2, <4>3, <4>4
    <3> QED
      BY <3>1, <3>2
  <2>4. \A p \in Operators : InWork(p)' =>
          /\ \A r \in Rows : status'[r] = "held" /\ SequenceOfRow(r)' = SequenceOfRow(cur[p])'
                               => r = cur'[p] \/ id'[cur'[p]] < id'[r]
          /\ opc'[p] = "reading" => status'[cur'[p]] \in {"redriven", "failed"}
    BY <2>2, <2>3 DEF SequenceOfRow
  <2>5. \A c \in Consumers, h \in Handlers :
          step'[c][h] = "holding" => Blocked(<<h, next[c]>>)'
    BY <1>1, <2>1
  <2> QED
    BY <2>4, <2>5 DEF HeadKnown
<1> QED
  BY <1>3, <1>4 DEF Behind

\* An operator that goes on with its loop covers the rows of the sequence.
LEMMA CoveredBehind ==
  ASSUME IInv, Behind, NEW o \in Operators, UNCHANGED id,
         \A p \in Operators \ {o} : opc'[p] = opc[p] /\ asked'[p] = asked[p] /\ cur'[p] = cur[p],
         \A r \in Rows : \/ status'[r] = status[r]
                         \/ InLoop(o)' /\ SequenceOfRow(asked'[o]) = SequenceOfRow(r),
         \A r \in Rows : status'[r] = "held" => status[r] = "held",
         InLoop(o) => InLoop(o)' /\ asked'[o] = asked[o]
  PROVE  HeldBehindFailed'
<1>1. \A p \in Operators : InLoop(p) => InLoop(p)' /\ asked'[p] = asked[p]
  BY DEF InLoop
<1>2. \A s : Redriving(s) => \E p \in Operators : InLoop(p)' /\ SequenceOfRow(asked'[p]) = s
  BY <1>1 DEF Redriving
<1> SUFFICES ASSUME NEW row \in Rows, status'[row] = "held",
                    ~ \E p \in Operators :
                        InLoop(p)' /\ SequenceOfRow(asked'[p]) = SequenceOfRow(row)
             PROVE  \E r \in Rows : /\ SequenceOfRow(r) = SequenceOfRow(row)
                                    /\ status'[r] = "failed" /\ id'[r] < id'[row]
  BY DEF HeldBehindFailed, Redriving, SequenceOfRow
<1>3. ~ Redriving(SequenceOfRow(row)) /\ status[row] = "held"
  BY <1>2
<1>4. PICK r \in Rows : /\ SequenceOfRow(r) = SequenceOfRow(row)
                        /\ status[r] = "failed" /\ id[r] < id[row]
  BY <1>3 DEF Behind, HeldBehindFailed
<1>5. status'[r] = status[r]
  BY <1>4
<1> QED
  BY <1>4, <1>5

\* An operator may let go when the rows held in its sequence are behind a failed one.
LEMMA ReleaseBehind ==
  ASSUME IInv, Behind, NEW o \in Operators, Release(o), UNCHANGED <<loops, table>>,
         InLoop(o) =>
           \A row \in Rows : status[row] = "held" /\ SequenceOfRow(row) = SequenceOfRow(asked[o])
             => \E r \in Rows : /\ SequenceOfRow(r) = SequenceOfRow(row)
                                /\ status[r] = "failed" /\ id[r] < id[row]
  PROVE  Behind'
<1>1. /\ opc'[o] = "idle"
      /\ \A p \in Operators \ {o} : opc'[p] = opc[p] /\ asked'[p] = asked[p] /\ cur'[p] = cur[p]
  BY ReleaseType DEF IInv
<1>2. ~ InLoop(o)' /\ ~ InWork(o)' /\ UNCHANGED <<status, id>>
  BY <1>1 DEF InLoop, InWork, table
<1>3. HeldBehindFailed'
  <2> SUFFICES ASSUME NEW row \in Rows, status[row] = "held"
               PROVE  \/ \E r \in Rows : /\ SequenceOfRow(r) = SequenceOfRow(row)
                                         /\ status[r] = "failed" /\ id[r] < id[row]
                      \/ Redriving(SequenceOfRow(row))'
    BY <1>2 DEF HeldBehindFailed, SequenceOfRow
  <2>1. ASSUME NEW p \in Operators \ {o}, InLoop(p),
               SequenceOfRow(asked[p]) = SequenceOfRow(row)
        PROVE  Redriving(SequenceOfRow(row))'
    BY <2>1, <1>1 DEF Redriving, InLoop, SequenceOfRow
  <2> QED
    BY <2>1 DEF Behind, HeldBehindFailed, Redriving
<1> QED
  BY <1>1, <1>2, <1>3, BehindOperator

LEMMA BehindRequest ==
  ASSUME IInv, Behind, NEW o \in Operators, NEW row \in Rows,
         NEW job \in {"redrive", "discard"}, Request(o, row, job)
  PROVE  Behind'
<1>1. /\ opc[o] = "idle" /\ opc' = [opc EXCEPT ![o] = job] /\ asked' = [asked EXCEPT ![o] = row]
      /\ UNCHANGED <<status, id, loops, cur>>
  BY DEF Request, table
<1>2. /\ ~ InLoop(o) /\ ~ InLoop(o)' /\ ~ InWork(o)'
      /\ \A p \in Operators \ {o} : opc'[p] = opc[p] /\ asked'[p] = asked[p] /\ cur'[p] = cur[p]
  BY <1>1 DEF InLoop, InWork, IInv, TypeOK
<1>3. HeldBehindFailed'
  BY <1>1, <1>2, CoveredBehind
<1> QED
  BY <1>1, <1>2, <1>3, BehindOperator

LEMMA BehindLock ==
  ASSUME IInv, Behind, NEW o \in Operators, Busy(o) \/ Lock(o)
  PROVE  Behind'
<1>1. CASE Busy(o)
  BY <1>1, ReleaseBehind DEF Busy, InLoop
<1>2. CASE Lock(o)
  <2>1. /\ opc[o] = "redrive" /\ opc' = [opc EXCEPT ![o] = "next"]
        /\ LockFree(SequenceOfRow(asked[o])) /\ UNCHANGED <<status, id, loops, asked, cur>>
    BY <1>2 DEF Lock, table
  <2>2. /\ ~ InLoop(o) /\ InLoop(o)' /\ ~ InWork(o)'
        /\ \A p \in Operators \ {o} : opc'[p] = opc[p] /\ asked'[p] = asked[p] /\ cur'[p] = cur[p]
    BY <2>1 DEF InLoop, InWork, IInv, TypeOK
  <2>3. HeldBehindFailed'
    BY <2>1, <2>2, CoveredBehind
  <2> QED
    BY <2>1, <2>2, <2>3, BehindOperator
<1> QED
  BY <1>1, <1>2

\* Discarding the head goes on with the sequence; before another row the head waits,
\* which is failed or behind a failed row.
LEMMA BehindDiscard ==
  ASSUME IInv, Behind, NEW o \in Operators, Discard(o)
  PROVE  Behind'
<1> DEFINE row == asked[o]
           s == SequenceOfRow(row)
<1>1. /\ opc[o] = "discard" /\ LockFree(s) /\ row \in Rows /\ ~ InLoop(o)
      /\ UNCHANGED <<id, lastId, loops>>
  BY DEF Discard, IInv, Working, InLoop
<1>2. CASE Release(o) /\ UNCHANGED status
  <2>1. UNCHANGED <<loops, table>>
    BY <1>1, <1>2 DEF table
  <2> QED
    BY <1>1, <1>2, <2>1, ReleaseBehind
<1>3. ASSUME status[row] \in Unresolved, SetStatus(row, "discarded")
      PROVE  /\ status'[row] = "discarded"
             /\ \A r \in Rows \ {row} : status'[r] = status[r]
             /\ \A r \in Rows : status'[r] = status[r] \/ LockFree(SequenceOfRow(r))
             /\ \A r \in Rows : status'[r] = "held" => status[r] = "held"
  <2>1. status'[row] = "discarded" /\ \A r \in Rows \ {row} : status'[r] = status[r]
    BY <1>1, <1>3, StatusType DEF IInv, Statuses
  <2> QED
    BY <2>1, <1>1
<1>4. CASE /\ status[row] \in Unresolved /\ SetStatus(row, "discarded")
           /\ opc' = [opc EXCEPT ![o] = "next"] /\ UNCHANGED <<asked, cur>>
  <2>1. /\ InLoop(o)' /\ ~ InWork(o)'
        /\ \A p \in Operators \ {o} : opc'[p] = opc[p] /\ asked'[p] = asked[p] /\ cur'[p] = cur[p]
    BY <1>4 DEF InLoop, InWork, IInv, TypeOK
  <2>2. \A r \in Rows : \/ status'[r] = status[r]
                        \/ InLoop(o)' /\ SequenceOfRow(asked'[o]) = SequenceOfRow(r)
    BY <1>3, <1>4, <2>1
  <2>3. HeldBehindFailed'
    BY <1>1, <1>3, <1>4, <2>1, <2>2, CoveredBehind
  <2> QED
    BY <1>1, <1>3, <1>4, <2>1, <2>3, BehindOperator
<1>5. CASE /\ status[row] \in Unresolved /\ SetStatus(row, "discarded")
           /\ ~ IsHead(row, s) /\ Release(o)
  <2>1. /\ ~ InLoop(o)' /\ ~ InWork(o)'
        /\ \A p \in Operators \ {o} : opc'[p] = opc[p] /\ asked'[p] = asked[p] /\ cur'[p] = cur[p]
    BY <1>5, ReleaseType DEF InLoop, InWork, IInv
  <2>2. PICK u \in Rows : /\ status[u] \in Unresolved /\ SequenceOfRow(u) = s
                          /\ id[u] < id[row] /\ id[u] \in Nat
    BY <1>1, <1>5 DEF IsHead, UnresolvedIn, Blocks, IInv, TypeOK
  <2>3. ~ Redriving(s)
    BY <1>1 DEF LockFree
  <2>4. PICK f \in Rows : /\ status[f] = "failed" /\ SequenceOfRow(f) = s
                          /\ id[f] < id[row] /\ id[f] \in Nat
    <3>1. CASE status[u] = "failed"
      BY <2>2, <3>1
    <3>2. CASE status[u] = "held"
      <4>1. PICK r \in Rows : /\ SequenceOfRow(r) = s /\ status[r] = "failed" /\ id[r] < id[u]
        BY <2>2, <2>3, <3>2 DEF Behind, HeldBehindFailed
      <4> QED
        BY <1>1, <2>2, <4>1 DEF IInv, TypeOK
    <3> QED
      BY <2>2, <3>1, <3>2 DEF Unresolved
  <2>5. HeldBehindFailed'
    <3> SUFFICES ASSUME NEW q \in Rows, status'[q] = "held"
                 PROVE  \/ \E r \in Rows : /\ SequenceOfRow(r) = SequenceOfRow(q)
                                           /\ status'[r] = "failed" /\ id[r] < id[q]
                        \/ Redriving(SequenceOfRow(q))'
      BY <1>1 DEF HeldBehindFailed, SequenceOfRow
    <3>1. status[q] = "held"
      BY <1>3, <1>5
    <3>2. ASSUME NEW p \in Operators, InLoop(p), SequenceOfRow(asked[p]) = SequenceOfRow(q)
          PROVE  Redriving(SequenceOfRow(q))'
      <4>1. p # o
        BY <3>2, <1>1
      <4> QED
        BY <3>2, <4>1, <2>1 DEF Redriving, InLoop, SequenceOfRow
    <3>3. ASSUME NEW r \in Rows, SequenceOfRow(r) = SequenceOfRow(q), status[r] = "failed",
                 id[r] < id[q]
          PROVE  \E t \in Rows : /\ SequenceOfRow(t) = SequenceOfRow(q)
                                 /\ status'[t] = "failed" /\ id[t] < id[q]
      <4>1. CASE r = row
        <5>1. f # row /\ id[f] < id[q] /\ SequenceOfRow(f) = SequenceOfRow(q)
          BY <1>1, <2>4, <3>3, <4>1 DEF IInv, TypeOK
        <5> QED
          BY <2>4, <5>1, <1>3, <1>5
      <4>2. CASE r # row
        BY <3>3, <4>2, <1>3, <1>5
      <4> QED
        BY <4>1, <4>2
    <3> QED
      BY <3>1, <3>2, <3>3 DEF Behind, HeldBehindFailed, Redriving
  <2> QED
    BY <1>1, <1>3, <1>5, <2>1, <2>5, BehindOperator
<1> QED
  BY <1>2, <1>4, <1>5 DEF Discard

LEMMA BehindTakeNext ==
  ASSUME IInv, Behind, NEW o \in Operators, TakeNext(o)
  PROVE  Behind'
<1>1. /\ opc[o] = "next" /\ InLoop(o) /\ UNCHANGED <<table, loops, status, id>>
  BY DEF TakeNext, InLoop, table
<1>2. CASE Release(o) /\ UnresolvedIn(SequenceOfRow(asked[o])) = {}
  BY <1>1, <1>2, ReleaseBehind DEF UnresolvedIn, Blocks, Unresolved
<1>3. ASSUME NEW row \in Rows, IsHead(row, SequenceOfRow(asked[o])),
             cur' = [cur EXCEPT ![o] = row], opc' = [opc EXCEPT ![o] = "running"],
             UNCHANGED asked
      PROVE  Behind'
  <2>1. /\ InLoop(o)' /\ opc'[o] = "running" /\ cur'[o] = row
        /\ \A p \in Operators \ {o} : opc'[p] = opc[p] /\ asked'[p] = asked[p] /\ cur'[p] = cur[p]
    BY <1>3 DEF InLoop, IInv, TypeOK
  <2>2. HeldBehindFailed'
    BY <1>1, <1>3, <2>1, CoveredBehind
  <2>3. ASSUME NEW r \in Rows, status[r] = "held", SequenceOfRow(r) = SequenceOfRow(row)
        PROVE  r = row \/ id[row] < id[r]
    <3>1. id[row] <= id[r] /\ status[row] # "none" /\ SequenceOfRow(row) = SequenceOfRow(asked[o])
      BY <1>3, <2>3 DEF IsHead, UnresolvedIn, Blocks, Unresolved
    <3>2. status[row] # "none" /\ status[r] # "none" /\ id[r] = id[row] => r = row
      BY DEF IInv, RowsOK
    <3>3. id[row] \in Nat /\ id[r] \in Nat
      BY DEF IInv, TypeOK
    <3> QED
      BY <3>1, <3>2, <3>3, <2>3
  <2> QED
    BY <1>1, <1>3, <2>1, <2>2, <2>3, BehindOperator
<1> QED
  BY <1>2, <1>3 DEF TakeNext

LEMMA BehindWork ==
  ASSUME IInv, Behind, NEW o \in Operators,
         RedriveOk(o) \/ RedriveFails(o) \/ RecordResult(o)
  PROVE  Behind'
<1>1. /\ InWork(o) /\ InLoop(o) /\ UNCHANGED <<id, loops, asked, cur>>
      /\ \E job \in Jobs : /\ opc' = [opc EXCEPT ![o] = job]
                           /\ job \in {"marking", "refusing"} \/ (job = "reading" /\ RecordResult(o))
  BY DEF RedriveOk, RedriveFails, RecordResult, InWork, InLoop, table, Jobs
<1>2. /\ InLoop(o)' /\ (opc'[o] = "reading" => RecordResult(o))
      /\ \A p \in Operators \ {o} : opc'[p] = opc[p] /\ asked'[p] = asked[p] /\ cur'[p] = cur[p]
  BY <1>1 DEF InLoop, IInv, TypeOK
<1>3. /\ cur[o] \in Rows /\ SequenceOfRow(cur[o]) = SequenceOfRow(asked[o])
      /\ \A r \in Rows : status[r] = "held" /\ SequenceOfRow(r) = SequenceOfRow(cur[o])
                           => r = cur[o] \/ id[cur[o]] < id[r]
  BY <1>1 DEF IInv, Working, Behind, HeadKnown
<1>4. /\ \A r \in Rows \ {cur[o]} : status'[r] = status[r]
      /\ \/ status'[cur[o]] = status[cur[o]] /\ ~ RecordResult(o)
         \/ status'[cur[o]] \in {"redriven", "failed"}
  <2>1. CASE RecordResult(o)
    <3> DEFINE t == IF opc[o] = "marking" THEN "redriven" ELSE "failed"
    <3>1. SetStatus(cur[o], t) /\ t \in Statuses /\ t \in {"redriven", "failed"}
      BY <2>1 DEF RecordResult, Statuses, Unresolved
    <3> HIDE DEF t
    <3> QED
      BY <1>3, <3>1, StatusType DEF IInv
  <2>2. CASE (RedriveOk(o) \/ RedriveFails(o)) /\ ~ RecordResult(o)
    BY <2>2 DEF RedriveOk, RedriveFails, table
  <2> QED
    BY <2>1, <2>2
<1>5. /\ \A r \in Rows : \/ status'[r] = status[r]
                         \/ InLoop(o)' /\ SequenceOfRow(asked'[o]) = SequenceOfRow(r)
      /\ \A r \in Rows : status'[r] = "held" => status[r] = "held"
      /\ \A r \in Rows : \/ status'[r] = status[r] \/ LockFree(SequenceOfRow(r))
                         \/ InLoop(o) /\ SequenceOfRow(asked[o]) = SequenceOfRow(r)
  BY <1>1, <1>2, <1>3, <1>4
<1>6. HeldBehindFailed'
  BY <1>1, <1>2, <1>5, CoveredBehind
<1>7. opc'[o] = "reading" => status'[cur'[o]] \in {"redriven", "failed"}
  BY <1>1, <1>2, <1>4
<1> QED
  BY <1>1, <1>2, <1>3, <1>5, <1>6, <1>7, BehindOperator

\* A redrive that ends on a row which is failed again leaves the rest behind it.
LEMMA BehindReadResult ==
  ASSUME IInv, Behind, NEW o \in Operators, ReadResult(o)
  PROVE  Behind'
<1>1. /\ opc[o] = "reading" /\ InLoop(o) /\ InWork(o)
      /\ UNCHANGED <<table, loops, status, id>>
  BY DEF ReadResult, InLoop, InWork, table
<1>2. CASE /\ opc' = [opc EXCEPT ![o] = "next"] /\ cur' = [cur EXCEPT ![o] = NoRow]
           /\ UNCHANGED asked
  <2>1. /\ InLoop(o)' /\ ~ InWork(o)'
        /\ \A p \in Operators \ {o} : opc'[p] = opc[p] /\ asked'[p] = asked[p] /\ cur'[p] = cur[p]
    BY <1>2 DEF InLoop, InWork, IInv, TypeOK
  <2>2. HeldBehindFailed'
    BY <1>1, <1>2, <2>1, CoveredBehind
  <2> QED
    BY <1>1, <1>2, <2>1, <2>2, BehindOperator
<1>3. CASE status[cur[o]] # "redriven" /\ Release(o)
  <2>1. /\ status[cur[o]] = "failed" /\ cur[o] \in Rows
        /\ SequenceOfRow(cur[o]) = SequenceOfRow(asked[o])
        /\ \A r \in Rows : status[r] = "held" /\ SequenceOfRow(r) = SequenceOfRow(cur[o])
                             => r = cur[o] \/ id[cur[o]] < id[r]
    BY <1>1, <1>3 DEF IInv, Working, Behind, HeadKnown
  <2>2. \A row \in Rows : status[row] = "held" /\ SequenceOfRow(row) = SequenceOfRow(asked[o])
          => \E r \in Rows : /\ SequenceOfRow(r) = SequenceOfRow(row)
                             /\ status[r] = "failed" /\ id[r] < id[row]
    BY <2>1
  <2> QED
    BY <1>1, <1>3, <2>2, ReleaseBehind
<1> QED
  BY <1>2, <1>3 DEF ReadResult

LEMMA NextBehind ==
  ASSUME IInv, Behind, [Next]_vars, \A o \in Operators : ~ RedriveStops(o)
  PROVE  Behind'
<1>1. CASE UNCHANGED vars
  BY <1>1, BehindQuiet DEF vars, loops
<1>2. CASE Fault
  BY <1>2, BehindLoopStep, BehindHandlerStep DEF Fault
<1>3. ASSUME NEW c \in Consumers, LoopStep(c) PROVE Behind'
  BY <1>3, BehindLoopStep DEF LoopStep
<1>4. ASSUME NEW o \in Operators, RedriveStep(o) PROVE Behind'
  BY <1>4, BehindLock, BehindDiscard, BehindTakeNext, BehindWork, BehindReadResult
     DEF RedriveStep
<1> QED
  BY <1>1, <1>2, <1>3, <1>4, BehindHandlerStep, BehindRequest DEF Next

\* Only a redrive that stops counts as one.
LEMMA StopsCount ==
  ASSUME [Next]_vars
  PROVE  UNCHANGED stops \/ \E o \in Operators : RedriveStops(o)
<1>1. ASSUME NEW c \in Consumers, LoopStep(c) PROVE UNCHANGED stops
  BY <1>1 DEF LoopStep, Deliver, Advance, CommitOffsets, Retire, Throw, bounds
<1>2. ASSUME NEW c \in Consumers, NEW h \in Handlers, HandlerStep(c, h) PROVE UNCHANGED stops
  BY <1>2 DEF HandlerStep, Check, Hold, CheckTimesOut, RunOk, RunFails, RecordFailure, bounds
<1>3. ASSUME NEW o \in Operators, RedriveStep(o) PROVE UNCHANGED stops
  BY <1>3 DEF RedriveStep, Busy, Lock, Discard, TakeNext, RedriveOk, RedriveFails,
              RecordResult, ReadResult, bounds
<1>4. ASSUME NEW o \in Operators, NEW row \in Rows, NEW job \in {"redrive", "discard"},
             Request(o, row, job)
      PROVE  UNCHANGED stops
  BY <1>4 DEF Request
<1>5. CASE Fault
  BY <1>5 DEF Fault, Crash, Rebalance, DatabaseError
<1>6. CASE UNCHANGED vars
  BY <1>6 DEF vars, bounds
<1> QED
  BY <1>1, <1>2, <1>3, <1>4, <1>5, <1>6 DEF Next

\* As long as no redrive was cut short, a held row has a failed row before it in its
\* sequence, or a redrive is on its way to it.
THEOREM HeldNotForgotten == Spec => [](stops = 0 => HeldBehindFailed)
<1>1. Init => Behind
  BY DEF Init, Behind, Locked, HeadKnown, HeldBehindFailed, InLoop, InWork
<1>2. IInv /\ (stops = 0 => Behind) /\ [Next]_vars => (stops = 0 => Behind)'
  <2> SUFFICES ASSUME IInv, stops = 0 => Behind, [Next]_vars, stops' = 0
               PROVE  Behind'
    OBVIOUS
  <2>1. \A o \in Operators : ~ RedriveStops(o)
    BY DEF RedriveStops, IInv, TypeOK
  <2>2. stops = 0
    BY <2>1, StopsCount
  <2> QED
    BY <2>1, <2>2, NextBehind
<1>3. Behind => HeldBehindFailed
  BY DEF Behind
<1> QED
  BY <1>1, <1>2, <1>3, Invariance, PTL DEF Spec
=============================================================================
