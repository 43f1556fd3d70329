--------------------------- MODULE CronOnceProofs ---------------------------
(***************************************************************************)
(* A @CronOnce period runs at most once per database, for any number of    *)
(* instances, databases and periods, as long as no claim comes later than  *)
(* the retention of cron_runs (TimelyAssumption).                          *)
(***************************************************************************)
EXTENDS CronOnce, TLAPS

\* One entry of a table of two dimensions is replaced.
LEMMA UpdateType ==
  ASSUME NEW S, NEW T, NEW V, NEW f \in [S -> [T -> V]], NEW s \in S, NEW t \in T, NEW v \in V
  PROVE  [f EXCEPT ![s][t] = v] \in [S -> [T -> V]]
<1>1. [f[s] EXCEPT ![t] = v] \in [T -> V]
  OBVIOUS
<1> QED BY <1>1

\* A whole row of it is replaced.
LEMMA RowType ==
  ASSUME NEW S, NEW U, NEW f \in [S -> U], NEW s \in S, NEW r \in U
  PROVE  [f EXCEPT ![s] = r] \in [S -> U]
  OBVIOUS

\* Well-typedness of the columns and of the progress of each firing.
LEMMA TypeInit == Init => TypeOK
  BY CronAssumption DEF Init, TypeOK, Outcomes, Jobs, Dbs

LEMMA NextDbType ==
  ASSUME TypeOK, NEW i \in Instances, NEW k \in Periods, NextDb(i, k)
  PROVE  /\ at' \in [Instances -> [Periods -> 0 .. NumDbs]]
         /\ job' \in [Instances -> [Periods -> Jobs]]
<1> DEFINE next == IF at[i][k] = NumDbs THEN 0 ELSE at[i][k] + 1
<1>1. at \in [Instances -> [Periods -> 0 .. NumDbs]] /\ job \in [Instances -> [Periods -> Jobs]]
  BY DEF TypeOK
<1>2. at[i][k] \in 0 .. NumDbs
  BY <1>1
<1>3. next \in 0 .. NumDbs
  BY <1>2, CronAssumption
<1>4. at' = [at EXCEPT ![i][k] = next] /\ job' = [job EXCEPT ![i][k] = "claim"]
  BY DEF NextDb
<1>5. "claim" \in Jobs
  BY DEF Jobs
<1> HIDE DEF next
<1> QED
  BY <1>1, <1>3, <1>4, <1>5, UpdateType

\* A firing that works on a database is at one.
Working == \A i \in Instances, k \in Periods : job[i][k] # "claim" => at[i][k] # 0

LEMMA TypeStep == TypeOK /\ Working /\ [Next]_vars => TypeOK'
<1> SUFFICES ASSUME TypeOK, Working, [Next]_vars PROVE TypeOK'
  OBVIOUS
<1> DEFINE Runs    == [Dbs -> [Periods -> Outcomes \cup {"none", "open"}]]
           Clocks  == [Instances -> 0 .. NumPeriods]
           Ats     == [Instances -> [Periods -> 0 .. NumDbs]]
           AllJobs == [Instances -> [Periods -> Jobs]]
           Starts  == [Dbs -> [Periods -> Nat]]
<1>0. /\ runs \in Runs /\ clock \in Clocks /\ at \in Ats /\ job \in AllJobs /\ started \in Starts
      /\ errors \in Nat /\ errors + 1 \in Nat /\ crashes \in Nat /\ crashes + 1 \in Nat
  BY DEF TypeOK
<1>00. /\ runs' \in Runs /\ clock' \in Clocks /\ at' \in Ats /\ job' \in AllJobs
       /\ started' \in Starts /\ errors' \in Nat /\ crashes' \in Nat
       => TypeOK'
  BY DEF TypeOK
<1> HIDE DEF Runs, Clocks, Ats, AllJobs, Starts
<1>1. CASE UNCHANGED vars
  BY <1>0, <1>00, <1>1 DEF vars
<1>2. ASSUME NEW i \in Instances, Fire(i) PROVE TypeOK'
  <2> DEFINE k == clock[i] + 1
             first == IF NumDbs = 0 THEN 0 ELSE 1
  <2>1. first \in 0 .. NumDbs /\ k \in 0 .. NumPeriods /\ k \in Periods /\ "claim" \in Jobs
    BY <1>2, CronAssumption DEF Fire, Periods, Jobs
  <2>2. /\ clock' = [clock EXCEPT ![i] = k] /\ at' = [at EXCEPT ![i][k] = first]
        /\ job' = [job EXCEPT ![i][k] = "claim"]
    BY <1>2 DEF Fire
  <2> HIDE DEF k, first
  <2>3. clock' \in Clocks
    BY <1>0, <2>1, <2>2, RowType DEF Clocks
  <2>4. at' \in Ats /\ job' \in AllJobs
    BY <1>0, <2>1, <2>2, UpdateType DEF Ats, AllJobs
  <2>5. UNCHANGED <<runs, started, errors, crashes>>
    BY <1>2 DEF Fire
  <2> QED BY <1>0, <1>00, <2>3, <2>4, <2>5
<1>3. ASSUME NEW i \in Instances, Crash(i) PROVE TypeOK'
  <2>1. [k \in Periods |-> 0] \in [Periods -> 0 .. NumDbs]
    BY CronAssumption
  <2>2. [k \in Periods |-> "claim"] \in [Periods -> Jobs]
    BY DEF Jobs
  <2>3. at' \in Ats /\ job' \in AllJobs
    BY <1>0, <1>3, <2>1, <2>2, RowType DEF Crash, Ats, AllJobs
  <2>4. UNCHANGED <<runs, clock, started, errors>> /\ crashes' = crashes + 1
    BY <1>3 DEF Crash
  <2> QED BY <1>0, <1>00, <2>3, <2>4
<1>4. ASSUME NEW i \in Instances, NEW k \in Periods, Claim(i, k) PROVE TypeOK'
  <2> DEFINE d == at[i][k]
             row == [p \in Periods |-> IF Purged(p, k) THEN "none"
                                       ELSE IF p = k /\ ~ Taken(d, k) THEN "open" ELSE runs[d][p]]
  <2>1. d \in Dbs
    BY <1>4, CronAssumption DEF Claim, TypeOK, Dbs
  <2>2. row \in [Periods -> Outcomes \cup {"none", "open"}]
    BY <1>0, <2>1 DEF Runs
  <2>3. runs' = [runs EXCEPT ![d] = row]
    BY <1>4 DEF Claim
  <2>4. runs' \in Runs
    <3> HIDE DEF d, row
    <3> QED BY <1>0, <2>1, <2>2, <2>3, RowType DEF Runs
  <2>5. started' \in Starts
    <3>1. started[d][k] + 1 \in Nat
      BY <1>0, <2>1 DEF Starts
    <3>2. started' = started \/ started' = [started EXCEPT ![d][k] = started[d][k] + 1]
      BY <1>4 DEF Claim
    <3> HIDE DEF d
    <3>3. CASE started' = started
      BY <1>0, <3>3
    <3>4. CASE started' = [started EXCEPT ![d][k] = started[d][k] + 1]
      BY <1>0, <2>1, <3>1, <3>4, UpdateType DEF Starts
    <3> QED BY <3>2, <3>3, <3>4
  <2>6. at' \in Ats /\ job' \in AllJobs
    <3>1. CASE NextDb(i, k)
      BY <3>1, NextDbType DEF Ats, AllJobs
    <3>2. CASE at' = at /\ job' = [job EXCEPT ![i][k] = "body"]
      <4>1. "body" \in Jobs
        BY DEF Jobs
      <4> QED BY <1>0, <3>2, <4>1, UpdateType DEF AllJobs
    <3> QED BY <1>4, <3>1, <3>2 DEF Claim
  <2>7. UNCHANGED <<clock, errors, crashes>>
    BY <1>4 DEF Claim
  <2> QED BY <1>0, <1>00, <2>4, <2>5, <2>6, <2>7
<1>5. ASSUME NEW i \in Instances, NEW k \in Periods, BodyEnds(i, k) PROVE TypeOK'
  <2>1. PICK o \in Jobs : job' = [job EXCEPT ![i][k] = o]
    BY <1>5 DEF BodyEnds, Jobs
  <2>2. job' \in AllJobs
    BY <1>0, <2>1, UpdateType DEF AllJobs
  <2>3. UNCHANGED <<runs, clock, at, started, errors, crashes>>
    BY <1>5 DEF BodyEnds
  <2> QED BY <1>0, <1>00, <2>2, <2>3
<1>6. ASSUME NEW i \in Instances, NEW k \in Periods, Finish(i, k) PROVE TypeOK'
  <2> DEFINE d == at[i][k]
             v == IF runs[d][k] = "none" THEN runs[d][k]
                  ELSE IF job[i][k] = "finish ok" THEN "ok" ELSE "error"
  <2>0. at[i][k] # 0
    BY <1>6 DEF Finish, Working
  <2>1. d \in Dbs
    BY <2>0, CronAssumption DEF TypeOK, Dbs
  <2>2. v \in Outcomes \cup {"none", "open"}
    BY DEF Outcomes
  <2>3. runs' = [runs EXCEPT ![d][k] = v]
    BY <1>6 DEF Finish
  <2>4. runs' \in Runs
    <3> HIDE DEF d, v
    <3> QED BY <1>0, <2>1, <2>2, <2>3, UpdateType DEF Runs
  <2>5. at' \in Ats /\ job' \in AllJobs
    BY <1>6, NextDbType DEF Finish, Ats, AllJobs
  <2>6. UNCHANGED <<clock, started, errors, crashes>>
    BY <1>6 DEF Finish
  <2> QED BY <1>0, <1>00, <2>4, <2>5, <2>6
<1>7. ASSUME NEW i \in Instances, NEW k \in Periods, ClaimFails(i, k) \/ FinishFails(i, k)
      PROVE TypeOK'
  <2>1. at' \in Ats /\ job' \in AllJobs
    BY <1>7, NextDbType DEF ClaimFails, FinishFails, Ats, AllJobs
  <2>2. UNCHANGED <<runs, clock, started, crashes>> /\ errors' = errors + 1
    BY <1>7 DEF ClaimFails, FinishFails
  <2> QED BY <1>0, <1>00, <2>1, <2>2
<1> QED BY <1>1, <1>2, <1>3, <1>4, <1>5, <1>6, <1>7 DEF Next, Step

-----------------------------------------------------------------------------
(* The inductive invariant *)

\* Nobody is at period k any more and nobody will fire it again.
Past(k) == \A i \in Instances : k <= clock[i] /\ at[i][k] = 0

\* Only fired periods are worked on, and a firing leaves behind no claim that is
\* more than MaxLag older: what it purges is past.
Lag ==
  \A i \in Instances, k \in Periods :
    at[i][k] # 0 => /\ k <= clock[i]
                    /\ \A p \in Periods : p + MaxLag < k => Past(p)

\* A body is started at most once, and once it was, its claim is in the table
\* until the period is past.
Once ==
  \A d \in Dbs, k \in Periods :
    /\ started[d][k] <= 1
    /\ started[d][k] = 1 /\ runs[d][k] = "none" => Past(k)

\* Whoever runs a body or is about to record its end holds the open claim, alone.
Claimed ==
  \A i \in Instances, k \in Periods :
    job[i][k] # "claim" =>
      /\ at[i][k] # 0
      /\ runs[at[i][k]][k] = "open"
      /\ \A j \in Instances : j # i /\ at[j][k] = at[i][k] => job[j][k] = "claim"

IInv == TypeOK /\ Lag /\ Once /\ Claimed

LEMMA InvInit == Init => IInv
<1> SUFFICES ASSUME Init PROVE IInv
  OBVIOUS
<1>1. TypeOK
  BY TypeInit
<1>2. Lag /\ Claimed
  BY DEF Init, Lag, Claimed
<1>3. Once
  BY DEF Init, Once
<1> QED BY <1>1, <1>2, <1>3 DEF IInv

\* What one step of a firing changes: nothing of any other firing.
LEMMA StepFrame ==
  ASSUME TypeOK, Claimed, NEW i \in Instances, NEW k \in Periods,
         Step(i, k) \/ ClaimFails(i, k) \/ FinishFails(i, k)
  PROVE  /\ at[i][k] \in Dbs
         /\ clock' = clock
         /\ \A j \in Instances, p \in Periods :
              j # i \/ p # k => at'[j][p] = at[j][p] /\ job'[j][p] = job[j][p]
<1>1. at[i][k] # 0
  BY DEF Step, Claim, BodyEnds, Finish, ClaimFails, FinishFails, Claimed
<1>2. at[i][k] \in Dbs
  BY <1>1, CronAssumption DEF TypeOK, Dbs
<1>3. clock' = clock
  BY DEF Step, Claim, BodyEnds, Finish, ClaimFails, FinishFails
<1>4. ASSUME NextDb(i, k), NEW j \in Instances, NEW p \in Periods, j # i \/ p # k
      PROVE  at'[j][p] = at[j][p] /\ job'[j][p] = job[j][p]
  BY <1>4 DEF NextDb, TypeOK
<1>5. ASSUME at' = at, \E o \in Jobs : job' = [job EXCEPT ![i][k] = o],
             NEW j \in Instances, NEW p \in Periods, j # i \/ p # k
      PROVE  at'[j][p] = at[j][p] /\ job'[j][p] = job[j][p]
  BY <1>5 DEF TypeOK
<1>6. NextDb(i, k) \/ (at' = at /\ \E o \in Jobs : job' = [job EXCEPT ![i][k] = o])
  BY DEF Step, Claim, BodyEnds, Finish, ClaimFails, FinishFails, Jobs
<1> QED BY <1>2, <1>3, <1>4, <1>5, <1>6

\* A clock never goes back.
LEMMA ClockGrows ==
  ASSUME TypeOK, Claimed, [Next]_vars, NEW j \in Instances
  PROVE  clock[j] \in Nat /\ clock'[j] \in Nat /\ clock[j] <= clock'[j]
<1>0. clock[j] \in Nat
  BY CronAssumption DEF TypeOK
<1>1. ASSUME NEW i \in Instances, Fire(i)
      PROVE  clock'[j] = IF j = i THEN clock[j] + 1 ELSE clock[j]
  BY <1>1 DEF Fire, TypeOK
<1>2. ASSUME NEW i \in Instances, Crash(i) PROVE clock'[j] = clock[j]
  BY <1>2 DEF Crash
<1>3. ASSUME NEW i \in Instances, NEW k \in Periods,
             Step(i, k) \/ ClaimFails(i, k) \/ FinishFails(i, k)
      PROVE  clock'[j] = clock[j]
  BY <1>3, StepFrame
<1>4. CASE UNCHANGED vars
  BY <1>0, <1>4 DEF vars
<1>5. CASE Next
  <2>1. clock'[j] = clock[j] \/ clock'[j] = clock[j] + 1
    BY <1>1, <1>2, <1>3, <1>5 DEF Next
  <2> QED BY <1>0, <2>1
<1> QED BY <1>4, <1>5

\* A firing that is over does not come back, unless it is the next one to fire.
LEMMA OverStays ==
  ASSUME TypeOK, Claimed, [Next]_vars, NEW j \in Instances, NEW p \in Periods,
         at[j][p] = 0, at'[j][p] # 0
  PROVE  Fire(j) /\ p = clock[j] + 1
<1>1. ASSUME NEW i \in Instances, Fire(i), j # i \/ p # clock[i] + 1
      PROVE  at'[j][p] = at[j][p]
  BY <1>1 DEF Fire, TypeOK
<1>2. ASSUME NEW i \in Instances, Crash(i) PROVE at'[j][p] = 0
  <2>1. CASE j = i
    BY <1>2, <2>1 DEF Crash, TypeOK
  <2>2. CASE j # i
    BY <1>2, <2>2 DEF Crash, TypeOK
  <2> QED BY <2>1, <2>2
<1>3. ASSUME NEW i \in Instances, NEW k \in Periods,
             Step(i, k) \/ ClaimFails(i, k) \/ FinishFails(i, k)
      PROVE  at'[j][p] = at[j][p]
  <2>1. at[i][k] # 0
    BY <1>3, StepFrame, CronAssumption DEF Dbs
  <2>2. j # i \/ p # k
    BY <2>1
  <2> QED BY <1>3, <2>2, StepFrame
<1>4. ~ UNCHANGED vars
  BY DEF vars
<1> QED BY <1>1, <1>2, <1>3, <1>4 DEF Next

\* What is past stays past.
LEMMA PastStays ==
  ASSUME TypeOK, Claimed, [Next]_vars, NEW p \in Periods, Past(p)
  PROVE  Past(p)'
<1> SUFFICES ASSUME NEW j \in Instances PROVE p <= clock'[j] /\ at'[j][p] = 0
  BY DEF Past
<1>1. p <= clock[j] /\ at[j][p] = 0 /\ p \in Nat
  BY DEF Past, Periods
<1>2. p <= clock'[j] /\ p # clock[j] + 1
  BY <1>1, ClockGrows
<1> QED BY <1>1, <1>2, OverStays

LEMMA LagStep == IInv /\ [Next]_vars => Lag'
<1> SUFFICES ASSUME IInv, [Next]_vars, NEW j \in Instances, NEW q \in Periods, at'[j][q] # 0
             PROVE  q <= clock'[j] /\ \A p \in Periods : p + MaxLag < q => Past(p)'
  BY DEF Lag
<1> USE DEF IInv
<1>0. clock[j] \in Nat /\ clock'[j] \in Nat /\ clock[j] <= clock'[j] /\ q \in Nat
  BY ClockGrows DEF Periods
<1>1. CASE at[j][q] # 0
  BY <1>0, <1>1, PastStays DEF Lag
<1>2. CASE at[j][q] = 0
  <2>1. Fire(j) /\ q = clock[j] + 1
    BY <1>2, OverStays
  <2>2. clock'[j] = q /\ Timely(q)
    BY <2>1 DEF Fire, TypeOK
  <2>3. ASSUME NEW p \in Periods, p + MaxLag < q PROVE Past(p)
    <3> SUFFICES ASSUME NEW l \in Instances PROVE p <= clock[l] /\ at[l][p] = 0
      BY DEF Past
    <3>1. p \in Nat /\ clock[l] \in Nat /\ MaxLag \in Nat
      BY CronAssumption DEF TypeOK, Periods
    <3>2. q <= clock[l] + 1 + MaxLag /\ (at[l][p] # 0 => q <= p + MaxLag)
      BY <2>2 DEF Timely
    <3> QED BY <1>0, <2>3, <3>1, <3>2
  <2> QED BY <1>0, <2>2, <2>3, PastStays
<1> QED BY <1>1, <1>2

\* A claim that is won was never won before.
LEMMA FirstClaim ==
  ASSUME IInv, NEW i \in Instances, NEW k \in Periods, Claim(i, k), ~ Taken(at[i][k], k)
  PROVE  started[at[i][k]][k] = 0
<1>1. at[i][k] \in Dbs /\ ~ Past(k)
  BY CronAssumption DEF IInv, TypeOK, Claim, Past, Dbs
<1>2. /\ started[at[i][k]][k] <= 1
      /\ ~ (started[at[i][k]][k] = 1 /\ runs[at[i][k]][k] = "none")
  BY <1>1 DEF IInv, Once
<1>3. runs[at[i][k]][k] = "none" /\ started[at[i][k]][k] \in Nat
  BY <1>1 DEF IInv, TypeOK, Taken
<1> QED BY <1>2, <1>3

LEMMA OnceStep == IInv /\ [Next]_vars => Once'
<1> SUFFICES ASSUME IInv, [Next]_vars, NEW d \in Dbs, NEW p \in Periods
             PROVE  /\ started'[d][p] <= 1
                    /\ started'[d][p] = 1 /\ runs'[d][p] = "none" => Past(p)'
  BY DEF Once
<1> USE DEF IInv
<1>0. /\ started[d][p] <= 1
      /\ started[d][p] = 1 /\ runs[d][p] = "none" => Past(p)'
  BY PastStays DEF Once
<1>1. CASE UNCHANGED vars
  BY <1>0, <1>1 DEF vars
<1>2. ASSUME NEW i \in Instances, Fire(i) \/ Crash(i)
      PROVE  started' = started /\ runs' = runs
  BY <1>2 DEF Fire, Crash
<1>3. ASSUME NEW i \in Instances, NEW k \in Periods, Claim(i, k)
      PROVE  /\ started'[d][p] <= 1
             /\ started'[d][p] = 1 /\ runs'[d][p] = "none" => Past(p)'
  <2>1. at[i][k] \in Dbs
    BY <1>3, CronAssumption DEF Claim, TypeOK, Dbs
  <2>2. CASE d # at[i][k]
    <3>1. runs'[d][p] = runs[d][p] /\ started'[d][p] = started[d][p]
      BY <1>3, <2>1, <2>2 DEF Claim, TypeOK
    <3> QED BY <1>0, <3>1
  <2>3. CASE d = at[i][k]
    <3>1. started'[d][p] = IF p = k /\ ~ Taken(d, k) THEN started[d][p] + 1 ELSE started[d][p]
      BY <1>3, <2>1, <2>3 DEF Claim, TypeOK
    <3>2. started'[d][p] <= 1
      BY <1>0, <1>3, <2>3, <3>1, FirstClaim
    <3>3. runs'[d][p] = IF Purged(p, k) THEN "none"
                        ELSE IF p = k /\ ~ Taken(d, k) THEN "open" ELSE runs[d][p]
      BY <1>3, <2>1, <2>3 DEF Claim, TypeOK
    <3>4. CASE Purged(p, k)
      <4>1. p + MaxLag < k
        BY <3>4, CronAssumption, TimelyAssumption DEF Purged, Periods
      <4>2. Past(p)
        BY <1>3, <4>1 DEF Lag, Claim
      <4> QED BY <3>2, <4>2, PastStays
    <3>5. CASE ~ Purged(p, k)
      BY <1>0, <3>1, <3>2, <3>3, <3>5
    <3> QED BY <3>4, <3>5
  <2> QED BY <2>2, <2>3
<1>4. ASSUME NEW i \in Instances, NEW k \in Periods, Finish(i, k)
      PROVE  started' = started /\ (runs'[d][p] = "none" => runs[d][p] = "none")
  <2>1. at[i][k] \in Dbs
    BY <1>4, StepFrame DEF Step
  <2>2. CASE d = at[i][k] /\ p = k
    <3>1. runs[d][p] # "none" => runs'[d][p] # "none"
      BY <1>4, <2>1, <2>2 DEF Finish, TypeOK
    <3> QED BY <1>4, <3>1 DEF Finish
  <2>3. CASE ~ (d = at[i][k] /\ p = k)
    <3>1. runs'[d][p] = runs[d][p]
      BY <1>4, <2>1, <2>3 DEF Finish, TypeOK
    <3> QED BY <1>4, <3>1 DEF Finish
  <2> QED BY <2>2, <2>3
<1>5. ASSUME NEW i \in Instances, NEW k \in Periods,
             BodyEnds(i, k) \/ ClaimFails(i, k) \/ FinishFails(i, k)
      PROVE  started' = started /\ runs' = runs
  BY <1>5 DEF BodyEnds, ClaimFails, FinishFails
<1> QED BY <1>0, <1>1, <1>2, <1>3, <1>4, <1>5 DEF Next, Step

\* An unended body keeps its claim: the row is not purged, because the period is
\* not past, and not closed or taken again, because nobody else holds it.
LEMMA ClaimedStep == IInv /\ [Next]_vars => Claimed'
<1> SUFFICES ASSUME IInv, [Next]_vars, NEW j \in Instances, NEW p \in Periods,
                    job'[j][p] # "claim"
             PROVE  /\ at'[j][p] # 0
                    /\ runs'[at'[j][p]][p] = "open"
                    /\ \A l \in Instances : l # j /\ at'[l][p] = at'[j][p] => job'[l][p] = "claim"
  BY DEF Claimed
<1> USE DEF IInv
<1> DEFINE d == at[j][p]
\* A held claim stays held if the row stays open and no other firing takes it.
<1>0. ASSUME job[j][p] # "claim", at'[j][p] = d, runs'[d][p] = runs[d][p] \/ runs'[d][p] = "open",
             \A l \in Instances : l # j => \/ job'[l][p] = "claim"
                                           \/ job'[l][p] = job[l][p] /\ at'[l][p] = at[l][p]
      PROVE  /\ at'[j][p] # 0
             /\ runs'[at'[j][p]][p] = "open"
             /\ \A l \in Instances : l # j /\ at'[l][p] = at'[j][p] => job'[l][p] = "claim"
  BY <1>0 DEF Claimed
<1>1. CASE UNCHANGED vars
  BY <1>0, <1>1 DEF vars
<1>2. ASSUME NEW i \in Instances, Fire(i)
      PROVE  /\ at'[j][p] # 0
             /\ runs'[at'[j][p]][p] = "open"
             /\ \A l \in Instances : l # j /\ at'[l][p] = at'[j][p] => job'[l][p] = "claim"
  <2>1. \A l \in Instances : \/ job'[l][p] = "claim"
                             \/ job'[l][p] = job[l][p] /\ at'[l][p] = at[l][p]
    BY <1>2 DEF Fire, TypeOK
  <2>2. runs' = runs
    BY <1>2 DEF Fire
  <2> QED BY <1>0, <2>1, <2>2
<1>3. ASSUME NEW i \in Instances, Crash(i)
      PROVE  /\ at'[j][p] # 0
             /\ runs'[at'[j][p]][p] = "open"
             /\ \A l \in Instances : l # j /\ at'[l][p] = at'[j][p] => job'[l][p] = "claim"
  <2>1. \A l \in Instances : \/ job'[l][p] = "claim"
                             \/ job'[l][p] = job[l][p] /\ at'[l][p] = at[l][p]
    BY <1>3 DEF Crash, TypeOK
  <2>2. runs' = runs
    BY <1>3 DEF Crash
  <2> QED BY <1>0, <2>1, <2>2
<1>4. ASSUME NEW i \in Instances, NEW k \in Periods,
             Step(i, k) \/ ClaimFails(i, k) \/ FinishFails(i, k)
      PROVE  /\ at'[j][p] # 0
             /\ runs'[at'[j][p]][p] = "open"
             /\ \A l \in Instances : l # j /\ at'[l][p] = at'[j][p] => job'[l][p] = "claim"
  <2> DEFINE e == at[i][k]
             Won == Claim(i, k) /\ ~ Taken(e, k)
  <2>0. e \in Dbs /\ \A l \in Instances, q \in Periods :
                        l # i \/ q # k => at'[l][q] = at[l][q] /\ job'[l][q] = job[l][q]
    BY <1>4, StepFrame
  <2>1. ASSUME NextDb(i, k) PROVE job'[i][k] = "claim"
    BY <2>1 DEF NextDb, TypeOK
  <2>2. \/ job'[i][k] = "claim"
        \/ Won /\ at' = at
        \/ BodyEnds(i, k) /\ at' = at /\ runs' = runs /\ job[i][k] = "body"
    BY <1>4, <2>1 DEF Step, Claim, BodyEnds, Finish, ClaimFails, FinishFails
  <2>3. CASE j = i /\ p = k
    <3>1. CASE Won /\ at' = at
      <4>1. runs[e][k] = "none" /\ runs'[e][k] = "open"
        <5>1. k \in Nat /\ Retention \in Nat
          BY CronAssumption DEF Periods
        <5>2. ~ Purged(k, k)
          BY <5>1 DEF Purged
        <5> QED BY <2>0, <3>1, <5>2 DEF Claim, Taken, TypeOK
      <4>2. \A l \in Instances : l # i /\ at[l][k] = e => job[l][k] = "claim"
        BY <4>1 DEF Claimed
      <4> QED BY <2>0, <2>3, <3>1, <4>1, <4>2 DEF Dbs
    <3>2. CASE BodyEnds(i, k) /\ at' = at /\ runs' = runs /\ job[i][k] = "body"
      BY <1>0, <2>0, <2>3, <3>2
    <3> QED BY <2>2, <2>3, <3>1, <3>2
  <2>4. CASE ~ (j = i /\ p = k)
    <3>1. at'[j][p] = d /\ job[j][p] # "claim"
      BY <2>0, <2>4
    <3>2. d # 0 /\ runs[d][p] = "open" /\ ~ Past(p)
          /\ \A l \in Instances : l # j /\ at[l][p] = d => job[l][p] = "claim"
      BY <3>1 DEF Claimed, Past
    <3>3. d \in Dbs
      BY <3>2, CronAssumption DEF TypeOK, Dbs
    <3>4. runs'[d][p] = runs[d][p] \/ runs'[d][p] = "open"
      <4>1. CASE Claim(i, k)
        <5>1. runs'[d][p] = IF d # e THEN runs[d][p]
                            ELSE IF Purged(p, k) THEN "none"
                            ELSE IF p = k /\ ~ Taken(e, k) THEN "open" ELSE runs[d][p]
          BY <2>0, <3>3, <4>1 DEF Claim, TypeOK
        <5>2. ~ Purged(p, k)
          <6>1. ~ (p + MaxLag < k)
            BY <2>0, <3>2, CronAssumption DEF Lag, Dbs
          <6> QED BY <6>1, CronAssumption, TimelyAssumption DEF Purged, Periods
        <5> QED BY <5>1, <5>2
      <4>2. CASE Finish(i, k)
        <5>1. ~ (d = e /\ p = k)
          BY <2>4, <3>2, <4>2 DEF Finish
        <5> QED BY <2>0, <3>3, <4>2, <5>1 DEF Finish, TypeOK
      <4>3. CASE BodyEnds(i, k) \/ ClaimFails(i, k) \/ FinishFails(i, k)
        BY <4>3 DEF BodyEnds, ClaimFails, FinishFails
      <4> QED BY <1>4, <4>1, <4>2, <4>3 DEF Step
    <3>5. ASSUME NEW l \in Instances, l # j
          PROVE  \/ job'[l][p] = "claim"
                 \/ job'[l][p] = job[l][p] /\ at'[l][p] = at[l][p]
                 \/ at'[l][p] # d
      <4>1. CASE l = i /\ p = k
        BY <2>2, <3>2, <3>5, <4>1 DEF Taken
      <4> QED BY <2>0, <4>1
    <3> QED BY <3>1, <3>2, <3>4, <3>5
  <2> QED BY <2>3, <2>4
<1> QED BY <1>1, <1>2, <1>3, <1>4 DEF Next

LEMMA InvStep == IInv /\ [Next]_vars => IInv'
<1>1. Claimed => Working
  BY DEF Claimed, Working
<1> QED BY <1>1, TypeStep, LagStep, OnceStep, ClaimedStep DEF IInv

-----------------------------------------------------------------------------
(* Theorems *)

\* The inductive invariant holds in every behaviour.
THEOREM Invariance == Spec => []IInv
BY InvInit, InvStep, PTL DEF Spec

\* Type correctness of cron_runs and of every firing.
THEOREM TypeCorrect == Spec => []TypeOK
<1>1. IInv => TypeOK
  BY DEF IInv
<1> QED BY <1>1, Invariance, PTL

\* At most once: a period's body starts at most once in each database, for any
\* number of instances, databases and periods, and whatever is purged.
THEOREM RunsAtMostOnce == Spec => []AtMostOnce
<1>1. IInv => AtMostOnce
  BY DEF IInv, Once, AtMostOnce
<1> QED BY <1>1, Invariance, PTL

\* A period whose row records an end has no body still running.
THEOREM LogNeverLies == Spec => []LogIsTrue
<1>1. IInv => LogIsTrue
  BY DEF IInv, Claimed, LogIsTrue, Outcomes
<1> QED BY <1>1, Invariance, PTL
=============================================================================
