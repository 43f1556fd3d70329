------------------------------ MODULE CronOnce ------------------------------
(***************************************************************************)
(* One @CronOnce job of libs/cron-once in all instances of an app.         *)
(*                                                                         *)
(* When the cron expression fires in an instance, the instance derives the *)
(* scheduled time of the period and goes through the databases of the app  *)
(* one by one: claim the period in cron_runs, run the body if the claim    *)
(* was won, record the outcome.  A job whose body outlasts its period is   *)
(* fired again meanwhile.                                                  *)
(*                                                                         *)
(* Scheduled times are numbered 1, 2, ...; an instance fires each of them  *)
(* once, by its own clock (computePeriodAt absorbs the jitter of a timer). *)
(***************************************************************************)
EXTENDS Naturals, FiniteSets

CONSTANTS
  Instances,   \* tasks of the app
  NumDbs,      \* databases forEachDatabase goes through, in order
  Retention,   \* CRON_RUNS_RETENTION_DAYS, in periods of this job
  \* Bounds of the model, not of the code:
  NumPeriods,  \* scheduled times
  MaxLag,      \* how far a claim may be behind the newest firing
  MaxErrors,   \* cron_runs queries that fail
  MaxCrashes   \* instances that die

Dbs == 1 .. NumDbs
Periods == 1 .. NumPeriods

ASSUME CronAssumption ==
  /\ NumDbs \in Nat /\ NumPeriods \in Nat /\ Retention \in Nat
  /\ MaxLag \in Nat /\ MaxErrors \in Nat /\ MaxCrashes \in Nat

\* A task is never so late that its period is already purged: 7 days.
ASSUME TimelyAssumption == MaxLag <= Retention

VARIABLES
  runs,     \* cron_runs of each database: "none" or the outcome, NULL is "open"
  clock,    \* last scheduled time each instance has fired
  at,       \* database each firing is at, 0 when it is over or did not happen
  job,      \* what it does there
  started,  \* history: bodies started per database and period
  errors, crashes

vars == <<runs, clock, at, job, started, errors, crashes>>

Outcomes == {"ok", "error"}
Jobs == {"claim", "body", "finish ok", "finish error"}

Init ==
  /\ runs = [d \in Dbs |-> [k \in Periods |-> "none"]]
  /\ clock = [i \in Instances |-> 0]
  /\ at = [i \in Instances |-> [k \in Periods |-> 0]]
  /\ job = [i \in Instances |-> [k \in Periods |-> "claim"]]
  /\ started = [d \in Dbs |-> [k \in Periods |-> 0]]
  /\ errors = 0 /\ crashes = 0

\* Firing period k keeps every claim that is still to come within MaxLag.
Timely(k) ==
  \A j \in Instances : /\ k <= clock[j] + 1 + MaxLag
                       /\ \A p \in Periods : at[j][p] # 0 => k <= p + MaxLag

\* onTick: computePeriodAt, then the first database.
Fire(i) ==
  LET k == clock[i] + 1 IN
  /\ k \in Periods
  /\ Timely(k)
  /\ clock' = [clock EXCEPT ![i] = k]
  /\ at' = [at EXCEPT ![i][k] = IF NumDbs = 0 THEN 0 ELSE 1]
  /\ job' = [job EXCEPT ![i][k] = "claim"]
  /\ UNCHANGED <<runs, started, errors, crashes>>

NextDb_NoEnd(i, k) ==
  /\ at' = [at EXCEPT ![i][k] = @ + 1]
  /\ job' = [job EXCEPT ![i][k] = "claim"]

NextDb_StopsEarly(i, k) ==
  /\ at' = [at EXCEPT ![i][k] = 0]
  /\ job' = [job EXCEPT ![i][k] = "claim"]

\* forEachDatabase goes on with the next database, whatever happened in this one.
NextDb(i, k) ==
  /\ at' = [at EXCEPT ![i][k] = IF @ = NumDbs THEN 0 ELSE @ + 1]
  /\ job' = [job EXCEPT ![i][k] = "claim"]

\* period_at < periodAt - retention, for the rows of this job.
Purged(p, k) == p + Retention < k

Taken_WhileOpen(d, k) == runs[d][k] = "open"
Taken(d, k) == runs[d][k] # "none"

\* One statement: purge, and INSERT ... ON CONFLICT DO NOTHING RETURNING.
Claim(i, k) ==
  LET d == at[i][k] IN
  /\ d # 0 /\ job[i][k] = "claim"
  /\ runs' = [runs EXCEPT ![d] =
               [p \in Periods |-> IF Purged(p, k) THEN "none"
                                  ELSE IF p = k /\ ~ Taken(d, k) THEN "open" ELSE @[p]]]
  /\ IF Taken(d, k)
     THEN NextDb(i, k) /\ UNCHANGED started
     ELSE /\ job' = [job EXCEPT ![i][k] = "body"]
          /\ started' = [started EXCEPT ![d][k] = @ + 1]
          /\ UNCHANGED at
  /\ UNCHANGED <<clock, errors, crashes>>

\* The claim throws: the body is skipped.
ClaimFails(i, k) ==
  /\ at[i][k] # 0 /\ job[i][k] = "claim"
  /\ errors < MaxErrors
  /\ errors' = errors + 1
  /\ NextDb(i, k)
  /\ UNCHANGED <<runs, clock, started, crashes>>

BodyEnds(i, k) ==
  /\ job[i][k] = "body"
  /\ \E o \in {"finish ok", "finish error"} : job' = [job EXCEPT ![i][k] = o]
  /\ UNCHANGED <<runs, clock, at, started, errors, crashes>>

\* UPDATE ... WHERE name and period_at: nothing when the row is purged.
Finish(i, k) ==
  /\ job[i][k] \in {"finish ok", "finish error"}
  /\ runs' = [runs EXCEPT ![at[i][k]][k] =
               IF @ = "none" THEN @ ELSE IF job[i][k] = "finish ok" THEN "ok" ELSE "error"]
  /\ NextDb(i, k)
  /\ UNCHANGED <<clock, started, errors, crashes>>

FinishFails(i, k) ==
  /\ job[i][k] \in {"finish ok", "finish error"}
  /\ errors < MaxErrors
  /\ errors' = errors + 1
  /\ NextDb(i, k)
  /\ UNCHANGED <<runs, clock, started, crashes>>

\* The task dies or is replaced by a deployment, with all it was doing.
Crash(i) ==
  /\ crashes < MaxCrashes
  /\ crashes' = crashes + 1
  /\ at' = [at EXCEPT ![i] = [k \in Periods |-> 0]]
  /\ job' = [job EXCEPT ![i] = [k \in Periods |-> "claim"]]
  /\ UNCHANGED <<runs, clock, started, errors>>

Step(i, k) == Claim(i, k) \/ BodyEnds(i, k) \/ Finish(i, k)

Next ==
  \E i \in Instances :
    \/ Fire(i) \/ Crash(i)
    \/ \E k \in Periods : Step(i, k) \/ ClaimFails(i, k) \/ FinishFails(i, k)

Spec == Init /\ [][Next]_vars

\* Timers fire, and queries and bodies come to an end.
Fairness ==
  \A i \in Instances : WF_vars(Fire(i)) /\ \A k \in Periods : WF_vars(Step(i, k))

LiveSpec == Spec /\ Fairness

-----------------------------------------------------------------------------
(* Properties *)

TypeOK ==
  /\ runs \in [Dbs -> [Periods -> Outcomes \cup {"none", "open"}]]
  /\ clock \in [Instances -> 0 .. NumPeriods]
  /\ at \in [Instances -> [Periods -> 0 .. NumDbs]]
  /\ job \in [Instances -> [Periods -> Jobs]]
  /\ started \in [Dbs -> [Periods -> Nat]]
  /\ errors \in Nat /\ crashes \in Nat

\* The body runs at most once per period and database, however many instances
\* fire, however late, and although old claims are purged (ADR-0036).
AtMostOnce == \A d \in Dbs, k \in Periods : started[d][k] <= 1

\* cron_runs does not lie: a period recorded as ended is not still running.
LogIsTrue ==
  \A i \in Instances, k \in Periods :
    job[i][k] = "body" => runs[at[i][k]][k] \notin Outcomes

\* A failing query in one instance does not cost a period when another one is
\* up: unless an instance dies, every scheduled time runs in every database.
EveryPeriodRuns ==
  <>(crashes > 0 \/ \A d \in Dbs, k \in Periods : started[d][k] > 0)
=============================================================================
