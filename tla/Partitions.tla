----------------------------- MODULE Partitions -----------------------------
(***************************************************************************)
(* Monthly partitions and retention: the cycles of the schedulers          *)
(* (Maintain), which make the partitions of this month and the next ones   *)
(* and then purge old rows, next to the inserts whose rows go to the       *)
(* partition of their month or, where there is none, to DEFAULT.  Months   *)
(* are counted from the present one, 0; time goes on for ever.             *)
(* (src/internal/scheduler/retention.go, storage/jobs/jobs_retention.go)   *)
(***************************************************************************)
EXTENDS Integers, FiniteSets

CONSTANTS
  Jobs,        \* the jobs whose rows are followed
  Schedulers,  \* scheduler processes
  Ahead,       \* PartitionsAhead
  Horizon,     \* bound: how far ahead a partition may lie
  Bootstrapped, \* the months the migrations made partitions of
  Batch,       \* rows purged per cycle
  MaxLag,      \* assumption: a cycle is run to its end once in so many months
  MaxCycleFaults \* bound: database errors and deaths of schedulers

ASSUME PartitionAssumption ==
  /\ Ahead \in Nat /\ Horizon \in Nat /\ Ahead <= Horizon
  /\ Bootstrapped \subseteq 0..Horizon
  /\ Batch \in Nat \ {0} /\ MaxLag \in Nat /\ MaxCycleFaults \in Nat

VARIABLES
  parts, eparts,  \* months that have a partition of jobs, of job_events
  dflt, edflt,    \* months with rows in the DEFAULT of jobs, of job_events
  jobRows,  \* absent, live, done, old (past retention) or purged
  cycle,          \* per scheduler: its step, the month of its clock, its index
  lag,            \* months since the clock of the last cycle run to its end
  cycleFaults

partVars == <<parts, eparts, dflt, edflt, jobRows, cycle, lag, cycleFaults>>

Idle == [at |-> "idle", base |-> 0, i |-> 0]
CycleSteps == {"jobs", "events", "purge"}

PartTypeOK ==
  /\ parts \subseteq -1..Horizon /\ eparts \subseteq -1..Horizon
  /\ dflt \subseteq -1..0 /\ edflt \subseteq -1..0
  /\ jobRows \in [Jobs -> {"absent", "live", "done", "old", "purged"}]
  /\ cycle \in [Schedulers -> [at : CycleSteps, base : -1..0, i : 0..Ahead] \union {Idle}]
  /\ lag \in 0..MaxLag /\ cycleFaults \in 0..MaxCycleFaults

PartInit ==
  /\ parts = Bootstrapped /\ eparts = Bootstrapped
  /\ dflt = {} /\ edflt = {}
  /\ jobRows = [j \in Jobs |-> "absent"]
  /\ cycle = [s \in Schedulers |-> Idle]
  /\ lag = 0 /\ cycleFaults = 0

-----------------------------------------------------------------------------
\* Rows of this month go to its partition, or to DEFAULT.
RowLands == dflt' = IF 0 \in parts THEN dflt ELSE dflt \union {0}
EventLands == edflt' = IF 0 \in eparts THEN edflt ELSE edflt \union {0}

\* CreateJob inserts a row and an event, of a job that is followed or another.
Insert(j) ==
  /\ jobRows[j] = "absent" /\ jobRows' = [jobRows EXCEPT ![j] = "live"]
  /\ RowLands /\ EventLands
  /\ UNCHANGED <<parts, eparts, cycle, lag, cycleFaults>>

InsertOther ==
  /\ RowLands /\ EventLands
  /\ UNCHANGED <<parts, eparts, jobRows, cycle, lag, cycleFaults>>

\* Complete or CancelJob: the row stays where it is, the event is new.
Settle(j) ==
  /\ jobRows[j] = "live" /\ jobRows' = [jobRows EXCEPT ![j] = "done"]
  /\ EventLands
  /\ UNCHANGED <<parts, eparts, dflt, cycle, lag, cycleFaults>>

\* The retention passes.
Ages(j) ==
  /\ jobRows[j] = "done" /\ jobRows' = [jobRows EXCEPT ![j] = "old"]
  /\ UNCHANGED <<parts, eparts, dflt, edflt, cycle, lag, cycleFaults>>

\* What a set of months is when the month has ended; what is two months ago
\* matters no more.
Shift(months) == {m \in -1..Horizon : m + 1 \in months}

\* A month ends; a cycle in progress, with the clock it read, outlasts one end.
NextMonth ==
  /\ lag < MaxLag /\ \A s \in Schedulers : cycle[s].base = 0
  /\ parts' = Shift(parts) /\ eparts' = Shift(eparts)
  /\ dflt' = Shift(dflt) /\ edflt' = Shift(edflt)
  /\ cycle' = [s \in Schedulers |->
                 IF cycle[s].at = "idle" THEN cycle[s] ELSE [at |-> cycle[s].at, base |-> -1, i |-> cycle[s].i]]
  /\ lag' = lag + 1
  /\ UNCHANGED <<jobRows, cycleFaults>>

-----------------------------------------------------------------------------
CycleGoes(s, c) == cycle' = [cycle EXCEPT ![s] = c]
Pos(s) == cycle[s].base + cycle[s].i

\* The retention ticker of a scheduler
Tick(s) ==
  /\ cycle[s].at = "idle"
  /\ CycleGoes(s, [at |-> "jobs", base |-> 0, i |-> 0])
  /\ UNCHANGED <<parts, eparts, dflt, edflt, jobRows, lag, cycleFaults>>

\* Mutant: the loop stops one month early
NextIndexShort(s) ==
  IF cycle[s].i + 1 < Ahead
  THEN [at |-> "jobs", base |-> cycle[s].base, i |-> cycle[s].i + 1]
  ELSE [at |-> "purge", base |-> cycle[s].base, i |-> cycle[s].i]

\* EnsureMonthlyPartitions' loop, and the purge after it
NextIndex(s) ==
  IF cycle[s].i < Ahead
  THEN [at |-> "jobs", base |-> cycle[s].base, i |-> cycle[s].i + 1]
  ELSE [at |-> "purge", base |-> cycle[s].base, i |-> cycle[s].i]

\* The cycle has run to its end: Maintain returned, with or without the error
\* of a partition that cannot be made.
Ended(s) ==
  /\ CycleGoes(s, Idle)
  /\ lag' = IF -cycle[s].base < lag THEN -cycle[s].base ELSE lag

\* CREATE TABLE IF NOT EXISTS ... PARTITION OF jobs
EnsureJobs(s) ==
  /\ cycle[s].at = "jobs"
  /\ Pos(s) \in parts \/ Pos(s) \notin dflt
  /\ parts' = parts \union {Pos(s)}
  /\ CycleGoes(s, [at |-> "events", base |-> cycle[s].base, i |-> cycle[s].i])
  /\ UNCHANGED <<eparts, dflt, edflt, jobRows, lag, cycleFaults>>

\* ... PARTITION OF job_events
EnsureEvents(s) ==
  /\ cycle[s].at = "events"
  /\ Pos(s) \in eparts \/ Pos(s) \notin edflt
  /\ eparts' = eparts \union {Pos(s)}
  /\ CycleGoes(s, NextIndex(s))
  /\ UNCHANGED <<parts, dflt, edflt, jobRows, lag, cycleFaults>>

\* A month that has rows in DEFAULT can get no partition: PostgreSQL refuses,
\* EnsureMonthlyPartitions returns the error and Maintain returns with it.
EnsureFails(s) ==
  /\ \/ cycle[s].at = "jobs" /\ Pos(s) \in dflt \ parts
     \/ cycle[s].at = "events" /\ Pos(s) \in edflt \ eparts
  /\ Ended(s)
  /\ UNCHANGED <<parts, eparts, dflt, edflt, jobRows, cycleFaults>>

Old == {j \in Jobs : jobRows[j] = "old"}

\* Mutant: a full batch is one row short
BatchesShort ==
  {D \in SUBSET Old : Cardinality(D) = IF Cardinality(Old) < Batch THEN Cardinality(Old) ELSE Batch - 1}

\* DeleteOldJobs takes a batch.
Batches ==
  {D \in SUBSET Old : Cardinality(D) = IF Cardinality(Old) < Batch THEN Cardinality(Old) ELSE Batch}

\* DeleteOldJobs; it may have taken the last row of a month in DEFAULT.  It
\* takes no job_events.
Purge(s) ==
  /\ cycle[s].at = "purge"
  /\ \E D \in Batches : jobRows' = [j \in Jobs |-> IF j \in D THEN "purged" ELSE jobRows[j]]
  /\ \E left \in SUBSET dflt : dflt' = left
  /\ Ended(s)
  /\ UNCHANGED <<parts, eparts, edflt, cycleFaults>>

\* A database error ends the cycle, or the scheduler dies and is restarted.
CycleFails(s) ==
  /\ cycle[s].at # "idle"
  /\ cycleFaults < MaxCycleFaults /\ cycleFaults' = cycleFaults + 1
  /\ CycleGoes(s, Idle)
  /\ UNCHANGED <<parts, eparts, dflt, edflt, jobRows, lag>>

PartNext ==
  \/ InsertOther \/ NextMonth
  \/ \E j \in Jobs : Insert(j) \/ Settle(j) \/ Ages(j)
  \/ \E s \in Schedulers :
       Tick(s) \/ EnsureJobs(s) \/ EnsureEvents(s) \/ EnsureFails(s) \/ Purge(s) \/ CycleFails(s)

PartSafe == PartInit /\ [][PartNext]_partVars

\* Months end, the retention ticker ticks and cycles go on; clients and workers
\* need do nothing.
PartFairness ==
  /\ WF_partVars(NextMonth)
  /\ \A s \in Schedulers :
       /\ WF_partVars(Tick(s)) /\ WF_partVars(EnsureJobs(s)) /\ WF_partVars(EnsureEvents(s))
       /\ WF_partVars(EnsureFails(s)) /\ WF_partVars(Purge(s))

PartSpec == PartSafe /\ PartFairness

-----------------------------------------------------------------------------
\* Where the migrations' partitions reach as far ahead as a cycle's, and a
\* cycle runs to its end once in that time, no row of either table ever lands
\* in DEFAULT (EnsureMonthlyPartitions' comment: "this is what keeps inserts
\* from landing in the DEFAULT partition").
DefaultStaysEmpty == dflt = {} /\ edflt = {}

\* Every terminal row past its retention is purged in the end (DeleteOldJobs'
\* comment: "a large backlog drains over successive ticks").
OldRowsArePurged == \A j \in Jobs : jobRows[j] = "old" ~> jobRows[j] = "purged"
=============================================================================
