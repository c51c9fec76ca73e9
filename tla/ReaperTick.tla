----------------------------- MODULE ReaperTick -----------------------------
(***************************************************************************)
(* The reaper's tick with its batch limits: it gives back one batch of     *)
(* stale running rows and dispatches them, then sweeps one batch, oldest   *)
(* first, of the pending rows that nobody claimed.  The sweep is what      *)
(* repairs every failed dispatch, of the API, the scheduler or itself.     *)
(* (src/internal/reaper/reaper.go, src/internal/storage/jobs)              *)
(***************************************************************************)
EXTENDS Naturals, FiniteSets, Sequences

CONSTANTS
  JobCount,      \* jobs 1..JobCount, numbered by created_at
  Unroutable,    \* those whose queue_name StreamFor does not know
  SweepBatch,    \* batchSize
  MaxCopies,     \* bound: entries of a job in its stream
  MaxTickFaults  \* bound: failed XADDs, lost entries and workers that die

TickJobs == 1..JobCount

ASSUME ReaperAssumption ==
  /\ {JobCount, SweepBatch, MaxCopies} \subseteq Nat \ {0} /\ MaxTickFaults \in Nat
  /\ Unroutable \subseteq TickJobs

VARIABLES
  row,        \* absent, pending, running, stale (its worker is dead) or over
  old,        \* the jobs created before the sweep's cutoff
  copies,     \* entries of each job in its stream
  tickAt,     \* where the tick is: idle, reclaim or sweep
  todo,       \* the rows the tick still has to dispatch, in order
  reclaimed,  \* the map of the same name
  sent,       \* history: how often this tick has sent each job
  tickFaults  \* history: faults so far

tickVars == <<row, old, copies, tickAt, todo, reclaimed, sent, tickFaults>>

TickTypeOK ==
  /\ row \in [TickJobs -> {"absent", "pending", "running", "stale", "over"}]
  /\ old \subseteq TickJobs
  /\ copies \in [TickJobs -> 0..MaxCopies]
  /\ tickAt \in {"idle", "reclaim", "sweep"}
  /\ todo \in Seq(TickJobs) /\ Len(todo) <= SweepBatch
  /\ reclaimed \subseteq TickJobs
  /\ sent \in [TickJobs -> Nat]
  /\ tickFaults \in 0..MaxTickFaults

TickInit ==
  /\ row = [j \in TickJobs |-> "absent"] /\ old = {}
  /\ copies = [j \in TickJobs |-> 0]
  /\ tickAt = "idle" /\ todo = <<>> /\ reclaimed = {}
  /\ sent = [j \in TickJobs |-> 0] /\ tickFaults = 0

\* XADD and its failure; a copy beyond MaxCopies makes no difference.
Sends(j) ==
  \/ /\ copies' = [copies EXCEPT ![j] = IF @ < MaxCopies THEN @ + 1 ELSE @]
     /\ UNCHANGED tickFaults
  \/ /\ tickFaults < MaxTickFaults /\ tickFaults' = tickFaults + 1
     /\ UNCHANGED copies

-----------------------------------------------------------------------------
\* The enqueue handler stores a job under any queue name and sends it if it
\* can; a retry that comes due does the same to a row.
Create(j) ==
  /\ row[j] = "absent"
  /\ row' = [row EXCEPT ![j] = "pending"]
  /\ IF j \in Unroutable THEN UNCHANGED <<copies, tickFaults>> ELSE Sends(j)
  /\ UNCHANGED <<old, tickAt, todo, reclaimed, sent>>

\* created_at falls behind the cutoff; in the order of creation.
AgesPastCutoff(j) ==
  /\ row[j] # "absent" /\ j \notin old
  /\ \A i \in TickJobs : i < j /\ row[i] # "absent" => i \in old
  /\ old' = old \union {j}
  /\ UNCHANGED <<row, copies, tickAt, todo, reclaimed, sent, tickFaults>>

\* S in order of age, the first n of it.
Oldest(S, n) ==
  LET first == {j \in S : Cardinality({i \in S : i < j}) < n}
  IN  [k \in 1..Cardinality(first) |->
         CHOOSE j \in first : Cardinality({i \in first : i < j}) = k - 1]

\* ClaimStaleRunning: a batch of stale rows is pending again.
Reclaim ==
  /\ tickAt = "idle"
  /\ \E S \in SUBSET {j \in TickJobs : row[j] = "stale"} :
       /\ Cardinality(S) <= SweepBatch
       /\ Cardinality(S) < SweepBatch => \A j \in TickJobs \ S : row[j] # "stale"
       /\ row' = [j \in TickJobs |-> IF j \in S THEN "pending" ELSE row[j]]
       /\ reclaimed' = S
       /\ todo' = Oldest(S, SweepBatch)
  /\ tickAt' = "reclaim"
  /\ sent' = [j \in TickJobs |-> 0]
  /\ UNCHANGED <<old, copies, tickFaults>>

\* Mutant: rows reclaimed in this tick are swept as well
SkipsNone(j) == FALSE

\* What this tick has reclaimed its sweep passes over.
Skipped(j) == tickAt = "sweep" /\ j \in reclaimed

\* The next row of the list, by dispatch; a queue it does not know is skipped.
Dispatch ==
  /\ todo # <<>>
  /\ todo' = Tail(todo)
  /\ LET j == Head(todo) IN
       IF j \in Unroutable \/ Skipped(j)
         THEN UNCHANGED <<copies, sent, tickFaults>>
         ELSE Sends(j) /\ sent' = [sent EXCEPT ![j] = @ + 1]
  /\ UNCHANGED <<row, old, tickAt, reclaimed>>

Swept == {j \in old : row[j] = "pending"}

\* Mutant: the comparison with the cutoff is reversed
SweepFresh ==
  /\ tickAt = "reclaim" /\ todo = <<>>
  /\ todo' = Oldest({j \in TickJobs : row[j] = "pending"} \ old, SweepBatch)
  /\ tickAt' = "sweep"
  /\ UNCHANGED <<row, old, copies, reclaimed, sent, tickFaults>>

\* ListStalePending, LIMIT included
Sweep ==
  /\ tickAt = "reclaim" /\ todo = <<>>
  /\ todo' = Oldest(Swept, SweepBatch)
  /\ tickAt' = "sweep"
  /\ UNCHANGED <<row, old, copies, reclaimed, sent, tickFaults>>

TickEnds ==
  /\ tickAt = "sweep" /\ todo = <<>>
  /\ tickAt' = "idle" /\ reclaimed' = {}
  /\ sent' = [j \in TickJobs |-> 0]
  /\ UNCHANGED <<row, old, copies, todo, tickFaults>>

\* A database error or the end of the process: the tick stops where it is.
TickFails ==
  /\ tickAt # "idle" /\ tickFaults < MaxTickFaults
  /\ tickFaults' = tickFaults + 1
  /\ tickAt' = "idle" /\ todo' = <<>> /\ reclaimed' = {}
  /\ sent' = [j \in TickJobs |-> 0]
  /\ UNCHANGED <<row, old, copies>>

-----------------------------------------------------------------------------
\* A worker receives an entry: a pending row is claimed, for any other the
\* entry is acked.
Receives(j) ==
  /\ copies[j] > 0
  /\ copies' = [copies EXCEPT ![j] = @ - 1]
  /\ row' = [row EXCEPT ![j] = IF @ = "pending" THEN "running" ELSE @]
  /\ UNCHANGED <<old, tickAt, todo, reclaimed, sent, tickFaults>>

Finishes(j) ==
  /\ row[j] = "running"
  /\ row' = [row EXCEPT ![j] = "over"]
  /\ UNCHANGED <<old, copies, tickAt, todo, reclaimed, sent, tickFaults>>

WorkerDies(j) ==
  /\ row[j] = "running" /\ tickFaults < MaxTickFaults
  /\ row' = [row EXCEPT ![j] = "stale"]
  /\ tickFaults' = tickFaults + 1
  /\ UNCHANGED <<old, copies, tickAt, todo, reclaimed, sent>>

\* Redis loses entries.
Loses(j) ==
  /\ copies[j] > 0 /\ tickFaults < MaxTickFaults
  /\ copies' = [copies EXCEPT ![j] = 0]
  /\ tickFaults' = tickFaults + 1
  /\ UNCHANGED <<row, old, tickAt, todo, reclaimed, sent>>

\* The owner cancels a job that has not started.
Cancel(j) ==
  /\ row[j] = "pending"
  /\ row' = [row EXCEPT ![j] = "over"]
  /\ UNCHANGED <<old, copies, tickAt, todo, reclaimed, sent, tickFaults>>

TickNext ==
  \/ \E j \in TickJobs : Create(j) \/ AgesPastCutoff(j) \/ Receives(j) \/ Finishes(j) \/ WorkerDies(j) \/ Loses(j) \/ Cancel(j)
  \/ Reclaim \/ Dispatch \/ Sweep \/ TickEnds \/ TickFails

\* Time passes, the reaper ticks, workers take what is in the streams and
\* finish; faults are few.  Nobody has to create or cancel anything.
TickFairness ==
  /\ WF_tickVars(Reclaim) /\ WF_tickVars(Dispatch) /\ WF_tickVars(Sweep) /\ WF_tickVars(TickEnds)
  /\ \A j \in TickJobs : WF_tickVars(AgesPastCutoff(j)) /\ WF_tickVars(Receives(j)) /\ WF_tickVars(Finishes(j))

TickSpec == TickInit /\ [][TickNext]_tickVars /\ TickFairness

-----------------------------------------------------------------------------
\* One tick sends a job at most once: what it gives back in its first half it
\* does not sweep in the second (Tick's map of reclaimed jobs).
OncePerTick == \A j \in TickJobs : sent[j] <= 1

\* NewEnqueueHandler's comment: "On XADD failure the PG row stays pending and
\* the stale-pending sweeper re-XADDs it".  Every job with a queue comes to an
\* end, whatever dispatches, entries and workers are lost on the way.
EveryRowIsSwept == \A j \in TickJobs \ Unroutable : row[j] = "pending" ~> row[j] = "over"
=============================================================================
