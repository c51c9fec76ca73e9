---------------------------- MODULE LegacyStream ----------------------------
(***************************************************************************)
(* The Redis-only path of the broker: tasks without a row in PostgreSQL,   *)
(* for which the stream entry is the only record.  A failed run appends a  *)
(* copy with the next attempt number, or a copy to the dead-letter stream, *)
(* and then acks the entry it ran: two calls, between which the process    *)
(* may die, and which a second delivery of the same entry repeats.         *)
(* (src/internal/broker/consumer.go, src/internal/worker/worker.go)        *)
(***************************************************************************)
EXTENDS Naturals, FiniteSets, Sequences

CONSTANTS
  Tasks,       \* the tasks clients add
  Malformed,   \* those whose fields FromFields cannot parse
  MaxRetries,  \* maxRetries of consumer.go
  MaxRuns,     \* bound: deliveries, each of which uses up a pool worker
  MaxFaults,   \* bound: crashes and failed Redis calls
  MaxTrims     \* bound: entries trimmed by MAXLEN

ASSUME LegacyAssumption ==
  /\ Malformed \subseteq Tasks
  /\ {MaxRetries, MaxRuns, MaxFaults, MaxTrims} \subseteq Nat

VARIABLES
  stream,     \* the entries XADDed, in order: [task, attempt]; the index is the id
  lastId,     \* the group's last delivered id
  pel,        \* the group's pending entries: delivered and not acked
  trimmed,    \* the ids XADD MAXLEN removed from the stream
  dlq,        \* the entries of the dead-letter stream
  runs,       \* the deliveries, in order: [id, stage]
  completed,  \* the tasks a handler completed
  faults      \* history: the faults so far

legacyVars == <<stream, lastId, pel, trimmed, dlq, runs, completed, faults>>

Entry == [task : Tasks, attempt : 0..MaxRetries]
Stages == {"running", "retrying", "dying", "acking", "over"}
Runs == DOMAIN runs
Ids == DOMAIN stream
Of(r) == stream[runs[r].id]

\* The copy of an entry that RetryJob appends.
Retried(entry) == [task |-> entry.task, attempt |-> entry.attempt + 1]

LegacyTypeOK ==
  /\ stream \in Seq(Entry)
  /\ lastId \in 0..Len(stream)
  /\ pel \subseteq 1..lastId
  /\ trimmed \subseteq Ids
  /\ dlq \in Seq(Entry)
  /\ runs \in Seq([id : 1..lastId, stage : Stages])
  /\ completed \subseteq Tasks
  /\ faults \in 0..MaxFaults

LegacyInit ==
  /\ stream = <<>> /\ lastId = 0 /\ pel = {} /\ trimmed = {}
  /\ dlq = <<>> /\ runs = <<>> /\ completed = {}
  /\ faults = 0

-----------------------------------------------------------------------------
\* AddTaskToStream: one entry per task; a client adds each task once.
AddTask(t) ==
  /\ \A e \in Ids : stream[e].task # t
  /\ stream' = Append(stream, [task |-> t, attempt |-> 0])
  /\ UNCHANGED <<lastId, pel, trimmed, dlq, runs, completed, faults>>

\* A reader has entry e: it moves a malformed one to the dead letters itself
\* and hands any other to a worker.
Begin(e) ==
  /\ Len(runs) < MaxRuns
  /\ runs' = Append(runs, [id |-> e, stage |-> IF stream[e].task \in Malformed THEN "dying" ELSE "running"])
  /\ UNCHANGED <<stream, trimmed, dlq, completed, faults>>

\* XREADGROUP >: the first entry after the last delivered one.
LegacyRead ==
  \E e \in Ids \ trimmed :
    /\ e > lastId
    /\ \A d \in Ids \ trimmed : d > lastId => e <= d
    /\ Begin(e)
    /\ lastId' = e
    /\ pel' = pel \union {e}

\* XAUTOCLAIM: a pending entry is delivered again once it is idle for 60 s,
\* which is shorter than a handler may take.
LegacyAutoClaim(e) ==
  /\ e \in pel \ trimmed
  /\ Begin(e)
  /\ UNCHANGED <<lastId, pel>>

Becomes(r, stage) == runs' = [runs EXCEPT ![r] = [id |-> @.id, stage |-> stage]]

Succeeds(r) ==
  /\ runs[r].stage = "running"
  /\ completed' = completed \union {Of(r).task}
  /\ Becomes(r, "acking")
  /\ UNCHANGED <<stream, lastId, pel, trimmed, dlq, faults>>

\* failJob without a claim: HandleJobFailure chooses by the attempt it was
\* delivered with.
Fails(r) ==
  /\ runs[r].stage = "running"
  /\ Becomes(r, IF Of(r).attempt < MaxRetries THEN "retrying" ELSE "dying")
  /\ UNCHANGED <<stream, lastId, pel, trimmed, dlq, completed, faults>>

\* Mutant of Requeue: RetryJob acks before it appends.
RequeueAfterAck(r) ==
  /\ runs[r].stage = "retrying"
  /\ runs[r].id \notin trimmed
  /\ IF runs[r].id \in pel
       THEN pel' = pel \ {runs[r].id} /\ UNCHANGED <<stream, runs>>
       ELSE /\ stream' = Append(stream, Retried(Of(r)))
            /\ Becomes(r, "over")
            /\ UNCHANGED pel
  /\ UNCHANGED <<lastId, trimmed, dlq, completed, faults>>

\* RetryJob up to its XADD.
Requeue(r) ==
  /\ runs[r].stage = "retrying"
  /\ runs[r].id \notin trimmed
  /\ stream' = Append(stream, Retried(Of(r)))
  /\ Becomes(r, "acking")
  /\ UNCHANGED <<lastId, pel, trimmed, dlq, completed, faults>>

\* MoveToDeadLetterQueue up to its XADD.
DeadLetter(r) ==
  /\ runs[r].stage = "dying"
  /\ runs[r].id \notin trimmed
  /\ dlq' = Append(dlq, Of(r))
  /\ Becomes(r, "acking")
  /\ UNCHANGED <<stream, lastId, pel, trimmed, completed, faults>>

\* XRANGE does not find the entry: both give up, without an ack.
NotFound(r) ==
  /\ runs[r].stage \in {"retrying", "dying"}
  /\ runs[r].id \in trimmed
  /\ Becomes(r, "over")
  /\ UNCHANGED <<stream, lastId, pel, trimmed, dlq, completed, faults>>

AckJob(r) ==
  /\ runs[r].stage = "acking"
  /\ pel' = pel \ {runs[r].id}
  /\ Becomes(r, "over")
  /\ UNCHANGED <<stream, lastId, trimmed, dlq, completed, faults>>

\* The process dies, or a Redis call returns an error: the run ends where it is.
Drops(r) ==
  /\ faults < MaxFaults
  /\ runs[r].stage # "over"
  /\ Becomes(r, "over")
  /\ faults' = faults + 1
  /\ UNCHANGED <<stream, lastId, pel, trimmed, dlq, completed>>

\* XADD MAXLEN ~ removes the oldest entry.
Trim(e) ==
  /\ Cardinality(trimmed) < MaxTrims
  /\ e \in Ids \ trimmed
  /\ \A d \in Ids \ trimmed : e <= d
  /\ trimmed' = trimmed \union {e}
  /\ UNCHANGED <<stream, lastId, pel, dlq, runs, completed, faults>>

LegacyNext ==
  \/ \E t \in Tasks : AddTask(t)
  \/ LegacyRead
  \/ \E e \in Ids : LegacyAutoClaim(e) \/ Trim(e)
  \/ \E r \in Runs :
       \/ Succeeds(r) \/ Fails(r)
       \/ Requeue(r) \/ DeadLetter(r) \/ NotFound(r)
       \/ AckJob(r) \/ Drops(r)

LegacySpec == LegacyInit /\ [][LegacyNext]_legacyVars

-----------------------------------------------------------------------------
\* What became of entry e: its task was done, it was copied with the next
\* attempt number, or it was copied to the dead letters.
Followed(e) ==
  \/ stream[e].task \in completed
  \/ \E d \in Ids : d > e /\ stream[d] = Retried(stream[e])
  \/ \E k \in DOMAIN dlq : dlq[k] = stream[e]

\* An entry leaves the pending list only when something follows it, whatever
\* crashes between the XADD and the XACK of RetryJob and
\* MoveToDeadLetterQueue, and however often the entry was delivered.
AckedAreFollowed == \A e \in 1..lastId : e \in pel \union trimmed \/ Followed(e)
=============================================================================
