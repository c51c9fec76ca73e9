----------------------------- MODULE RetryKeys ------------------------------
(***************************************************************************)
(* Idempotency keys of POST /v1/jobs/{id}/retry: the key is consumed by a  *)
(* statement of its own, before the transaction that retries the job.      *)
(* (src/internal/api/handlers/jobs.go, src/internal/storage/jobs/jobs_ops.go) *)
(***************************************************************************)
EXTENDS Naturals, FiniteSets

CONSTANTS
  RetryHeaders,  \* the Idempotency-Key headers clients send
  RetryJobs,     \* the jobs
  Retries,       \* the requests
  MaxFails,      \* bound: how often each job fails again after a retry
  MaxErrors,     \* bound: database errors and clients that hang up
  NoHeader       \* no key

ASSUME RetryAssumption == NoHeader \notin RetryHeaders \union RetryJobs /\ {MaxFails, MaxErrors} \subseteq Nat

VARIABLES
  call,     \* the requests: [key, job, pc]
  bound,    \* retry_idempotency: the job_id of each key
  failed,   \* the jobs whose row is failed
  retried,  \* history: the retries of each job under each key
  sent,     \* history: the stream entries retryJob sent for each job
  refails,  \* history: the failures of each job after a retry
  errors    \* history: errors so far

retryVars == <<call, bound, failed, retried, sent, refails, errors>>

RetryStages == {"idle", "key", "retry", "replay", "dispatch", "retried", "deduplicated", "conflict", "notRetryable", "error"}
Answers == {"retried", "deduplicated", "conflict", "notRetryable", "error"}

RetryTypeOK ==
  /\ call \in [Retries -> [key : RetryHeaders \union {NoHeader}, job : RetryJobs \union {NoHeader}, pc : RetryStages]]
  /\ bound \in [RetryHeaders -> RetryJobs \union {NoHeader}]
  /\ failed \subseteq RetryJobs
  /\ retried \in [RetryHeaders \union {NoHeader} -> [RetryJobs -> Nat]]
  /\ sent \in [RetryJobs -> Nat]
  /\ refails \in [RetryJobs -> 0..MaxFails] /\ errors \in 0..MaxErrors

RetryInit ==
  /\ call = [r \in Retries |-> [key |-> NoHeader, job |-> NoHeader, pc |-> "idle"]]
  /\ bound = [k \in RetryHeaders |-> NoHeader]
  /\ failed = RetryJobs
  /\ retried = [k \in RetryHeaders \union {NoHeader} |-> [j \in RetryJobs |-> 0]]
  /\ sent = [j \in RetryJobs |-> 0]
  /\ refails = [j \in RetryJobs |-> 0] /\ errors = 0

At(r, stage) == call[r].pc = stage
Goes(r, stage) == call' = [call EXCEPT ![r] = [key |-> @.key, job |-> @.job, pc |-> stage]]

\* The handler has found the job; a request without the header goes straight
\* to RetryJob.
ArriveRetry(r, k, j) ==
  /\ At(r, "idle")
  /\ call' = [call EXCEPT ![r] = [key |-> k, job |-> j, pc |-> IF k = NoHeader THEN "retry" ELSE "key"]]
  /\ UNCHANGED <<bound, failed, retried, sent, refails, errors>>

\* Mutant: a key this job already holds counts as fresh
RecordRereads(r) ==
  /\ At(r, "key")
  /\ LET k == call[r].key  j == call[r].job IN
       \/ bound[k] \in {NoHeader, j} /\ bound' = [bound EXCEPT ![k] = j] /\ Goes(r, "retry")
       \/ bound[k] \notin {NoHeader, j} /\ UNCHANGED bound /\ Goes(r, "conflict")
  /\ UNCHANGED <<failed, retried, sent, refails, errors>>

\* RecordRetryKey: one INSERT .. ON CONFLICT DO NOTHING tells first use from
\* replay.  Rows of retry_idempotency are never changed or deleted.
RecordRetryKey(r) ==
  /\ At(r, "key")
  /\ LET k == call[r].key  j == call[r].job IN
       \/ bound[k] = NoHeader /\ bound' = [bound EXCEPT ![k] = j] /\ Goes(r, "retry")
       \/ bound[k] = j /\ UNCHANGED bound /\ Goes(r, "replay")
       \/ bound[k] \notin {NoHeader, j} /\ UNCHANGED bound /\ Goes(r, "conflict")
  /\ UNCHANGED <<failed, retried, sent, refails, errors>>

\* A replay answers 200 with the job's current status.
Replay(r) ==
  /\ At(r, "replay")
  /\ Goes(r, "deduplicated")
  /\ UNCHANGED <<bound, failed, retried, sent, refails, errors>>

\* Mutant: a job that is not failed any more is sent all the same
RetryAnyway(r) ==
  /\ At(r, "retry")
  /\ failed' = failed \ {call[r].job}
  /\ retried' = [retried EXCEPT ![call[r].key][call[r].job] = @ + IF call[r].job \in failed THEN 1 ELSE 0]
  /\ Goes(r, "dispatch")
  /\ UNCHANGED <<bound, sent, refails, errors>>

\* RetryJob: failed -> pending, or ErrNotRetryable.
RetryJob(r) ==
  /\ At(r, "retry")
  /\ \/ /\ call[r].job \in failed
        /\ failed' = failed \ {call[r].job}
        /\ retried' = [retried EXCEPT ![call[r].key][call[r].job] = @ + 1]
        /\ Goes(r, "dispatch")
     \/ /\ call[r].job \notin failed
        /\ Goes(r, "notRetryable")
        /\ UNCHANGED <<failed, retried>>
  /\ UNCHANGED <<bound, sent, refails, errors>>

\* AddJobRefToStream: 200 with the entry's id, or 202 with a warning.
Dispatch(r) ==
  /\ At(r, "dispatch")
  /\ Goes(r, "retried")
  /\ \/ sent' = [sent EXCEPT ![call[r].job] = @ + 1]
     \/ UNCHANGED sent
  /\ UNCHANGED <<bound, failed, retried, refails, errors>>

\* A query fails, or the request's context ends with its client: 500.
Errs(r) ==
  /\ errors < MaxErrors
  /\ call[r].pc \in {"key", "replay", "retry"}
  /\ Goes(r, "error")
  /\ errors' = errors + 1
  /\ UNCHANGED <<bound, failed, retried, sent, refails>>

\* A retried job runs and fails terminally again.
JobFails(j) ==
  /\ j \notin failed
  /\ refails[j] < MaxFails
  /\ failed' = failed \union {j}
  /\ refails' = [refails EXCEPT ![j] = @ + 1]
  /\ UNCHANGED <<call, bound, retried, sent, errors>>

RetryNext ==
  \/ \E r \in Retries :
       \/ \E k \in RetryHeaders \union {NoHeader}, j \in RetryJobs : ArriveRetry(r, k, j)
       \/ RecordRetryKey(r) \/ Replay(r) \/ RetryJob(r) \/ Dispatch(r) \/ Errs(r)
  \/ \E j \in RetryJobs : JobFails(j)

RetrySpec == RetryInit /\ [][RetryNext]_retryVars

-----------------------------------------------------------------------------
\* However often a client resends a retry, and whatever else it sends under
\* the same key, the key retries one job, once; a job that failed again in the
\* meantime is not restarted by an old request (RecordRetryKey).  And a resend
\* that is answered as a replay is owed nothing: the request that was let on
\* under its key retried the job, found nothing to retry, is still about to, or
\* was answered by an error.  (In that last case retryJob's comment, "makes
\* resends safe", is not true: the key stays bound and the job failed.)
OneRetryPerKey ==
  /\ \A k \in RetryHeaders : \A i, j \in RetryJobs :
       (retried[k][i] > 0 /\ retried[k][j] > 0) => (i = j /\ retried[k][i] = 1)
  /\ \A r \in Retries : At(r, "deduplicated") =>
       \/ retried[call[r].key][call[r].job] > 0
       \/ \E s \in Retries : /\ call[s].key = call[r].key /\ call[s].job = call[r].job
                            /\ call[s].pc \in {"retry", "notRetryable", "error"}

\* A failure allows one retry: the retries of a job, under any keys and
\* without one, never outnumber its own failures, and no more entries are sent
\* for it than it was retried (RetryJob's status guard, and no dispatch on replay).
RetriesFollowFailures ==
  \A j \in RetryJobs :
    LET all == {u \in (RetryHeaders \union {NoHeader}) \X (1..(1 + MaxFails)) : u[2] <= retried[u[1]][j]} IN
      sent[j] <= Cardinality(all) /\ Cardinality(all) <= 1 + refails[j]
=============================================================================
