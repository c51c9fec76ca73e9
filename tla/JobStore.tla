------------------------------ MODULE JobStore ------------------------------
(***************************************************************************)
(* The jobs table and the transactions of internal/storage/jobs that       *)
(* change it.  PostgreSQL is the source of truth of PierceMQ: every        *)
(* process reaches a job through one of these operations, and each is one  *)
(* short transaction that locks the rows it touches, hence one action: the *)
(* conditions of its SELECT and a Set... operator, what it writes.  (Module *)
(* Transactions shows that the locks suffice.)                             *)
(* A batch operation (SELECT ... FOR UPDATE SKIP LOCKED LIMIT n) takes a   *)
(* set of eligible rows; which one it is depends on the limit and on the   *)
(* locks other transactions hold, so any subset may come up.               *)
(*                                                                         *)
(* Wall-clock columns are kept as what the guards tell apart: has the time *)
(* passed.  Time is the two actions at the end.                            *)
(***************************************************************************)
EXTENDS Integers, FiniteSets, Functions

CONSTANTS
  Jobs,       (* job ids: uuids of jobs that may ever be created             *)
  Series,     (* series ids of recurring jobs                                *)
  Poisoned,   (* series whose cron_expr or cron_tz cronx.NextAfter rejects   *)
  NoSeries,   (* series_id NULL                                              *)
  MaxRetry,   (* jobs.max_retry, as CreateJob stores it                      *)
  MaxClaims   (* bound: how often one job may be claimed in its whole life   *)

(* The API takes any max_retry and the column has no CHECK; but CreateJob   *)
(* stores 3 for a 0, so a row's is positive or negative.                    *)
ASSUME StoreConstants ==
  /\ NoSeries \notin Series
  /\ Poisoned \subseteq Series
  /\ MaxRetry \in Int \ {0}
  /\ MaxClaims \in Nat

VARIABLES
  status,      (* job_status; "absent" before the insert, "deleted" after retention *)
  claimToken,  (* claim_token: 0 is NULL, n the uuid minted by the job's n-th claim *)
  attempt,     (* attempt_count                                                     *)
  notBefore,   (* not_before: "null", in the "future", or in the "past"             *)
  heartbeat,   (* heartbeat_at: "stale" once older than the reaper's cutoff         *)
  series,      (* series_id; recurring jobs have one                                *)
  claims,      (* history: number of claims so far, which is what makes uuids fresh *)
  reclaims     (* history: reaper reclaims since attempt_count was last zeroed      *)

storeVars == <<status, claimToken, attempt, notBefore, heartbeat, series,
               claims, reclaims>>

JobStatus == {"absent", "scheduled", "pending", "queued", "running",
              "completed", "failed", "cancelled", "deleted"}

(* The statuses a worker may move to running, CancelJob may cancel, and the *)
(* sweep may list.  No statement of the code ever writes 'queued'.          *)
Claimable == {"pending", "queued", "scheduled"}
Cancellable == {"scheduled", "pending", "queued"}
Waiting == {"pending", "queued"}

(* f with the value v at every element of S *)
SetAll(f, S, v) == [x \in DOMAIN f |-> IF x \in S THEN v ELSE f[x]]

StoreInit ==
  /\ status = [j \in Jobs |-> "absent"]
  /\ claimToken = [j \in Jobs |-> 0]
  /\ attempt = [j \in Jobs |-> 0]
  /\ notBefore = [j \in Jobs |-> "null"]
  /\ heartbeat = [j \in Jobs |-> "fresh"]
  /\ series = [j \in Jobs |-> NoSeries]
  /\ claims = [j \in Jobs |-> 0]
  /\ reclaims = [j \in Jobs |-> 0]

-----------------------------------------------------------------------------
(* API operations *)

(* An insert with its initial event.  The API inserts a one-shot job as     *)
(* pending or scheduled, and the first occurrence of a series, under a      *)
(* fresh series_id, as scheduled.                                           *)
CreateJob(j, s, r) ==
  /\ status[j] = "absent"
  /\ s \in {"pending", "scheduled"}
  /\ r # NoSeries => s = "scheduled" /\ \A k \in Jobs : series[k] # r
  /\ status' = [status EXCEPT ![j] = s]
  /\ series' = [series EXCEPT ![j] = r]
  /\ UNCHANGED <<claimToken, attempt, notBefore, heartbeat, claims, reclaims>>

SetRetried(j) ==
  /\ status' = [status EXCEPT ![j] = "pending"]
  /\ attempt' = [attempt EXCEPT ![j] = 0]
  /\ claimToken' = [claimToken EXCEPT ![j] = 0]
  /\ notBefore' = [notBefore EXCEPT ![j] = "null"]
  /\ reclaims' = [reclaims EXCEPT ![j] = 0]
  /\ UNCHANGED <<heartbeat, series, claims>>

RetryJob(j) == status[j] = "failed" /\ SetRetried(j)

SetCancelled(S) ==
  /\ status' = SetAll(status, S, "cancelled")
  /\ UNCHANGED <<claimToken, attempt, notBefore, heartbeat, series, claims,
                 reclaims>>

(* Mutant: CancelJob without its status guard on started jobs *)
CancelRunningToo(j) ==
  status[j] \in Cancellable \cup {"running", "completed"} /\ SetCancelled({j})

CancelJob(j) == status[j] \in Cancellable /\ SetCancelled({j})

(* Cancels the members of series r that have not started.  SKIP LOCKED      *)
(* leaves out the rows a concurrent transaction holds: S may be any subset. *)
CancelSeries(r, S) ==
  /\ r # NoSeries
  /\ S \subseteq {j \in Jobs : series[j] = r /\ status[j] \in Cancellable}
  /\ SetCancelled(S)

-----------------------------------------------------------------------------
(* Worker operations *)

(* Mutant: the claim looks at the backoff gate only *)
CanClaimIfOpen(j) == status[j] \in Claimable \cup {"running"} /\ notBefore[j] # "future"

CanClaim(j) == status[j] \in Claimable /\ notBefore[j] # "future"

SetRunning(j) ==
  /\ status' = [status EXCEPT ![j] = "running"]
  /\ claims' = [claims EXCEPT ![j] = @ + 1]
  /\ claimToken' = [claimToken EXCEPT ![j] = claims[j] + 1]
  /\ heartbeat' = [heartbeat EXCEPT ![j] = "fresh"]
  /\ notBefore' = [notBefore EXCEPT ![j] = "null"]
  /\ attempt' = [attempt EXCEPT ![j] = @ + 1]
  /\ UNCHANGED <<series, reclaims>>

ClaimRunning(j) == CanClaim(j) /\ claims[j] < MaxClaims /\ SetRunning(j)

(* Mutant: the guard forgets the token *)
OwnsAny(j, t) == status[j] = "running"

(* The WHERE clause of Heartbeat and the guard of Complete and FailOrRetry *)
Owns(j, t) == status[j] = "running" /\ claimToken[j] = t

Heartbeat(j, t) ==
  /\ Owns(j, t)
  /\ heartbeat' = [heartbeat EXCEPT ![j] = "fresh"]
  /\ UNCHANGED <<status, claimToken, attempt, notBefore, series, claims,
                 reclaims>>

(* The token stays in the completed row *)
SetCompleted(j) ==
  /\ status' = [status EXCEPT ![j] = "completed"]
  /\ UNCHANGED <<claimToken, attempt, notBefore, heartbeat, series, claims,
                 reclaims>>

Complete(j, t) == Owns(j, t) /\ SetCompleted(j)

(* Mutant: the budget is compared one attempt late *)
FailOneLate(j) ==
  LET exhausted == attempt[j] > MaxRetry IN
  /\ status' = [status EXCEPT ![j] = IF exhausted THEN "failed" ELSE "pending"]
  /\ notBefore' = [notBefore EXCEPT ![j] = IF exhausted THEN "null" ELSE "future"]
  /\ claimToken' = [claimToken EXCEPT ![j] = 0]
  /\ UNCHANGED <<attempt, heartbeat, series, claims, reclaims>>

SetFailed(j) ==
  LET exhausted == attempt[j] >= MaxRetry IN
  /\ status' = [status EXCEPT ![j] = IF exhausted THEN "failed" ELSE "pending"]
  /\ notBefore' = [notBefore EXCEPT ![j] = IF exhausted THEN "null" ELSE "future"]
  /\ claimToken' = [claimToken EXCEPT ![j] = 0]
  /\ UNCHANGED <<attempt, heartbeat, series, claims, reclaims>>

FailOrRetry(j, t) == Owns(j, t) /\ SetFailed(j)

-----------------------------------------------------------------------------
(* Reaper and scheduler operations *)

StaleRunning == {j \in Jobs : status[j] = "running" /\ heartbeat[j] = "stale"}

(* Mutant: the reaper gives the row back and leaves its token *)
ReclaimKeepsToken(S) ==
  /\ status' = SetAll(status, S, "pending")
  /\ reclaims' = [j \in Jobs |-> IF j \in S THEN reclaims[j] + 1 ELSE reclaims[j]]
  /\ UNCHANGED <<claimToken, attempt, notBefore, heartbeat, series, claims>>

(* attempt_count is kept, and not compared with max_retry *)
SetReclaimed(S) ==
  /\ status' = SetAll(status, S, "pending")
  /\ claimToken' = SetAll(claimToken, S, 0)
  /\ reclaims' = [j \in Jobs |-> IF j \in S THEN reclaims[j] + 1 ELSE reclaims[j]]
  /\ UNCHANGED <<attempt, notBefore, heartbeat, series, claims>>

ClaimStaleRunning(S) == S \subseteq StaleRunning /\ SetReclaimed(S)

(* scheduled_at <= now, the other condition, only says that a scheduled row *)
(* comes up at some time.                                                   *)
Scheduled == {j \in Jobs : status[j] = "scheduled"}

(* The members of S that get a follow-up: an expression without a next time *)
(* does not fail the batch, it ends its series.                             *)
Recurring(S) == {j \in S : series[j] \notin Poisoned \cup {NoSeries}}

(* Promotes S and, in the same transaction, inserts the next occurrence of  *)
(* each recurring member: child[j] is the uuid minted for the follow-up.    *)
SetPromoted(S) ==
  /\ \E child \in [Recurring(S) -> {k \in Jobs : status[k] = "absent"}] :
       /\ IsInjective(child)
       /\ status' = [k \in Jobs |-> IF k \in S THEN "pending"
                                    ELSE IF k \in Range(child) THEN "scheduled"
                                    ELSE status[k]]
       /\ series' = [k \in Jobs |-> IF k \in Range(child)
                                    THEN series[CHOOSE j \in Recurring(S) : child[j] = k]
                                    ELSE series[k]]
  /\ UNCHANGED <<claimToken, attempt, notBefore, heartbeat, claims, reclaims>>

ClaimDueScheduled(S) == S \subseteq Scheduled /\ SetPromoted(S)

DueRetries == {j \in Jobs : status[j] \in Waiting /\ notBefore[j] = "past"}

(* Opens the backoff gate; the status does not change *)
SetDue(S) ==
  /\ notBefore' = SetAll(notBefore, S, "null")
  /\ UNCHANGED <<status, claimToken, attempt, heartbeat, series, claims,
                 reclaims>>

ClaimDueRetries(S) == S \subseteq DueRetries /\ SetDue(S)

(* Retention: completed and cancelled rows older than the cutoff.  A failed *)
(* row stays until it is retried.                                           *)
Purgeable == {j \in Jobs : status[j] \in {"completed", "cancelled"}}

SetDeleted(S) ==
  /\ status' = SetAll(status, S, "deleted")
  /\ UNCHANGED <<claimToken, attempt, notBefore, heartbeat, series, claims,
                 reclaims>>

DeleteOldJobs(S) == S \subseteq Purgeable /\ SetDeleted(S)

-----------------------------------------------------------------------------
(* The passage of time *)

(* RetryBackoff(attempt_count) has elapsed since the failure *)
NotBeforePasses(j) ==
  /\ notBefore[j] = "future"
  /\ notBefore' = [notBefore EXCEPT ![j] = "past"]
  /\ UNCHANGED <<status, claimToken, attempt, heartbeat, series, claims,
                 reclaims>>

(* StaleAfter has elapsed since the claim or the last heartbeat *)
HeartbeatAges(j) ==
  /\ status[j] = "running"
  /\ heartbeat[j] = "fresh"
  /\ heartbeat' = [heartbeat EXCEPT ![j] = "stale"]
  /\ UNCHANGED <<status, claimToken, attempt, notBefore, series, claims,
                 reclaims>>

-----------------------------------------------------------------------------
(* The table under any callers: the worker operations come with any token   *)
(* that was ever minted, the current one or an old one.  One thing is asked *)
(* of the callers: ClaimRunning accepts a scheduled row, and would start it *)
(* ahead of time and without its follow-up, so nobody may be handed the id  *)
(* of one.  Module Delivery shows that the streams never carry such an id.  *)
StoreNext ==
  \/ \E j \in Jobs :
       \/ \E s \in {"pending", "scheduled"}, r \in Series \cup {NoSeries} :
            CreateJob(j, s, r)
       \/ RetryJob(j)
       \/ CancelJob(j)
       \/ status[j] # "scheduled" /\ ClaimRunning(j)
       \/ \E t \in 1..claims[j] :
            Heartbeat(j, t) \/ Complete(j, t) \/ FailOrRetry(j, t)
       \/ NotBeforePasses(j)
       \/ HeartbeatAges(j)
  \/ \E S \in SUBSET Jobs :
       \/ \E r \in Series : CancelSeries(r, S)
       \/ ClaimStaleRunning(S)
       \/ ClaimDueScheduled(S)
       \/ ClaimDueRetries(S)
       \/ DeleteOldJobs(S)

StoreSpec == StoreInit /\ [][StoreNext]_storeVars
-----------------------------------------------------------------------------
(* Type invariant *)
StoreTypeOK ==
  /\ status \in [Jobs -> JobStatus]
  /\ claimToken \in [Jobs -> 0..MaxClaims]
  /\ attempt \in [Jobs -> 0..MaxClaims]
  /\ notBefore \in [Jobs -> {"null", "future", "past"}]
  /\ heartbeat \in [Jobs -> {"fresh", "stale"}]
  /\ series \in [Jobs -> Series \cup {NoSeries}]
  /\ claims \in [Jobs -> 0..MaxClaims]
  /\ reclaims \in [Jobs -> 0..MaxClaims]

(* The token of a row is the one its latest claim minted or none at all:    *)
(* a running row can be settled by its latest claimant only, and a row that *)
(* waits for a claim, was cancelled or failed can be settled by nobody.     *)
(* (ClaimRunning, FailOrRetry, ClaimStaleRunning and RetryJob each have to  *)
(* keep their part.)                                                        *)
TokenDiscipline ==
  \A j \in Jobs :
    /\ status[j] = "running" => claimToken[j] = claims[j] /\ claims[j] > 0
    /\ status[j] \in Claimable \cup {"absent", "failed", "cancelled"} =>
         claimToken[j] = 0

(* How often the handlers of a job may fail: a negative max_retry, which    *)
(* every attempt_count exceeds, still has the first attempt.                *)
Budget == IF MaxRetry > 0 THEN MaxRetry ELSE 1

(* A job whose handlers keep failing is attempted as often as its budget    *)
(* allows and then failed: it is never failed before, and every attempt     *)
(* beyond is one the reaper took from a worker believed dead, which the     *)
(* code does not hold against the budget (FailOrRetry, ClaimRunning,        *)
(* ClaimStaleRunning, RetryJob).  That a job whose workers keep dying has   *)
(* no last attempt is what Delivery!PoisonPillsFail is about.               *)
RetryBudget ==
  \A j \in Jobs :
    /\ attempt[j] <= Budget + reclaims[j]
    /\ status[j] \in Claimable => attempt[j] < Budget + reclaims[j]
    /\ status[j] = "failed" => attempt[j] >= Budget

Occurrences(r) == {j \in Jobs : series[j] = r}

(* A recurring series has one next occurrence in the table: never two, and  *)
(* never none unless a member was cancelled.  Promotion and follow-up are   *)
(* one transaction (ClaimDueScheduled: "occurrences are never duplicated",  *)
(* "a crash can never dispatch an occurrence without queuing the next").    *)
(* A poisoned series has its first occurrence only (scheduleFollowup: "the  *)
(* current occurrence still dispatches, the series simply ends here").      *)
OneNextOccurrence ==
  \A r \in Series :
    LET next == {j \in Occurrences(r) : status[j] = "scheduled"} IN
    /\ Cardinality(next) <= 1
    /\ r \in Poisoned => Cardinality(Occurrences(r)) <= 1
    /\ r \notin Poisoned /\ Occurrences(r) # {} /\ next = {} =>
         \E j \in Occurrences(r) : status[j] \in {"cancelled", "deleted"}

(* A settled job stays settled whatever arrives late: completed and         *)
(* cancelled rows are only ever purged, and a failed row is only left by a  *)
(* manual retry, which starts a fresh budget with the old claim forgotten.  *)
SettledIsFinal ==
  [][\A j \in Jobs :
       /\ status[j] \in {"completed", "cancelled"} => status'[j] \in {status[j], "deleted"}
       /\ status[j] = "failed" /\ status'[j] # "failed" =>
            /\ status'[j] = "pending"
            /\ attempt'[j] = 0 /\ claimToken'[j] = 0]_storeVars
=============================================================================
