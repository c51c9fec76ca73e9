--------------------------- MODULE JobStoreProofs ---------------------------
(***************************************************************************)
(* The invariants of the jobs table, for every set of jobs and series and  *)
(* every retry budget.                                                     *)
(*                                                                         *)
(* StoreTypeOK, TokenDiscipline and RetryBudget are proved together: the   *)
(* bounds on the counters in StoreTypeOK follow from how the counters are  *)
(* related (StoreCounts), and that needs to know which rows carry a token. *)
(***************************************************************************)
EXTENDS JobStore, FiniteSetTheorems, TLAPS

(* How the counters of a row bound each other: each attempt was a claim,    *)
(* each reclaim took one attempt back, the current one excepted, and a row  *)
(* that was never inserted has none.                                        *)
StoreCounts ==
  \A j \in Jobs :
    /\ attempt[j] <= claims[j]
    /\ reclaims[j] <= attempt[j]
    /\ status[j] = "running" => reclaims[j] < attempt[j]
    /\ status[j] = "absent" => attempt[j] = 0

(* The inductive invariant *)
StoreInv == StoreTypeOK /\ StoreCounts /\ TokenDiscipline /\ RetryBudget

-----------------------------------------------------------------------------
(* The empty table satisfies the invariant *)
LEMMA StoreInvInit == StoreInit => StoreInv
  <1> SUFFICES ASSUME StoreInit PROVE StoreInv
    OBVIOUS
  <1> USE StoreConstants DEF StoreInit
  <1>1. StoreTypeOK
    BY DEF StoreTypeOK, JobStatus
  <1>2. StoreCounts
    BY DEF StoreCounts
  <1>3. TokenDiscipline
    BY DEF TokenDiscipline, Claimable
  <1>4. RetryBudget
    BY DEF RetryBudget, Budget, Claimable
  <1> QED BY <1>1, <1>2, <1>3, <1>4 DEF StoreInv

(* Operations of the API *)
LEMMA CreateKeeps ==
  ASSUME StoreInv, NEW j \in Jobs, NEW s, NEW r \in Series \cup {NoSeries},
         CreateJob(j, s, r)
  PROVE  StoreInv'
  <1> USE StoreConstants DEF CreateJob, StoreInv
  <1>1. StoreTypeOK'
    BY DEF StoreTypeOK, JobStatus
  <1>2. StoreCounts'
    BY DEF StoreTypeOK, StoreCounts
  <1>3. TokenDiscipline'
    BY DEF StoreTypeOK, TokenDiscipline, Claimable
  <1>4. RetryBudget'
    BY DEF StoreTypeOK, StoreCounts, RetryBudget, Budget, Claimable
  <1> QED BY <1>1, <1>2, <1>3, <1>4

LEMMA RetryKeeps ==
  ASSUME StoreInv, NEW j \in Jobs, RetryJob(j)
  PROVE  StoreInv'
  <1> USE StoreConstants DEF RetryJob, SetRetried, StoreInv
  <1>1. StoreTypeOK'
    BY DEF StoreTypeOK, JobStatus
  <1>2. StoreCounts'
    BY DEF StoreTypeOK, StoreCounts
  <1>3. TokenDiscipline'
    BY DEF StoreTypeOK, TokenDiscipline, Claimable
  <1>4. RetryBudget'
    BY DEF StoreTypeOK, RetryBudget, Budget, Claimable
  <1> QED BY <1>1, <1>2, <1>3, <1>4

LEMMA CancelKeeps ==
  ASSUME StoreInv, NEW j \in Jobs, CancelJob(j)
  PROVE  StoreInv'
  <1> USE StoreConstants DEF CancelJob, SetCancelled, SetAll, StoreInv
  <1>1. StoreTypeOK'
    BY DEF StoreTypeOK, JobStatus
  <1>2. StoreCounts'
    BY DEF StoreTypeOK, StoreCounts
  <1>3. TokenDiscipline'
    BY DEF StoreTypeOK, TokenDiscipline, Claimable, Cancellable
  <1>4. RetryBudget'
    BY DEF StoreTypeOK, RetryBudget, Budget, Claimable
  <1> QED BY <1>1, <1>2, <1>3, <1>4

LEMMA CancelSeriesKeeps ==
  ASSUME StoreInv, NEW r \in Series, NEW S \in SUBSET Jobs, CancelSeries(r, S)
  PROVE  StoreInv'
  <1> USE StoreConstants DEF CancelSeries, SetCancelled, StoreInv
  <1>0. /\ status' \in [Jobs -> JobStatus]
        /\ \A x \in Jobs : status'[x] = IF x \in S THEN "cancelled" ELSE status[x]
    BY DEF SetAll, StoreTypeOK, JobStatus
  <1>1. StoreTypeOK'
    BY <1>0 DEF StoreTypeOK
  <1>2. StoreCounts'
    BY <1>0 DEF StoreTypeOK, StoreCounts
  <1>3. TokenDiscipline'
    BY <1>0 DEF StoreTypeOK, TokenDiscipline, Claimable, Cancellable
  <1>4. RetryBudget'
    BY <1>0 DEF StoreTypeOK, RetryBudget, Budget, Claimable
  <1> QED BY <1>1, <1>2, <1>3, <1>4

-----------------------------------------------------------------------------
(* Operations of the workers *)
LEMMA ClaimRunningKeeps ==
  ASSUME StoreInv, NEW j \in Jobs, ClaimRunning(j)
  PROVE  StoreInv'
  <1> USE StoreConstants DEF ClaimRunning, SetRunning, StoreInv
  <1>1. StoreTypeOK'
    BY DEF StoreTypeOK, JobStatus, StoreCounts
  <1>2. StoreCounts'
    BY DEF StoreTypeOK, StoreCounts
  <1>3. TokenDiscipline'
    BY DEF StoreTypeOK, TokenDiscipline, Claimable
  <1>4. RetryBudget'
    BY DEF StoreTypeOK, RetryBudget, Budget, Claimable, CanClaim
  <1> QED BY <1>1, <1>2, <1>3, <1>4

LEMMA HeartbeatKeeps ==
  ASSUME StoreInv, NEW j \in Jobs, NEW t, Heartbeat(j, t)
  PROVE  StoreInv'
  <1> USE DEF Heartbeat, StoreInv
  <1>1. StoreTypeOK'
    BY DEF StoreTypeOK
  <1>2. StoreCounts' /\ TokenDiscipline' /\ RetryBudget'
    BY DEF StoreCounts, TokenDiscipline, RetryBudget
  <1> QED BY <1>1, <1>2

LEMMA CompleteKeeps ==
  ASSUME StoreInv, NEW j \in Jobs, NEW t, Complete(j, t)
  PROVE  StoreInv'
  <1> USE StoreConstants DEF Complete, SetCompleted, StoreInv
  <1>1. StoreTypeOK'
    BY DEF StoreTypeOK, JobStatus
  <1>2. StoreCounts'
    BY DEF StoreTypeOK, StoreCounts
  <1>3. TokenDiscipline'
    BY DEF StoreTypeOK, TokenDiscipline, Claimable
  <1>4. RetryBudget'
    BY DEF StoreTypeOK, RetryBudget, Budget, Claimable
  <1> QED BY <1>1, <1>2, <1>3, <1>4

LEMMA FailOrRetryKeeps ==
  ASSUME StoreInv, NEW j \in Jobs, NEW t, FailOrRetry(j, t)
  PROVE  StoreInv'
  <1> USE StoreConstants DEF FailOrRetry, SetFailed, StoreInv
  <1>1. StoreTypeOK'
    BY DEF StoreTypeOK, JobStatus
  <1>2. StoreCounts'
    BY DEF StoreTypeOK, StoreCounts, Owns
  <1>3. TokenDiscipline'
    BY DEF StoreTypeOK, TokenDiscipline, Claimable
  <1>4. RetryBudget'
    <2>1. 1 <= attempt[j]
      BY DEF StoreTypeOK, StoreCounts, Owns
    <2>2. attempt[j] >= MaxRetry => attempt[j] >= Budget
      BY <2>1 DEF StoreTypeOK, Budget
    <2>3. ~(attempt[j] >= MaxRetry) => attempt[j] < Budget
      BY <2>1 DEF StoreTypeOK, Budget
    <2>4. Budget \in Nat
      BY DEF Budget
    <2>5. \A i \in Jobs : attempt[i] \in Nat /\ reclaims[i] \in Nat
      BY DEF StoreTypeOK
    <2>6. status' = [status EXCEPT ![j] = IF attempt[j] >= MaxRetry THEN "failed" ELSE "pending"]
          /\ UNCHANGED <<attempt, reclaims>>
      OBVIOUS
    <2> QED BY <2>2, <2>3, <2>4, <2>5, <2>6 DEF StoreTypeOK, RetryBudget, Claimable
  <1> QED BY <1>1, <1>2, <1>3, <1>4

-----------------------------------------------------------------------------
(* Operations of the reaper and the scheduler *)
LEMMA ReclaimKeeps ==
  ASSUME StoreInv, NEW S \in SUBSET Jobs, ClaimStaleRunning(S)
  PROVE  StoreInv'
  <1> USE StoreConstants DEF ClaimStaleRunning, SetReclaimed, StoreInv
  <1>0. /\ status' \in [Jobs -> JobStatus]
        /\ \A x \in Jobs : status'[x] = IF x \in S THEN "pending" ELSE status[x]
    BY DEF SetAll, StoreTypeOK, JobStatus
  <1>1. \A x \in S : status[x] = "running"
    BY DEF StaleRunning
  <1>2. /\ claimToken' \in [Jobs -> 0..MaxClaims]
        /\ \A x \in Jobs : claimToken'[x] = IF x \in S THEN 0 ELSE claimToken[x]
    BY DEF SetAll, StoreTypeOK
  <1>3. /\ reclaims' \in [Jobs -> 0..MaxClaims]
        /\ \A x \in Jobs : reclaims'[x] = IF x \in S THEN reclaims[x] + 1 ELSE reclaims[x]
    BY <1>1 DEF StoreTypeOK, StoreCounts
  <1>4. StoreTypeOK'
    BY <1>0, <1>2, <1>3 DEF StoreTypeOK
  <1>5. StoreCounts'
    BY <1>0, <1>1, <1>3 DEF StoreTypeOK, StoreCounts
  <1>6. TokenDiscipline'
    BY <1>0, <1>2 DEF StoreTypeOK, TokenDiscipline, Claimable
  <1>7. RetryBudget'
    BY <1>0, <1>1, <1>3 DEF StoreTypeOK, RetryBudget, Budget, Claimable
  <1> QED BY <1>4, <1>5, <1>6, <1>7

LEMMA PromoteKeeps ==
  ASSUME StoreInv, NEW S \in SUBSET Jobs, ClaimDueScheduled(S)
  PROVE  StoreInv'
  <1> USE StoreConstants DEF StoreInv
  <1>1. PICK child \in [Recurring(S) -> {k \in Jobs : status[k] = "absent"}] :
          /\ status' = [k \in Jobs |-> IF k \in S THEN "pending"
                                       ELSE IF k \in Range(child) THEN "scheduled"
                                       ELSE status[k]]
          /\ series' = [k \in Jobs |-> IF k \in Range(child)
                                       THEN series[CHOOSE j \in Recurring(S) : child[j] = k]
                                       ELSE series[k]]
    BY DEF ClaimDueScheduled, SetPromoted
  <1>2. /\ UNCHANGED <<claimToken, attempt, notBefore, heartbeat, claims, reclaims>>
        /\ \A x \in S : status[x] = "scheduled"
    BY DEF ClaimDueScheduled, SetPromoted, Scheduled
  <1>3. \A x \in Range(child) : status[x] = "absent" /\ x \in Jobs
    BY DEF Range
  <1>4. series' \in [Jobs -> Series \cup {NoSeries}]
    <2>1. ASSUME NEW k \in Range(child)
          PROVE  (CHOOSE j \in Recurring(S) : child[j] = k) \in Jobs
      <3>1. \E j \in Recurring(S) : child[j] = k
        BY <2>1 DEF Range
      <3> QED BY <3>1 DEF Recurring
    <2> QED BY <1>1, <2>1 DEF StoreTypeOK
  <1>5. StoreTypeOK'
    BY <1>1, <1>2, <1>4 DEF StoreTypeOK, JobStatus
  <1>6. StoreCounts'
    BY <1>1, <1>2, <1>3 DEF StoreTypeOK, StoreCounts
  <1>7. TokenDiscipline'
    BY <1>1, <1>2, <1>3 DEF StoreTypeOK, TokenDiscipline, Claimable
  <1>8. RetryBudget'
    BY <1>1, <1>2, <1>3 DEF StoreTypeOK, StoreCounts, RetryBudget, Budget, Claimable
  <1> QED BY <1>5, <1>6, <1>7, <1>8

LEMMA OpenGateKeeps ==
  ASSUME StoreInv, NEW S \in SUBSET Jobs, ClaimDueRetries(S)
  PROVE  StoreInv'
  <1> USE DEF ClaimDueRetries, SetDue, StoreInv
  <1>1. StoreTypeOK'
    BY DEF StoreTypeOK, SetAll
  <1>2. StoreCounts' /\ TokenDiscipline' /\ RetryBudget'
    BY DEF StoreCounts, TokenDiscipline, RetryBudget
  <1> QED BY <1>1, <1>2

LEMMA DeleteKeeps ==
  ASSUME StoreInv, NEW S \in SUBSET Jobs, DeleteOldJobs(S)
  PROVE  StoreInv'
  <1> USE StoreConstants DEF DeleteOldJobs, SetDeleted, Purgeable, StoreInv
  <1>0. /\ status' \in [Jobs -> JobStatus]
        /\ \A x \in Jobs : status'[x] = IF x \in S THEN "deleted" ELSE status[x]
    BY DEF SetAll, StoreTypeOK, JobStatus
  <1>1. StoreTypeOK'
    BY <1>0 DEF StoreTypeOK
  <1>2. StoreCounts'
    BY <1>0 DEF StoreTypeOK, StoreCounts
  <1>3. TokenDiscipline'
    BY <1>0 DEF StoreTypeOK, TokenDiscipline, Claimable
  <1>4. RetryBudget'
    BY <1>0 DEF StoreTypeOK, RetryBudget, Budget, Claimable
  <1> QED BY <1>1, <1>2, <1>3, <1>4

(* Time moves no status, token or counter *)
LEMMA TimeKeeps ==
  ASSUME StoreInv, NEW j \in Jobs, NotBeforePasses(j) \/ HeartbeatAges(j)
  PROVE  StoreInv'
  <1> USE DEF NotBeforePasses, HeartbeatAges, StoreInv
  <1>1. StoreTypeOK'
    BY DEF StoreTypeOK
  <1>2. StoreCounts' /\ TokenDiscipline' /\ RetryBudget'
    BY DEF StoreCounts, TokenDiscipline, RetryBudget
  <1> QED BY <1>1, <1>2

-----------------------------------------------------------------------------
(* Every step of the table keeps the invariant *)
LEMMA StoreInvNext == StoreInv /\ [StoreNext]_storeVars => StoreInv'
  <1> SUFFICES ASSUME StoreInv, [StoreNext]_storeVars PROVE StoreInv'
    OBVIOUS
  <1>1. ASSUME NEW j \in Jobs, NEW s, NEW r \in Series \cup {NoSeries}, CreateJob(j, s, r)
        PROVE  StoreInv'
    BY <1>1, CreateKeeps
  <1>2. ASSUME NEW j \in Jobs, RetryJob(j) \/ CancelJob(j) PROVE StoreInv'
    BY <1>2, RetryKeeps, CancelKeeps
  <1>3. ASSUME NEW j \in Jobs, ClaimRunning(j) PROVE StoreInv'
    BY <1>3, ClaimRunningKeeps
  <1>4. ASSUME NEW j \in Jobs, NEW t, Heartbeat(j, t) \/ Complete(j, t) \/ FailOrRetry(j, t)
        PROVE  StoreInv'
    BY <1>4, HeartbeatKeeps, CompleteKeeps, FailOrRetryKeeps
  <1>5. ASSUME NEW j \in Jobs, NotBeforePasses(j) \/ HeartbeatAges(j) PROVE StoreInv'
    BY <1>5, TimeKeeps
  <1>6. ASSUME NEW S \in SUBSET Jobs, NEW r \in Series, CancelSeries(r, S) PROVE StoreInv'
    BY <1>6, CancelSeriesKeeps
  <1>7. ASSUME NEW S \in SUBSET Jobs,
               ClaimStaleRunning(S) \/ ClaimDueScheduled(S) \/ ClaimDueRetries(S)
                 \/ DeleteOldJobs(S)
        PROVE  StoreInv'
    BY <1>7, ReclaimKeeps, PromoteKeeps, OpenGateKeeps, DeleteKeeps
  <1>8. CASE UNCHANGED storeVars
    BY <1>8 DEF storeVars, StoreInv, StoreTypeOK, StoreCounts, TokenDiscipline, RetryBudget
  <1> QED BY <1>1, <1>2, <1>3, <1>4, <1>5, <1>6, <1>7, <1>8 DEF StoreNext

LEMMA StoreInvAlways == StoreSpec => []StoreInv
  BY StoreInvInit, StoreInvNext, PTL DEF StoreSpec

(* The columns of the table keep their types; in particular no counter      *)
(* outgrows the number of claims.                                           *)
THEOREM StoreTypeCorrect == StoreSpec => []StoreTypeOK
  BY StoreInvAlways, PTL DEF StoreInv

(* A row's claim token is the one of its latest claim or none (ClaimRunning, *)
(* FailOrRetry, ClaimStaleRunning, RetryJob).                                *)
THEOREM TokensDisciplined == StoreSpec => []TokenDiscipline
  BY StoreInvAlways, PTL DEF StoreInv

(* attempt_count exceeds the budget by reclaims only, and no job is failed  *)
(* with attempts left, whatever max_retry the API let through (FailOrRetry, *)
(* ClaimRunning, ClaimStaleRunning).                                        *)
THEOREM BudgetKept == StoreSpec => []RetryBudget
  BY StoreInvAlways, PTL DEF StoreInv

(* Settled rows stay settled (the guards of every operation of the table).  *)
THEOREM SettledStaysSettled == StoreSpec => SettledIsFinal
  <1>1. ASSUME StoreInv, [StoreNext]_storeVars
        PROVE  [\A j \in Jobs :
                  /\ status[j] \in {"completed", "cancelled"} => status'[j] \in {status[j], "deleted"}
                  /\ status[j] = "failed" /\ status'[j] # "failed" =>
                       /\ status'[j] = "pending"
                       /\ attempt'[j] = 0 /\ claimToken'[j] = 0]_storeVars
    <2> DEFINE Final(j) ==
          /\ status[j] \in {"completed", "cancelled"} => status'[j] \in {status[j], "deleted"}
          /\ status[j] = "failed" /\ status'[j] # "failed" =>
               /\ status'[j] = "pending"
               /\ attempt'[j] = 0 /\ claimToken'[j] = 0
    <2> SUFFICES ASSUME StoreNext, NEW j \in Jobs PROVE Final(j)
      BY <1>1
    <2>0. StoreTypeOK
      BY <1>1 DEF StoreInv
    <2> USE <2>0 DEF StoreTypeOK, JobStatus
    <2>1. ASSUME NEW i \in Jobs, NEW s, NEW r, CreateJob(i, s, r) PROVE Final(j)
      BY <2>1 DEF CreateJob
    <2>2. ASSUME NEW i \in Jobs, RetryJob(i) PROVE Final(j)
      BY <2>2 DEF RetryJob, SetRetried
    <2>3. ASSUME NEW i \in Jobs, CancelJob(i) PROVE Final(j)
      BY <2>3 DEF CancelJob, SetCancelled, SetAll, Cancellable
    <2>4. ASSUME NEW i \in Jobs, ClaimRunning(i) PROVE Final(j)
      BY <2>4 DEF ClaimRunning, SetRunning, CanClaim, Claimable
    <2>5. ASSUME NEW i \in Jobs, NEW t, Heartbeat(i, t) \/ Complete(i, t) \/ FailOrRetry(i, t)
          PROVE  Final(j)
      BY <2>5 DEF Heartbeat, Complete, SetCompleted, FailOrRetry, SetFailed, Owns
    <2>6. ASSUME NEW i \in Jobs, NotBeforePasses(i) \/ HeartbeatAges(i) PROVE Final(j)
      BY <2>6 DEF NotBeforePasses, HeartbeatAges
    <2>7. ASSUME NEW S \in SUBSET Jobs, NEW r, CancelSeries(r, S) PROVE Final(j)
      BY <2>7 DEF CancelSeries, SetCancelled, Cancellable, SetAll
    <2>8. ASSUME NEW S \in SUBSET Jobs, ClaimStaleRunning(S) PROVE Final(j)
      BY <2>8 DEF ClaimStaleRunning, SetReclaimed, StaleRunning, SetAll
    <2>9. ASSUME NEW S \in SUBSET Jobs, ClaimDueScheduled(S) PROVE Final(j)
      BY <2>9 DEF ClaimDueScheduled, SetPromoted, Scheduled, Range
    <2>10. ASSUME NEW S \in SUBSET Jobs, ClaimDueRetries(S) PROVE Final(j)
      BY <2>10 DEF ClaimDueRetries, SetDue
    <2>11. ASSUME NEW S \in SUBSET Jobs, DeleteOldJobs(S) PROVE Final(j)
      BY <2>11 DEF DeleteOldJobs, SetDeleted, Purgeable, SetAll
    <2> HIDE DEF Final
    <2> QED
      BY <2>1, <2>2, <2>3, <2>4, <2>5, <2>6, <2>7, <2>8, <2>9, <2>10, <2>11 DEF StoreNext
  <1> QED BY <1>1, StoreInvAlways, PTL DEF StoreSpec, SettledIsFinal

-----------------------------------------------------------------------------
(***************************************************************************)
(* One next occurrence.  SeriesInv says it without cardinalities: two      *)
(* scheduled rows of a series are the same row, a series without one has   *)
(* lost a member to a cancellation or is poisoned, a poisoned one has one  *)
(* row, and a row that is still to be inserted belongs to no series.       *)
(***************************************************************************)
Stopped(j) == status[j] \in {"cancelled", "deleted"}

SeriesInv ==
  /\ \A j \in Jobs : status[j] = "absent" => series[j] = NoSeries
  /\ \A j, k \in Jobs : /\ status[j] = "scheduled" /\ status[k] = "scheduled"
                        /\ series[j] = series[k] /\ series[j] # NoSeries
                        => j = k
  /\ \A j \in Jobs : series[j] \notin Poisoned \cup {NoSeries} =>
       \E k \in Jobs : series[k] = series[j] /\ (status[k] = "scheduled" \/ Stopped(k))
  /\ \A j, k \in Jobs : series[j] = series[k] /\ series[j] \in Poisoned => j = k

(* A step that leaves series alone, schedules nothing, and takes rows out   *)
(* of scheduled only by stopping them keeps SeriesInv                       *)
LEMMA SeriesLeftAlone ==
  ASSUME StoreTypeOK, SeriesInv, UNCHANGED series, status' \in [Jobs -> JobStatus],
         \A j \in Jobs : /\ status'[j] = "scheduled" => status[j] = "scheduled"
                         /\ status'[j] = "absent" => status[j] = "absent"
                         /\ status[j] = "scheduled" /\ status'[j] # "scheduled" => Stopped(j)'
                         /\ Stopped(j) => Stopped(j)'
  PROVE  SeriesInv'
  <1>1. ASSUME NEW j \in Jobs, series'[j] \notin Poisoned \cup {NoSeries}
        PROVE  \E k \in Jobs : series'[k] = series'[j] /\ (status'[k] = "scheduled" \/ Stopped(k)')
    <2>1. PICK k \in Jobs : series[k] = series[j] /\ (status[k] = "scheduled" \/ Stopped(k))
      BY <1>1 DEF SeriesInv
    <2> QED BY <2>1
  <1>2. \A j \in Jobs : status'[j] = "absent" => series'[j] = NoSeries
    BY DEF SeriesInv
  <1>3. \A j, k \in Jobs : /\ status'[j] = "scheduled" /\ status'[k] = "scheduled"
                           /\ series'[j] = series'[k] /\ series'[j] # NoSeries
                           => j = k
    BY DEF SeriesInv
  <1>4. \A j, k \in Jobs : series'[j] = series'[k] /\ series'[j] \in Poisoned => j = k
    BY DEF SeriesInv
  <1> QED BY <1>1, <1>2, <1>3, <1>4 DEF SeriesInv

(* An insert: of a job without a series, or of the first of a new one *)
LEMMA CreateKeepsSeries ==
  ASSUME StoreTypeOK, SeriesInv,
         NEW j \in Jobs, NEW s, NEW r \in Series \cup {NoSeries}, CreateJob(j, s, r)
  PROVE  SeriesInv'
  <1> USE DEF CreateJob, StoreTypeOK
  <1>1. \A k \in Jobs : status'[k] = "absent" => series'[k] = NoSeries
    BY DEF SeriesInv
  <1>2. ASSUME NEW i \in Jobs, NEW k \in Jobs, status'[i] = "scheduled", status'[k] = "scheduled",
               series'[i] = series'[k], series'[i] # NoSeries
        PROVE  i = k
    BY <1>2 DEF SeriesInv
  <1>3. ASSUME NEW i \in Jobs, series'[i] \notin Poisoned \cup {NoSeries}
        PROVE  \E k \in Jobs : series'[k] = series'[i] /\ (status'[k] = "scheduled" \/ Stopped(k)')
    <2>1. CASE i = j
      BY <1>3, <2>1
    <2>2. CASE i # j
      <3>1. PICK k \in Jobs : series[k] = series[i] /\ (status[k] = "scheduled" \/ Stopped(k))
        BY <1>3, <2>2 DEF SeriesInv
      <3>2. k # j
        BY <3>1 DEF Stopped
      <3> QED BY <2>2, <3>1, <3>2 DEF Stopped
    <2> QED BY <2>1, <2>2
  <1>4. ASSUME NEW i \in Jobs, NEW k \in Jobs, series'[i] = series'[k], series'[i] \in Poisoned
        PROVE  i = k
    BY <1>4, StoreConstants DEF SeriesInv
  <1> QED BY <1>1, <1>2, <1>3, <1>4 DEF SeriesInv

(* The promotion: the follow-up takes the place of the member it follows *)
LEMMA PromoteKeepsSeries ==
  ASSUME StoreTypeOK, SeriesInv, NEW S \in SUBSET Jobs, ClaimDueScheduled(S)
  PROVE  SeriesInv'
  <1>1. PICK child \in [Recurring(S) -> {k \in Jobs : status[k] = "absent"}] :
          /\ IsInjective(child)
          /\ status' = [k \in Jobs |-> IF k \in S THEN "pending"
                                       ELSE IF k \in Range(child) THEN "scheduled"
                                       ELSE status[k]]
          /\ series' = [k \in Jobs |-> IF k \in Range(child)
                                       THEN series[CHOOSE j \in Recurring(S) : child[j] = k]
                                       ELSE series[k]]
    BY DEF ClaimDueScheduled, SetPromoted
  <1>2. \A x \in S : status[x] = "scheduled"
    BY DEF ClaimDueScheduled, SetPromoted, Scheduled
  <1>3. \A x \in Recurring(S) : /\ x \in S /\ x \in Jobs
                                  /\ series[x] # NoSeries /\ series[x] \notin Poisoned
    BY DEF Recurring
  <1>4. ASSUME NEW x \in Recurring(S)
        PROVE  /\ child[x] \in Jobs /\ child[x] \notin S /\ status[child[x]] = "absent"
               /\ status'[child[x]] = "scheduled"
               /\ series'[child[x]] = series[x]
    <2>1. child[x] \in Range(child)
      BY DEF Range
    <2>2. \A y \in Recurring(S) : child[y] = child[x] => y = x
      BY <1>1 DEF IsInjective
    <2>3. (CHOOSE j \in Recurring(S) : child[j] = child[x]) = x
      BY <2>2
    <2>4. child[x] \in Jobs /\ status[child[x]] = "absent"
      OBVIOUS
    <2>5. child[x] \notin S
      BY <1>2, <2>4
    <2> QED BY <1>1, <2>1, <2>3, <2>4, <2>5
  <1>5. \A k \in Range(child) : \E x \in Recurring(S) : k = child[x]
    BY DEF Range
  <1>6. \A k \in Jobs \ Range(child) : /\ series'[k] = series[k]
                                       /\ status'[k] = IF k \in S THEN "pending" ELSE status[k]
    BY <1>1
  <1>7. \A k \in Jobs : status'[k] = "absent" => series'[k] = NoSeries
    BY <1>4, <1>5, <1>6 DEF SeriesInv
  <1>8. ASSUME NEW i \in Jobs, status'[i] = "scheduled", series'[i] # NoSeries
        PROVE  \E x \in Jobs : /\ status[x] = "scheduled" /\ series[x] = series'[i]
                               /\ x \in Recurring(S) => i = child[x]
                               /\ x \notin Recurring(S) => i = x
    <2>1. CASE i \in Range(child)
      BY <1>2, <1>3, <1>4, <1>5, <2>1
    <2>2. CASE i \notin Range(child)
      <3>1. i \notin S /\ status[i] = "scheduled" /\ series[i] = series'[i]
        BY <1>6, <1>8, <2>2
      <3> QED BY <1>3, <3>1
    <2> QED BY <2>1, <2>2
  <1>9. ASSUME NEW i \in Jobs, NEW k \in Jobs, status'[i] = "scheduled", status'[k] = "scheduled",
               series'[i] = series'[k], series'[i] # NoSeries
        PROVE  i = k
    <2>1. PICK x \in Jobs : /\ status[x] = "scheduled" /\ series[x] = series'[i]
                            /\ x \in Recurring(S) => i = child[x]
                            /\ x \notin Recurring(S) => i = x
      BY <1>8, <1>9
    <2>2. PICK y \in Jobs : /\ status[y] = "scheduled" /\ series[y] = series'[k]
                            /\ y \in Recurring(S) => k = child[y]
                            /\ y \notin Recurring(S) => k = y
      BY <1>8, <1>9
    <2>3. x = y
      BY <1>9, <2>1, <2>2 DEF SeriesInv
    <2> QED BY <2>1, <2>2, <2>3
  <1>10. ASSUME NEW i \in Jobs, series[i] \notin Poisoned \cup {NoSeries}
         PROVE  \E k \in Jobs : series'[k] = series[i] /\ (status'[k] = "scheduled" \/ Stopped(k)')
    <2>1. PICK k \in Jobs : series[k] = series[i] /\ (status[k] = "scheduled" \/ Stopped(k))
      BY <1>10 DEF SeriesInv
    <2>2. CASE k \in S
      <3>1. k \in Recurring(S)
        BY <1>10, <2>1, <2>2 DEF Recurring
      <3> QED BY <1>4, <2>1, <3>1
    <2>3. CASE k \notin S
      <3>1. k \notin Range(child)
        BY <1>4, <1>5, <2>1 DEF Stopped
      <3> QED BY <1>6, <2>1, <2>3, <3>1 DEF Stopped
    <2> QED BY <2>2, <2>3
  <1>11. ASSUME NEW i \in Jobs, series'[i] \notin Poisoned \cup {NoSeries}
         PROVE  \E k \in Jobs : series'[k] = series'[i] /\ (status'[k] = "scheduled" \/ Stopped(k)')
    <2>1. CASE i \in Range(child)
      BY <1>4, <1>5, <2>1
    <2>2. CASE i \notin Range(child)
      BY <1>6, <1>10, <1>11, <2>2
    <2> QED BY <2>1, <2>2
  <1>12. ASSUME NEW i \in Jobs, NEW k \in Jobs, series'[i] = series'[k], series'[i] \in Poisoned
         PROVE  i = k
    <2>1. i \notin Range(child) /\ k \notin Range(child)
      BY <1>3, <1>4, <1>5, <1>12
    <2> QED BY <1>6, <1>12, <2>1 DEF SeriesInv
  <1> QED BY <1>7, <1>9, <1>11, <1>12 DEF SeriesInv

LEMMA SeriesInvNext == StoreTypeOK /\ SeriesInv /\ [StoreNext]_storeVars => SeriesInv'
  <1> SUFFICES ASSUME StoreTypeOK, SeriesInv, [StoreNext]_storeVars PROVE SeriesInv'
    OBVIOUS
  <1> DEFINE LeftAlone ==
        /\ UNCHANGED series /\ status' \in [Jobs -> JobStatus]
        /\ \A j \in Jobs : /\ status'[j] = "scheduled" => status[j] = "scheduled"
                           /\ status'[j] = "absent" => status[j] = "absent"
                           /\ status[j] = "scheduled" /\ status'[j] # "scheduled" => Stopped(j)'
                           /\ Stopped(j) => Stopped(j)'
  <1>0. LeftAlone => SeriesInv'
    BY SeriesLeftAlone
  <1> USE DEF StoreTypeOK, JobStatus, Stopped
  <1>1. ASSUME NEW i \in Jobs, RetryJob(i) PROVE LeftAlone
    BY <1>1 DEF RetryJob, SetRetried
  <1>2. ASSUME NEW i \in Jobs, CancelJob(i) PROVE LeftAlone
    BY <1>2 DEF CancelJob, SetCancelled, SetAll, Cancellable
  <1>3. ASSUME NEW i \in Jobs, status[i] # "scheduled" /\ ClaimRunning(i) PROVE LeftAlone
    BY <1>3 DEF ClaimRunning, SetRunning, CanClaim, Claimable
  <1>4. ASSUME NEW i \in Jobs, NEW t, Heartbeat(i, t) \/ Complete(i, t) \/ FailOrRetry(i, t)
        PROVE  LeftAlone
    BY <1>4 DEF Heartbeat, Complete, SetCompleted, FailOrRetry, SetFailed, Owns
  <1>5. ASSUME NEW i \in Jobs, NotBeforePasses(i) \/ HeartbeatAges(i) PROVE LeftAlone
    BY <1>5 DEF NotBeforePasses, HeartbeatAges
  <1>6. ASSUME NEW S \in SUBSET Jobs, NEW r \in Series, CancelSeries(r, S) PROVE LeftAlone
    BY <1>6 DEF CancelSeries, SetCancelled, Cancellable, SetAll
  <1>7. ASSUME NEW S \in SUBSET Jobs, ClaimStaleRunning(S) PROVE LeftAlone
    BY <1>7 DEF ClaimStaleRunning, SetReclaimed, StaleRunning, SetAll
  <1>8. ASSUME NEW S \in SUBSET Jobs, ClaimDueRetries(S) PROVE LeftAlone
    BY <1>8 DEF ClaimDueRetries, SetDue
  <1>9. ASSUME NEW S \in SUBSET Jobs, DeleteOldJobs(S) PROVE LeftAlone
    BY <1>9 DEF DeleteOldJobs, SetDeleted, Purgeable, SetAll
  <1>10. CASE UNCHANGED storeVars
    BY <1>10, <1>0 DEF storeVars
  <1> HIDE DEF LeftAlone
  <1> QED
    BY <1>0, <1>1, <1>2, <1>3, <1>4, <1>5, <1>6, <1>7, <1>8, <1>9, <1>10,
       CreateKeepsSeries, PromoteKeepsSeries DEF StoreNext

(* A recurring series has one next occurrence, however promotions, follow-  *)
(* ups, cancellations and retention interleave, and one with a poisoned     *)
(* expression never has a second (ClaimDueScheduled, scheduleFollowup).     *)
THEOREM SeriesGoesOn == StoreSpec => []OneNextOccurrence
  <1>1. StoreInit => SeriesInv
    BY StoreConstants DEF StoreInit, SeriesInv
  <1>2. StoreInv => StoreTypeOK
    BY DEF StoreInv
  <1>3. StoreTypeOK /\ SeriesInv => OneNextOccurrence
    <2> SUFFICES ASSUME StoreTypeOK, SeriesInv, NEW r \in Series
                 PROVE  LET next == {j \in Occurrences(r) : status[j] = "scheduled"} IN
                        /\ Cardinality(next) <= 1
                        /\ r \in Poisoned => Cardinality(Occurrences(r)) <= 1
                        /\ r \notin Poisoned /\ Occurrences(r) # {} /\ next = {} =>
                             \E j \in Occurrences(r) : status[j] \in {"cancelled", "deleted"}
      BY DEF OneNextOccurrence
    <2> DEFINE next == {j \in Occurrences(r) : status[j] = "scheduled"}
    <2>0. r # NoSeries
      BY StoreConstants
    <2>1. \A j, k \in next : j = k
      BY <2>0 DEF Occurrences, SeriesInv
    <2>2. next = {} \/ \E j \in next : next = {j}
      BY <2>1
    <2>3. Cardinality(next) <= 1
      BY <2>2, FS_EmptySet, FS_Singleton
    <2>4. ASSUME r \notin Poisoned, Occurrences(r) # {}, next = {}
          PROVE  \E j \in Occurrences(r) : status[j] \in {"cancelled", "deleted"}
      <3>1. PICK j \in Occurrences(r) : TRUE
        BY <2>4
      <3>2. PICK k \in Jobs : series[k] = r /\ (status[k] = "scheduled" \/ Stopped(k))
        BY <2>0, <2>4, <3>1 DEF Occurrences, SeriesInv
      <3> QED BY <2>4, <3>2 DEF Occurrences, Stopped
    <2>5. ASSUME r \in Poisoned PROVE Cardinality(Occurrences(r)) <= 1
      <3>1. \A j, k \in Jobs : series[j] = r /\ series[k] = r => j = k
        BY <2>5 DEF SeriesInv
      <3>2. CASE Occurrences(r) = {}
        BY <3>2, FS_EmptySet
      <3>3. ASSUME NEW j \in Occurrences(r) PROVE Cardinality(Occurrences(r)) <= 1
        <4>1. Occurrences(r) = {j}
          BY <3>1 DEF Occurrences
        <4>2. Cardinality({j}) = 1
          BY FS_Singleton
        <4> QED BY <4>1, <4>2
      <3> QED BY <3>2, <3>3
    <2> QED BY <2>3, <2>4, <2>5
  <1> QED BY <1>1, <1>2, <1>3, StoreInvAlways, SeriesInvNext, PTL DEF StoreSpec
=============================================================================
