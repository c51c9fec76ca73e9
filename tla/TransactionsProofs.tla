------------------------- MODULE TransactionsProofs -------------------------
(***************************************************************************)
(* Row locks make the operations of the jobs table atomic.  The inductive  *)
(* invariant says that a held row is held once and still qualifies; since  *)
(* nobody else writes it, the commit finds the guard of its JobStore step  *)
(* true, and the transaction as a whole is that one step.                  *)
(***************************************************************************)
EXTENDS Transactions, JobStoreProofs, TLAPS

(* The purge takes rows on the word of its snapshot: they must still be     *)
(* final when it comes to them.                                             *)
Final == {"completed", "cancelled", "deleted"}

ScanIsFinal ==
  \A t \in Txs : tx[t].op = "purge" => \A j \in tx[t].scan : status[j] \in Final

(* Between transactions a session holds nothing *)
SessionOK ==
  \A t \in Txs :
    /\ tx[t].op = "none" => tx[t].rows = {} /\ tx[t].scan = {}
    /\ tx[t].op = "series" => tx[t].series \in Series

TxInv == StoreInv /\ TxTypeOK /\ SeenStillHolds /\ ScanIsFinal /\ SessionOK

-----------------------------------------------------------------------------
(* Row j is the same before and after a step, as far as a SELECT sees it *)
SameRow(j) ==
  /\ status'[j] = status[j] /\ claimToken'[j] = claimToken[j]
  /\ notBefore'[j] = notBefore[j] /\ heartbeat'[j] = heartbeat[j]
  /\ series'[j] = series[j] /\ claims'[j] = claims[j]

(* A row that does not change goes on qualifying *)
LEMMA SameRowQualifies ==
  ASSUME NEW op, NEW r, NEW j \in Jobs, SameRow(j), Qualifies(op, r, j)
  PROVE  Qualifies(op, r, j)'
  BY DEF SameRow, Qualifies, CanClaim, Owns, Scheduled, DueRetries, StaleRunning, Purgeable

(* No operation takes a row that is not in the table *)
LEMMA QualifiedExists ==
  ASSUME NEW op, NEW r, NEW j \in Jobs, Qualifies(op, r, j)
  PROVE  status[j] \notin {"absent", "deleted"}
  BY DEF Qualifies, CanClaim, Owns, Scheduled, DueRetries, StaleRunning, Purgeable,
         Claimable, Cancellable, Waiting

(* The clock never takes a qualification away *)
LEMMA ClockQualifies ==
  ASSUME StoreTypeOK, NEW i \in Jobs, NotBeforePasses(i) \/ HeartbeatAges(i),
         NEW op, NEW r, NEW j \in Jobs, Qualifies(op, r, j)
  PROVE  Qualifies(op, r, j)'
  BY DEF StoreTypeOK, NotBeforePasses, HeartbeatAges, Qualifies, CanClaim, Owns, Scheduled,
         DueRetries, StaleRunning, Purgeable

(* A final row is left by no operation *)
LEMMA FinalStays ==
  ASSUME StoreInv, [StoreNext]_storeVars, NEW j \in Jobs, status[j] \in Final
  PROVE  status'[j] \in Final
  <1> USE DEF Final
  <1>0. status \in [Jobs -> JobStatus]
    BY DEF StoreInv, StoreTypeOK
  <1>1. ASSUME NEW i \in Jobs, NEW s \in {"pending", "scheduled"},
               NEW r \in Series \cup {NoSeries}, CreateJob(i, s, r)
        PROVE status'[j] \in Final
    BY <1>0, <1>1 DEF CreateJob
  <1>2. ASSUME NEW i \in Jobs, RetryJob(i) PROVE status'[j] \in Final
    BY <1>0, <1>2 DEF RetryJob, SetRetried
  <1>3. ASSUME NEW i \in Jobs, CancelJob(i) PROVE status'[j] \in Final
    BY <1>0, <1>3 DEF CancelJob, SetCancelled, SetAll
  <1>4. ASSUME NEW i \in Jobs, ClaimRunning(i) PROVE status'[j] \in Final
    BY <1>0, <1>4 DEF ClaimRunning, SetRunning, CanClaim, Claimable
  <1>5. ASSUME NEW i \in Jobs, NEW t \in 1..claims[i],
               Heartbeat(i, t) \/ Complete(i, t) \/ FailOrRetry(i, t)
        PROVE status'[j] \in Final
    BY <1>0, <1>5 DEF Heartbeat, Complete, SetCompleted, FailOrRetry, SetFailed, Owns
  <1>6. ASSUME NEW i \in Jobs, NotBeforePasses(i) \/ HeartbeatAges(i)
        PROVE status'[j] \in Final
    BY <1>0, <1>6 DEF NotBeforePasses, HeartbeatAges
  <1>7. ASSUME NEW S \in SUBSET Jobs, NEW r \in Series, CancelSeries(r, S)
        PROVE status'[j] \in Final
    BY <1>0, <1>7 DEF CancelSeries, SetCancelled, SetAll
  <1>8. ASSUME NEW S \in SUBSET Jobs, ClaimStaleRunning(S) PROVE status'[j] \in Final
    BY <1>0, <1>8 DEF ClaimStaleRunning, SetReclaimed, StaleRunning, SetAll
  <1>9. ASSUME NEW S \in SUBSET Jobs, ClaimDueScheduled(S) PROVE status'[j] \in Final
    BY <1>0, <1>9 DEF ClaimDueScheduled, SetPromoted, Scheduled, Range
  <1>10. ASSUME NEW S \in SUBSET Jobs, ClaimDueRetries(S) PROVE status'[j] \in Final
    BY <1>0, <1>10 DEF ClaimDueRetries, SetDue
  <1>11. ASSUME NEW S \in SUBSET Jobs, DeleteOldJobs(S) PROVE status'[j] \in Final
    BY <1>0, <1>11 DEF DeleteOldJobs, SetDeleted, SetAll
  <1>12. CASE UNCHANGED storeVars
    BY <1>12 DEF storeVars
  <1> QED BY <1>1, <1>2, <1>3, <1>4, <1>5, <1>6, <1>7, <1>8, <1>9, <1>10, <1>11, <1>12
          DEF StoreNext

-----------------------------------------------------------------------------
(* The commit of a transaction is the step of its operation *)
LEMMA CommitImplements ==
  ASSUME TxInv, NEW t \in Txs, Commit(t)
  PROVE  StoreNext
  <1> DEFINE op == tx[t].op
             rows == tx[t].rows
  <1>0. /\ rows \subseteq Jobs
        /\ \A j \in rows : Qualifies(op, tx[t].series, j)
    BY DEF TxInv, TxTypeOK, Session, SeenStillHolds
  <1>1. ASSUME NEW j \in rows, op = "claim", SetRunning(j) PROVE StoreNext
    BY <1>0, <1>1 DEF Qualifies, ClaimRunning, StoreNext
  <1>2. ASSUME NEW j \in rows, op = "complete", SetCompleted(j) PROVE StoreNext
    BY <1>0, <1>2 DEF Qualifies, Complete, StoreNext
  <1>3. ASSUME NEW j \in rows, op = "fail", SetFailed(j) PROVE StoreNext
    BY <1>0, <1>3 DEF Qualifies, FailOrRetry, StoreNext
  <1>4. ASSUME NEW j \in rows, op = "cancel", SetCancelled({j}) PROVE StoreNext
    BY <1>0, <1>4 DEF Qualifies, CancelJob, StoreNext
  <1>5. ASSUME NEW j \in rows, op = "retry", SetRetried(j) PROVE StoreNext
    BY <1>0, <1>5 DEF Qualifies, RetryJob, StoreNext
  <1>6. CASE op = "promote" /\ SetPromoted(rows)
    BY <1>0, <1>6 DEF Qualifies, ClaimDueScheduled, StoreNext
  <1>7. CASE op = "due" /\ SetDue(rows)
    BY <1>0, <1>7 DEF Qualifies, ClaimDueRetries, StoreNext
  <1>8. CASE op = "reclaim" /\ SetReclaimed(rows)
    BY <1>0, <1>8 DEF Qualifies, ClaimStaleRunning, StoreNext
  <1>9. CASE op = "purge" /\ SetDeleted(rows)
    BY <1>0, <1>9 DEF Qualifies, DeleteOldJobs, StoreNext
  <1>10. CASE op = "series" /\ SetCancelled(rows)
    <2>1. tx[t].series \in Series
      BY <1>10 DEF TxInv, SessionOK
    <2>2. CancelSeries(tx[t].series, rows)
      BY <1>0, <1>10, <2>1, StoreConstants DEF Qualifies, CancelSeries
    <2> QED BY <1>0, <2>1, <2>2 DEF StoreNext
  <1> QED BY <1>1, <1>2, <1>3, <1>4, <1>5, <1>6, <1>7, <1>8, <1>9, <1>10 DEF Commit

(* Every step of the transactions is a step of the table, or none *)
LEMMA StepImplements ==
  ASSUME TxInv, [TxNext]_txVars
  PROVE  [StoreNext]_storeVars
  <1>1. ASSUME NEW j \in Jobs, NEW s \in {"pending", "scheduled"},
               NEW r \in Series \cup {NoSeries}, Insert(j, s, r)
        PROVE  StoreNext
    BY <1>1 DEF Insert, StoreNext
  <1>2. ASSUME NEW j \in Jobs, Refresh(j) PROVE StoreNext
    BY <1>2 DEF Refresh, StoreNext
  <1>3. ASSUME NEW j \in Jobs, Clock(j) PROVE StoreNext
    BY <1>3 DEF Clock, StoreNext
  <1>4. ASSUME NEW t \in Txs, Commit(t) PROVE StoreNext
    BY <1>4, CommitImplements
  <1>5. ASSUME NEW t \in Txs,
               \/ \E op \in SingleOps, j \in Jobs : LockRow(t, op, j)
               \/ \E op \in LimitedOps : Scan(t, op, NoSeries)
               \/ \E r \in Series : Scan(t, "series", r)
               \/ \E j \in Jobs : Visit(t, j)
               \/ Rollback(t)
        PROVE  UNCHANGED storeVars
    BY <1>5 DEF LockRow, Scan, Visit, Rollback
  <1>6. CASE UNCHANGED txVars
    BY <1>6 DEF txVars
  <1> QED BY <1>1, <1>2, <1>3, <1>4, <1>5, <1>6 DEF TxNext

-----------------------------------------------------------------------------
(* A commit leaves the rows of the other sessions alone *)
LEMMA CommitTouches ==
  ASSUME TxInv, NEW t \in Txs, Commit(t), NEW j \in Jobs, j \notin tx[t].rows,
         status[j] # "absent"
  PROVE  SameRow(j)
  <1> DEFINE op == tx[t].op
             rows == tx[t].rows
  <1> USE DEF SameRow
  <1>0. StoreTypeOK /\ rows \subseteq Jobs
    BY DEF TxInv, TxTypeOK, Session
  <1> USE <1>0 DEF StoreTypeOK
  <1>1. ASSUME NEW i \in rows, SetRunning(i) PROVE SameRow(j)
    BY <1>1 DEF SetRunning
  <1>2. ASSUME NEW i \in rows, SetCompleted(i) \/ SetFailed(i) \/ SetRetried(i)
        PROVE  SameRow(j)
    BY <1>2 DEF SetCompleted, SetFailed, SetRetried
  <1>3. ASSUME NEW i \in rows, SetCancelled({i}) PROVE SameRow(j)
    BY <1>3 DEF SetCancelled, SetAll
  <1>4. CASE SetPromoted(rows)
    BY <1>4 DEF SetPromoted, Range
  <1>5. CASE SetDue(rows)
    BY <1>5 DEF SetDue, SetAll
  <1>6. CASE SetReclaimed(rows)
    BY <1>6 DEF SetReclaimed, SetAll
  <1>7. CASE SetDeleted(rows) \/ SetCancelled(rows)
    BY <1>7 DEF SetDeleted, SetCancelled, SetAll
  <1> QED BY <1>1, <1>2, <1>3, <1>4, <1>5, <1>6, <1>7 DEF Commit

LEMMA TxInvInit == TxInit => TxInv
  <1> SUFFICES ASSUME TxInit PROVE TxInv
    OBVIOUS
  <1>1. StoreInv
    BY StoreInvInit DEF TxInit
  <1>2. TxTypeOK
    BY <1>1 DEF TxInit, TxTypeOK, Session, StoreInv, Idle
  <1> QED BY <1>1, <1>2 DEF TxInit, TxInv, SeenStillHolds, ScanIsFinal, SessionOK, Idle

(* The part of the invariant about the table, and the type invariant *)
LEMMA TxTypeKept ==
  ASSUME TxInv, [TxNext]_txVars
  PROVE  StoreInv' /\ TxTypeOK'
  <1>1. [StoreNext]_storeVars
    BY StepImplements
  <1>2. StoreInv'
    BY <1>1, StoreInvNext DEF TxInv
  <1>3. StoreTypeOK'
    BY <1>2 DEF StoreInv
  <1>9. ASSUME UNCHANGED <<tx, stopped>> PROVE TxTypeOK'
    BY <1>3, <1>9 DEF TxInv, TxTypeOK
  <1> USE <1>3 DEF TxInv, TxTypeOK, Session, Idle, Ops
  <1>4. ASSUME NEW t \in Txs, NEW op \in SingleOps, NEW j \in Jobs, LockRow(t, op, j)
        PROVE  TxTypeOK'
    BY <1>4 DEF LockRow
  <1>5. ASSUME NEW t \in Txs, NEW op \in Ops, NEW r \in Series \cup {NoSeries}, Scan(t, op, r)
        PROVE  TxTypeOK'
    BY <1>5 DEF Scan
  <1>6. ASSUME NEW t \in Txs, NEW j \in Jobs, Visit(t, j) PROVE TxTypeOK'
    <2>1. tx' = [tx EXCEPT ![t].scan = @ \ {j}, ![t].rows = @ \cup {j}]
          \/ tx' = [tx EXCEPT ![t].scan = @ \ {j}, ![t].rows = @]
      BY <1>6 DEF Visit
    <2> QED BY <1>6, <2>1 DEF Visit
  <1>7. ASSUME NEW t \in Txs, Commit(t) PROVE TxTypeOK'
    <2>1. tx[t].op = "series" => tx[t].series \in Series
      BY DEF SessionOK
    <2> QED BY <1>7, <2>1 DEF Commit
  <1>8. ASSUME NEW t \in Txs, Rollback(t) PROVE TxTypeOK'
    BY <1>8 DEF Rollback
  <1> QED BY <1>2, <1>4, <1>5, <1>6, <1>7, <1>8, <1>9
             DEF TxNext, txVars, Insert, Refresh, Clock, LimitedOps

(* The sessions between and inside transactions *)
LEMMA SessionKept ==
  ASSUME TxInv, [TxNext]_txVars
  PROVE  SessionOK'
  <1> USE DEF TxInv, TxTypeOK, Session, SessionOK, Idle
  <1>1. ASSUME NEW t \in Txs, NEW op \in SingleOps, NEW j \in Jobs, LockRow(t, op, j)
        PROVE  SessionOK'
    BY <1>1 DEF LockRow, SingleOps
  <1>2. ASSUME NEW t \in Txs, NEW op \in LimitedOps, Scan(t, op, NoSeries)
        PROVE  SessionOK'
    BY <1>2 DEF Scan, LimitedOps
  <1>3. ASSUME NEW t \in Txs, NEW r \in Series, Scan(t, "series", r) PROVE SessionOK'
    BY <1>3 DEF Scan
  <1>4. ASSUME NEW t \in Txs, NEW j \in Jobs, Visit(t, j) PROVE SessionOK'
    BY <1>4 DEF Visit
  <1>5. ASSUME NEW t \in Txs, Commit(t) \/ Rollback(t) PROVE SessionOK'
    BY <1>5 DEF Commit, Rollback
  <1>6. CASE UNCHANGED tx
    BY <1>6
  <1> QED BY <1>1, <1>2, <1>3, <1>4, <1>5, <1>6 DEF TxNext, txVars, Insert, Refresh, Clock

(* What a scan for the purge found stays final, whoever commits meanwhile *)
LEMMA ScanKept ==
  ASSUME TxInv, [TxNext]_txVars
  PROVE  ScanIsFinal'
  <1> SUFFICES ASSUME NEW u \in Txs, tx'[u].op = "purge", NEW j \in tx'[u].scan
               PROVE  status'[j] \in Final
    BY DEF ScanIsFinal
  <1>1. j \in Jobs
    BY TxTypeKept DEF TxTypeOK, Session
  <1>2. ASSUME status[j] \in Final PROVE status'[j] \in Final
    BY <1>1, <1>2, StepImplements, FinalStays DEF TxInv
  <1> USE DEF TxInv, TxTypeOK, Session, ScanIsFinal, Idle
  <1>3. ASSUME tx'[u].op = tx[u].op, tx'[u].scan \subseteq tx[u].scan
        PROVE  status'[j] \in Final
    BY <1>2, <1>3
  <1>4. ASSUME NEW t \in Txs, NEW op \in LimitedOps, Scan(t, op, NoSeries)
        PROVE  status'[j] \in Final
    <2>1. CASE u = t
      <3>1. op = "purge" /\ Qualifies(op, NoSeries, j)
        BY <1>4, <2>1 DEF Scan
      <3> QED BY <1>2, <3>1 DEF Qualifies, Purgeable, Final
    <2> QED BY <1>3, <1>4, <2>1 DEF Scan
  <1>5. ASSUME NEW t \in Txs, NEW i \in Jobs, Visit(t, i) PROVE status'[j] \in Final
    BY <1>3, <1>5 DEF Visit
  <1>6. ASSUME NEW t \in Txs, NEW op \in SingleOps, NEW i \in Jobs, LockRow(t, op, i)
        PROVE  status'[j] \in Final
    BY <1>3, <1>6 DEF LockRow
  <1>7. ASSUME NEW t \in Txs, NEW r \in Series, Scan(t, "series", r)
        PROVE  status'[j] \in Final
    BY <1>3, <1>7 DEF Scan
  <1>8. ASSUME NEW t \in Txs, Commit(t) \/ Rollback(t) PROVE status'[j] \in Final
    BY <1>3, <1>8 DEF Commit, Rollback
  <1>9. ASSUME UNCHANGED tx PROVE status'[j] \in Final
    BY <1>3, <1>9
  <1> QED BY <1>4, <1>5, <1>6, <1>7, <1>8, <1>9 DEF TxNext, txVars, Insert, Refresh, Clock

(* A row that is held stays held by one, and goes on qualifying *)
LEMMA SeenKept ==
  ASSUME TxInv, [TxNext]_txVars
  PROVE  SeenStillHolds'
  <1> SUFFICES ASSUME NEW u \in Txs, NEW j \in tx'[u].rows,
                      NEW op, NEW r, op = tx'[u].op, r = tx'[u].series
               PROVE  Free(u, j)' /\ Qualifies(op, r, j)'
    BY DEF SeenStillHolds, Qualifies
  <1>0. j \in Jobs /\ StoreTypeOK /\ tx \in [Txs -> Session] /\ tx' \in [Txs -> Session]
    BY TxTypeKept DEF TxInv, TxTypeOK, Session
  <1> USE <1>0
  <1>1. \A v \in Txs : \A i \in tx[v].rows :
          Free(v, i) /\ Qualifies(tx[v].op, tx[v].series, i)
    BY DEF TxInv, SeenStillHolds
  <1> DEFINE Before == j \in tx[u].rows /\ op = tx[u].op /\ r = tx[u].series
             Shrink == \A v \in Txs : tx'[v].rows \subseteq tx[v].rows
  (* Sessions only gave rows up, and u had its row before *)
  <1>2. ASSUME Before PROVE Free(u, j) /\ Qualifies(op, r, j) /\ status[j] # "absent"
    <2>1. Free(u, j) /\ Qualifies(op, r, j)
      BY <1>1, <1>2
    <2> QED BY <2>1, QualifiedExists
  <1>3. ASSUME Before, Shrink PROVE Free(u, j)'
    BY <1>2, <1>3 DEF Free
  <1>4. ASSUME UNCHANGED storeVars, Qualifies(op, r, j) PROVE Qualifies(op, r, j)'
    <2>1. SameRow(j)
      BY <1>4 DEF storeVars, SameRow
    <2> QED BY <1>4, <2>1, SameRowQualifies
  <1>5. ASSUME NEW t \in Txs, NEW o \in SingleOps, NEW i \in Jobs, LockRow(t, o, i)
        PROVE  Free(u, j)' /\ Qualifies(op, r, j)'
    <2>1. tx' = [tx EXCEPT ![t] = [Idle EXCEPT !.op = o, !.rows = {i}]]
          /\ Free(t, i) /\ Qualifies(o, NoSeries, i) /\ UNCHANGED storeVars
      BY <1>5 DEF LockRow
    <2>2. CASE u = t
      <3>1. j = i /\ op = o /\ r = NoSeries
        BY <2>1, <2>2 DEF Session, Idle
      <3>2. Free(u, j)'
        BY <2>1, <2>2, <3>1 DEF Free
      <3> QED BY <1>4, <2>1, <3>1, <3>2
    <2>3. CASE u # t
      <3>1. Before
        BY <2>1, <2>3
      <3>2. j # i
        BY <2>1, <2>3, <3>1 DEF Free
      <3>3. Free(u, j)'
        BY <1>2, <2>1, <3>1, <3>2 DEF Free, Session, Idle
      <3> QED BY <1>2, <1>4, <2>1, <3>1, <3>3
    <2> QED BY <2>2, <2>3
  <1>6. ASSUME NEW t \in Txs, NEW i \in Jobs, Visit(t, i)
        PROVE  Free(u, j)' /\ Qualifies(op, r, j)'
    <2> DEFINE x == tx[t]
               takes == IF x.op = "purge" THEN status[i] # "deleted"
                        ELSE Free(t, i) /\ Qualifies(x.op, x.series, i)
    <2>1. /\ i \in x.scan
          /\ x.op = "purge" => Free(t, i)
          /\ tx' = [tx EXCEPT ![t].scan = @ \ {i},
                              ![t].rows = IF takes THEN @ \cup {i} ELSE @]
          /\ UNCHANGED storeVars
      BY <1>6 DEF Visit
    <2>2. /\ tx'[t].rows = IF takes THEN x.rows \cup {i} ELSE x.rows
          /\ tx'[t].op = x.op /\ tx'[t].series = x.series
          /\ \A v \in Txs \ {t} : tx'[v] = tx[v]
      BY <2>1 DEF Session
    <2>3. takes => Free(t, i)
      BY <2>1
    <2> HIDE DEF takes
    <2>4. CASE j \in tx[u].rows
      <3>1. Before
        BY <2>2, <2>4
      <3>2. Free(u, j)'
        BY <1>2, <2>2, <2>3, <3>1 DEF Free
      <3> QED BY <1>2, <1>4, <2>1, <3>1, <3>2
    <2>5. CASE j \notin tx[u].rows
      <3>1. u = t /\ takes /\ j = i
        BY <2>2, <2>5
      <3>2. Free(u, j)'
        BY <2>2, <2>3, <3>1 DEF Free
      <3>3. Qualifies(op, r, j)
        <4>1. CASE x.op = "purge"
          <5>1. status[j] \in {"completed", "cancelled"}
            BY <2>1, <3>1, <4>1 DEF TxInv, ScanIsFinal, Final, takes
          <5> QED BY <2>2, <3>1, <4>1, <5>1 DEF Qualifies, Purgeable
        <4>2. CASE x.op # "purge"
          BY <2>2, <3>1, <4>2 DEF takes
        <4> QED BY <4>1, <4>2
      <3> QED BY <1>4, <2>1, <3>2, <3>3
    <2> QED BY <2>4, <2>5
  <1>7. ASSUME NEW t \in Txs, NEW o, NEW q, Scan(t, o, q)
        PROVE  Free(u, j)' /\ Qualifies(op, r, j)'
    <2>1. Before /\ Shrink /\ UNCHANGED storeVars
      BY <1>7 DEF Scan, Session, Idle
    <2> QED BY <1>2, <1>3, <1>4, <2>1
  <1>8. ASSUME NEW t \in Txs, Commit(t)
        PROVE  Free(u, j)' /\ Qualifies(op, r, j)'
    <2>1. Before /\ Shrink /\ u # t
      BY <1>8 DEF Commit, Session, Idle
    <2>2. j \notin tx[t].rows
      BY <1>2, <2>1 DEF Free
    <2>3. SameRow(j)
      BY <1>2, <1>8, <2>1, <2>2, CommitTouches
    <2> QED BY <1>2, <1>3, <2>1, <2>3, SameRowQualifies
  <1>9. ASSUME NEW t \in Txs, Rollback(t)
        PROVE  Free(u, j)' /\ Qualifies(op, r, j)'
    <2>1. Before /\ Shrink /\ UNCHANGED storeVars
      BY <1>9 DEF Rollback, Session, Idle
    <2> QED BY <1>2, <1>3, <1>4, <2>1
  <1>10. ASSUME NEW i \in Jobs, NEW s \in {"pending", "scheduled"},
                NEW q \in Series \cup {NoSeries}, Insert(i, s, q)
         PROVE  Free(u, j)' /\ Qualifies(op, r, j)'
    <2>1. Before /\ Shrink
      BY <1>10 DEF Insert
    <2>2. SameRow(j)
      BY <1>2, <1>10, <2>1 DEF Insert, CreateJob, SameRow, StoreTypeOK
    <2> QED BY <1>2, <1>3, <2>1, <2>2, SameRowQualifies
  <1>11. ASSUME NEW i \in Jobs, Refresh(i) PROVE Free(u, j)' /\ Qualifies(op, r, j)'
    <2>1. Before /\ Shrink
      BY <1>11 DEF Refresh
    <2>2. SameRow(j)
      BY <1>11, <2>1 DEF Refresh, Heartbeat, SameRow, StoreTypeOK
    <2> QED BY <1>2, <1>3, <2>1, <2>2, SameRowQualifies
  <1>12. ASSUME NEW i \in Jobs, Clock(i) PROVE Free(u, j)' /\ Qualifies(op, r, j)'
    <2>1. Before /\ Shrink
      BY <1>12 DEF Clock
    <2> QED BY <1>2, <1>3, <1>12, <2>1, ClockQualifies DEF Clock
  <1>13. ASSUME UNCHANGED txVars PROVE Free(u, j)' /\ Qualifies(op, r, j)'
    <2>1. Before /\ Shrink /\ UNCHANGED storeVars
      BY <1>13 DEF txVars
    <2> QED BY <1>2, <1>3, <1>4, <2>1
  <1> QED BY <1>5, <1>6, <1>7, <1>8, <1>9, <1>10, <1>11, <1>12, <1>13 DEF TxNext

-----------------------------------------------------------------------------
LEMMA TxInvAlways == TxSpec => []TxInv
  <1>1. TxInv /\ [TxNext]_txVars => TxInv'
    BY TxTypeKept, SessionKept, ScanKept, SeenKept DEF TxInv
  <1> QED BY <1>1, TxInvInit, PTL DEF TxSpec

(* Type correctness, for any number of sessions, jobs and series *)
THEOREM TxTypeCorrect == TxSpec => []TxTypeOK
  BY TxInvAlways, PTL DEF TxInv

(* A row locked by FOR UPDATE is held by one transaction and still meets    *)
(* its condition when that transaction writes; a row that SKIP LOCKED       *)
(* passes over is written by its holder only.                               *)
THEOREM LocksSuffice == TxSpec => []SeenStillHolds
  BY TxInvAlways, PTL DEF TxInv

(* However the transactions of the operations interleave, the committed     *)
(* table makes the steps of JobStore: each operation is atomic.             *)
THEOREM OperationsAreAtomic == TxSpec => KeepsStore
  <1>1. TxInit => StoreInit
    BY DEF TxInit
  <1>2. TxInv /\ [TxNext]_txVars => [StoreNext]_storeVars
    BY StepImplements
  <1> QED BY <1>1, <1>2, TxInvAlways, PTL DEF TxSpec, KeepsStore, StoreSpec

(* What JobStoreProofs proves of the table holds of the transactions:       *)
(* tokens, retry budget, series and settled jobs.                           *)
THEOREM TransactionsKeepTable ==
  TxSpec => [](TokenDiscipline /\ RetryBudget) /\ []OneNextOccurrence /\ SettledIsFinal
  BY OperationsAreAtomic, TokensDisciplined, BudgetKept, SeriesGoesOn, SettledStaysSettled,
     PTL DEF KeepsStore
=============================================================================
