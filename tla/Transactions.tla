---------------------------- MODULE Transactions ----------------------------
(***************************************************************************)
(* The operations of internal/storage/jobs as PostgreSQL runs them: several *)
(* short READ COMMITTED transactions at once, each of which locks rows      *)
(* first and writes them at its commit.  JobStore takes each operation as   *)
(* one step; this module says why it may.                                   *)
(*                                                                          *)
(* An operation on one job is SELECT ... FOR UPDATE: it waits while another *)
(* transaction holds the row, then looks at the row as committed.  A batch  *)
(* is SELECT ... FOR UPDATE SKIP LOCKED LIMIT n: it goes through the rows   *)
(* its snapshot found, passes over those another transaction holds, and     *)
(* looks again at the ones it locks.  The UPDATE that follows has no other  *)
(* condition that could still fail, so a commit writes blindly.             *)
(*                                                                          *)
(* The variables of JobStore are the committed table.                       *)
(***************************************************************************)
EXTENDS JobStore

CONSTANT Txs          (* database sessions: the bound on concurrent operations *)

VARIABLES
  tx,      (* tx[t]: its operation, the rows its scan still has, the rows it holds *)
  stopped  (* history: series for which a CancelSeries has committed              *)

txVars == <<storeVars, tx, stopped>>

SingleOps == {"claim", "complete", "fail", "cancel", "retry"}
LimitedOps == {"promote", "due", "reclaim", "purge"}
Ops == SingleOps \cup LimitedOps \cup {"series"}

Idle == [op |-> "none", scan |-> {}, rows |-> {}, series |-> NoSeries]

TxInit == StoreInit /\ tx = [t \in Txs |-> Idle] /\ stopped = {}

Free(t, j) == \A u \in Txs \ {t} : j \notin tx[u].rows

-----------------------------------------------------------------------------
(* The condition an operation puts on a row: the WHERE clause of a batch,   *)
(* or what an operation on one job checks of the row it locked.  For an     *)
(* operation with a token, that the caller's is the row's.  A caller that   *)
(* claims has the id from a stream; those carry no scheduled job (Delivery). *)
Qualifies(op, r, j) ==
  \/ op = "claim" /\ CanClaim(j) /\ status[j] # "scheduled" /\ claims[j] < MaxClaims
  \/ op \in {"complete", "fail"} /\ \E n \in 1..claims[j] : Owns(j, n)
  \/ op = "cancel" /\ status[j] \in Cancellable
  \/ op = "retry" /\ status[j] = "failed"
  \/ op = "promote" /\ j \in Scheduled
  \/ op = "due" /\ j \in DueRetries
  \/ op = "reclaim" /\ j \in StaleRunning
  \/ op = "purge" /\ j \in Purgeable
  \/ op = "series" /\ series[j] = r /\ status[j] \in Cancellable

(* Mutant: SELECT without FOR UPDATE *)
ReadRow(t, op, j) ==
  /\ tx[t] = Idle
  /\ Qualifies(op, NoSeries, j)
  /\ tx' = [tx EXCEPT ![t] = [Idle EXCEPT !.op = op, !.rows = {j}]]
  /\ UNCHANGED <<storeVars, stopped>>

(* BEGIN; SELECT ... FOR UPDATE.  A row that does not qualify ends the      *)
(* operation with ErrNotClaimable and the like, which changes nothing.      *)
LockRow(t, op, j) ==
  /\ tx[t] = Idle
  /\ Free(t, j) /\ Qualifies(op, NoSeries, j)
  /\ tx' = [tx EXCEPT ![t] = [Idle EXCEPT !.op = op, !.rows = {j}]]
  /\ UNCHANGED <<storeVars, stopped>>

(* BEGIN; the snapshot of the batch's SELECT.  The API reaches a series      *)
(* through one of its members.                                              *)
Scan(t, op, r) ==
  /\ tx[t] = Idle
  /\ op = "series" => \E j \in Jobs : series[j] = r /\ status[j] # "deleted"
  /\ tx' = [tx EXCEPT ![t] = [Idle EXCEPT !.op = op, !.series = r,
                                     !.scan = {j \in Jobs : Qualifies(op, r, j)}]]
  /\ UNCHANGED <<storeVars, stopped>>

(* Mutant: the scan takes the rows of its snapshot without another look *)
VisitStale(t, j) ==
  LET x == tx[t] IN
  /\ j \in x.scan
  /\ tx' = [tx EXCEPT ![t].scan = @ \ {j},
                      ![t].rows = IF Free(t, j) THEN @ \cup {j} ELSE @]
  /\ UNCHANGED <<storeVars, stopped>>

(* The scan comes to row j.  DeleteOldJobs has a DELETE instead: it waits   *)
(* for a locked row, and its subquery, which found the row, is not          *)
(* evaluated again.                                                         *)
Visit(t, j) ==
  LET x == tx[t]
      takes == IF x.op = "purge" THEN status[j] # "deleted"
               ELSE Free(t, j) /\ Qualifies(x.op, x.series, j)
  IN
  /\ j \in x.scan
  /\ x.op = "purge" => Free(t, j)
  /\ tx' = [tx EXCEPT ![t].scan = @ \ {j},
                      ![t].rows = IF takes THEN @ \cup {j} ELSE @]
  /\ UNCHANGED <<storeVars, stopped>>

(* UPDATE and COMMIT.  A limited batch may stop anywhere in its scan.       *)
Commit(t) ==
  LET x == tx[t] IN
  /\ \/ x.op \in SingleOps /\ \E j \in x.rows :
          \/ x.op = "claim" /\ SetRunning(j)
          \/ x.op = "complete" /\ SetCompleted(j)
          \/ x.op = "fail" /\ SetFailed(j)
          \/ x.op = "cancel" /\ SetCancelled({j})
          \/ x.op = "retry" /\ SetRetried(j)
     \/ x.op = "promote" /\ SetPromoted(x.rows)
     \/ x.op = "due" /\ SetDue(x.rows)
     \/ x.op = "reclaim" /\ SetReclaimed(x.rows)
     \/ x.op = "purge" /\ SetDeleted(x.rows)
     \/ x.op = "series" /\ x.scan = {} /\ SetCancelled(x.rows)
  /\ stopped' = IF x.op = "series" THEN stopped \cup {x.series} ELSE stopped
  /\ tx' = [tx EXCEPT ![t] = Idle]

(* An error, a dead process or a lost connection *)
Rollback(t) ==
  /\ tx[t] # Idle
  /\ tx' = [tx EXCEPT ![t] = Idle]
  /\ UNCHANGED <<storeVars, stopped>>

(* One statement each: an insert, and an UPDATE that waits for the row *)
Insert(j, s, r) == CreateJob(j, s, r) /\ UNCHANGED <<tx, stopped>>

Refresh(j) ==
  /\ \A t \in Txs : j \notin tx[t].rows
  /\ \E n \in 1..claims[j] : Heartbeat(j, n)
  /\ UNCHANGED <<tx, stopped>>

Clock(j) ==
  /\ NotBeforePasses(j) \/ HeartbeatAges(j)
  /\ UNCHANGED <<tx, stopped>>

TxNext ==
  \/ \E j \in Jobs :
       \/ \E s \in {"pending", "scheduled"}, r \in Series \cup {NoSeries} : Insert(j, s, r)
       \/ Refresh(j)
       \/ Clock(j)
  \/ \E t \in Txs :
       \/ \E op \in SingleOps, j \in Jobs : LockRow(t, op, j)
       \/ \E op \in LimitedOps : Scan(t, op, NoSeries)
       \/ \E r \in Series : Scan(t, "series", r)
       \/ \E j \in Jobs : Visit(t, j)
       \/ Commit(t)
       \/ Rollback(t)

TxSpec == TxInit /\ [][TxNext]_txVars

-----------------------------------------------------------------------------
Session == [op : Ops \cup {"none"}, scan : SUBSET Jobs, rows : SUBSET Jobs,
            series : Series \cup {NoSeries}]

(* Type invariant *)
TxTypeOK ==
  /\ StoreTypeOK
  /\ tx \in [Txs -> Session]
  /\ stopped \subseteq Series

(* What a transaction saw when it took a row still holds when it writes:    *)
(* whatever the others commit in between, no row is held by two, and none   *)
(* changes under its holder in a way its SELECT would notice.  (A purged    *)
(* row was only looked at before it was locked: completed and cancelled     *)
(* rows stay what they are.)                                                *)
SeenStillHolds ==
  \A t \in Txs : \A j \in tx[t].rows :
    Free(t, j) /\ Qualifies(tx[t].op, tx[t].series, j)

(* Interleaved transactions do to the table what JobStore's steps do *)
KeepsStore == StoreSpec

(* CancelSeries: "future occurrences stop" (also cancelJob in the API).     *)
(* Once it has committed, no occurrence joins the series.                   *)
SeriesStops ==
  [][\A j \in Jobs : series'[j] \in stopped /\ status[j] = "absent" => status'[j] = "absent"]_txVars
=============================================================================
