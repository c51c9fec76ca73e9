------------------------------ MODULE Delivery ------------------------------
(***************************************************************************)
(* How a job gets from the jobs table to a handler and back: the API, the  *)
(* scheduler and the reaper XADD references to it, consumers of the stream *)
(* claim it and hand it to a worker goroutine, the worker settles the row  *)
(* and then acks the entry.  PostgreSQL (JobStore) and Redis are written   *)
(* one after the other by processes that may die in between, and nothing   *)
(* else connects them.                                                     *)
(*                                                                         *)
(* The module composes JobStore with the streams and the memory of the     *)
(* processes.  All streams of the system behave alike, so one stands for   *)
(* them, and Procs are the pool processes that read it.                    *)
(***************************************************************************)
EXTENDS JobStore

CONSTANTS
  Unroutable, (* jobs whose queue_name queue.StreamFor does not know            *)
  Procs,      (* pool processes (runPool), restarted by the supervisor          *)
  PoolSize,   (* worker goroutines of each                                      *)
  EntryIds,   (* bound: entries one job may have in the stream at a time        *)
  MaxFaults,  (* bound: faults (crashes, lost calls, lost entries) in a run     *)
  ReplicaLag, (* may the read pool be behind the write pool?                    *)
  SlowQueue   (* may a claimed job wait in Jobqueue for longer than StaleAfter? *)

ASSUME DeliveryConstants ==
  /\ Unroutable \subseteq Jobs
  /\ PoolSize \in Nat
  /\ MaxFaults \in Nat
  /\ ReplicaLag \in BOOLEAN
  /\ SlowQueue \in BOOLEAN

VARIABLES
  entry,      (* entry[j][k]: "none"; in the "stream", undelivered; in the "pel"   *)
  inbox,      (* inbox[p]: <<j, k>> delivered to p and not yet through processRef  *)
  held,       (* the in-memory task.Job values of the pool processes               *)
  idle,       (* idle[p]: goroutines whose JobChannel is in dispatcher.WorkerPool  *)
  toSend,     (* jobs an API handler, a scheduler or a reaper is about to XADD     *)
  worked,     (* history: some handler run for the job returned nil                *)
  faults      (* faults still to come                                              *)

queueVars == <<entry, inbox, held, idle>>
vars == <<storeVars, queueVars, toSend, worked, faults>>

Refs == Jobs \X EntryIds

(* A job in memory is "queued" in Jobqueue; a "handler" runs for it; the     *)
(* handler returned nil ("ok") or an error ("err"); only its "ack" is left.  *)
(* token is 0 when processRef found the row not claimable.                   *)
Copies == [job : Jobs, token : 0..MaxClaims, proc : Procs, entry : EntryIds,
           phase : {"queued", "handler", "ok", "err", "ack"}]

Init ==
  /\ StoreInit
  /\ entry = [j \in Jobs |-> [k \in EntryIds |-> "none"]]
  /\ inbox = [p \in Procs |-> {}]
  /\ held = {}
  /\ idle = [p \in Procs |-> PoolSize]
  /\ toSend = {}
  /\ worked = [j \in Jobs |-> FALSE]
  /\ faults = MaxFaults

Fault == faults > 0 /\ faults' = faults - 1

(* The members of S that StreamFor finds a stream for are XADDed next.  The *)
(* API tells the client of an unknown queue in a warning, the scheduler and *)
(* the reaper log it; the row stays pending.                                *)
Sends(S) == toSend' = toSend \cup (S \ Unroutable)
Proceeds(c, phase) == held' = (held \ {c}) \cup {[c EXCEPT !.phase = phase]}

-----------------------------------------------------------------------------
(* API handlers.  The handler commits its transaction, then XADDs a job that *)
(* is pending; the two writes are not one.                                   *)

(* Mutant: every job is sent at once, scheduled or not *)
EnqueueSendsAll(j, s, r) ==
  /\ CreateJob(j, s, r)
  /\ Sends({j})
  /\ UNCHANGED <<queueVars, worked, faults>>

Enqueue(j, s, r) ==
  /\ CreateJob(j, s, r)
  /\ Sends(IF s = "pending" THEN {j} ELSE {})
  /\ UNCHANGED <<queueVars, worked, faults>>

(* bound: only while MaxClaims leaves room for a whole new budget *)
Retry(j) ==
  /\ claims[j] + Budget + faults <= MaxClaims
  /\ RetryJob(j)
  /\ Sends({j})
  /\ UNCHANGED <<queueVars, worked, faults>>

(* The stream entry of a cancelled job is left for the claim guard *)
Cancel(j) ==
  /\ \/ CancelJob(j)
     \/ series[j] # NoSeries /\ \E S \in SUBSET Occurrences(series[j]) :
                                  CancelSeries(series[j], S)
  /\ UNCHANGED <<queueVars, toSend, worked, faults>>

(* Redis ids are never reused, so a slot is free once nobody refers to it *)
FreeSlot(j, k) ==
  /\ entry[j][k] = "none"
  /\ \A p \in Procs : <<j, k>> \notin inbox[p]
  /\ \A c \in held : ~(c.job = j /\ c.entry = k)

(* AddJobRefToStream, by an actor that is past its database calls *)
Dispatch(j) ==
  /\ j \in toSend
  /\ \E k \in EntryIds : FreeSlot(j, k) /\ entry' = [entry EXCEPT ![j][k] = "stream"]
  /\ toSend' = toSend \ {j}
  /\ UNCHANGED <<storeVars, inbox, held, idle, worked, faults>>

(* The XADD fails or its process dies first; scheduler.Tick also drops what *)
(* it promoted when its second transaction fails.  The row stays as it is.  *)
DispatchFails(S) ==
  /\ Fault
  /\ S # {} /\ S \subseteq toSend
  /\ toSend' = toSend \ S
  /\ UNCHANGED <<storeVars, queueVars, worked>>

-----------------------------------------------------------------------------
(* The steps of scheduler.Tick and reaper.Tick that read the table; the      *)
(* XADDs follow in Dispatch.  Several instances may run, so no order is kept *)
(* between the steps of different ticks.                                     *)

(* scheduleFollowup copies the queue_name *)
SameQueue == \A i, j \in Jobs :
  series[i] = series[j] /\ series[i] # NoSeries => (i \in Unroutable <=> j \in Unroutable)

SchedulerPromotes(S) ==
  /\ ClaimDueScheduled(S) /\ SameQueue'
  /\ Sends(S)
  /\ UNCHANGED <<queueVars, worked, faults>>

SchedulerRetries(S) ==
  /\ ClaimDueRetries(S)
  /\ Sends(S)
  /\ UNCHANGED <<queueVars, worked, faults>>

ReaperReclaims(S) ==
  /\ ClaimStaleRunning(S)
  /\ Sends(S)
  /\ UNCHANGED <<queueVars, worked, faults>>

(* ListStalePending: pending rows with an open gate that are older than the  *)
(* cutoff.  With a lagging replica, a row it reports may have left pending   *)
(* since; but no replica ever saw a row pending that is scheduled now.       *)
(* Mutant: the sweep looks for expired gates and forgets rows without one *)
ListedWithGate ==
  {j \in Jobs : status[j] \in Waiting /\ notBefore[j] = "past"}

MayBeListed ==
  {j \in Jobs : IF ReplicaLag THEN status[j] \notin {"absent", "scheduled"}
                ELSE status[j] \in Waiting /\ notBefore[j] # "future"}

ReaperSweeps(L) ==
  /\ L \subseteq MayBeListed
  /\ Sends(L)
  /\ UNCHANGED <<storeVars, queueVars, worked, faults>>

Retention(S) ==
  /\ S # {} /\ DeleteOldJobs(S)
  /\ UNCHANGED <<queueVars, toSend, worked, faults>>

-----------------------------------------------------------------------------
(* Consumers: ServeJobs and processRef *)

(* XREADGROUP > : a new entry goes to one consumer and into the PEL *)
Read(p, j, k) ==
  /\ entry[j][k] = "stream"
  /\ entry' = [entry EXCEPT ![j][k] = "pel"]
  /\ inbox' = [inbox EXCEPT ![p] = @ \cup {<<j, k>>}]
  /\ UNCHANGED <<storeVars, held, idle, toSend, worked, faults>>

(* XAUTOCLAIM: an entry unacked for claimInIdl, whether its consumer died,  *)
(* has not come to it yet, or is running its handler                        *)
AutoClaim(p, j, k) ==
  /\ entry[j][k] = "pel"
  /\ <<j, k>> \notin inbox[p]
  /\ inbox' = [inbox EXCEPT ![p] = @ \cup {<<j, k>>}]
  /\ UNCHANGED <<storeVars, entry, held, idle, toSend, worked, faults>>

Takes(p, j, k) ==
  /\ <<j, k>> \in inbox[p]
  /\ inbox' = [inbox EXCEPT ![p] = @ \ {<<j, k>>}]

(* processRef, the claim succeeds: DispatchTask puts the job in Jobqueue *)
ProcessRef(p, j, k) ==
  /\ Takes(p, j, k)
  /\ \/ /\ ClaimRunning(j)
        /\ held' = held \cup {[job |-> j, token |-> claims[j] + 1, proc |-> p,
                               entry |-> k, phase |-> "queued"]}
     \/ /\ ~CanClaim(j)      \* ErrNotClaimable: ack and skip
        /\ held' = held \cup {[job |-> j, token |-> 0, proc |-> p,
                               entry |-> k, phase |-> "ack"]}
        /\ UNCHANGED storeVars
  /\ UNCHANGED <<entry, idle, toSend, worked, faults>>

(* processRef, the claim returns another error, before or after its commit: *)
(* the entry stays in the PEL, and a committed claim is in nobody's memory. *)
(* So does a DispatchTask that fails: its context is done, and with it fail *)
(* the FailOrRetry and the ack that answer it.                              *)
ClaimErrs(p, j, k) ==
  /\ Fault
  /\ Takes(p, j, k)
  /\ ClaimRunning(j) \/ UNCHANGED storeVars
  /\ UNCHANGED <<entry, held, idle, toSend, worked>>

-----------------------------------------------------------------------------
(* Worker goroutines: Dispatcher.Run and workerLoop *)

StartJob(c) ==
  /\ c.phase = "queued" /\ idle[c.proc] > 0
  /\ idle' = [idle EXCEPT ![c.proc] = @ - 1]
  /\ Proceeds(c, "handler")
  /\ UNCHANGED <<storeVars, entry, inbox, toSend, worked, faults>>

(* heartbeatJob: an error is ignored, so a lost claim changes nothing here *)
Beat(c) ==
  /\ c.phase = "handler"
  /\ Heartbeat(c.job, c.token)
  /\ UNCHANGED <<queueVars, toSend, worked, faults>>

(* runWithTimeout: "err" is a handler error or the timeout *)
HandlerReturns(c, outcome) ==
  /\ c.phase = "handler"
  /\ Proceeds(c, outcome)
  /\ worked' = IF outcome = "ok" THEN [worked EXCEPT ![c.job] = TRUE] ELSE worked
  /\ UNCHANGED <<storeVars, entry, inbox, idle, toSend, faults>>

(* Mutant: the handler's error is logged, and the job completed *)
SettleCompletes(c) ==
  /\ c.phase \in {"ok", "err"}
  /\ \/ /\ IF Owns(c.job, c.token) THEN Complete(c.job, c.token) ELSE UNCHANGED storeVars
        /\ UNCHANGED faults
     \/ Fault /\ UNCHANGED storeVars
  /\ Proceeds(c, "ack")
  /\ UNCHANGED <<entry, inbox, idle, toSend, worked>>

(* Complete after success, FailOrRetry after an error.  ErrNotClaimable and *)
(* a database error are only logged: the ack follows all the same.          *)
Settle(c) ==
  /\ c.phase \in {"ok", "err"}
  /\ \/ /\ IF ~Owns(c.job, c.token) THEN UNCHANGED storeVars
           ELSE IF c.phase = "ok" THEN Complete(c.job, c.token)
           ELSE FailOrRetry(c.job, c.token)
        /\ UNCHANGED faults
     \/ Fault /\ UNCHANGED storeVars
  /\ Proceeds(c, "ack")
  /\ UNCHANGED <<entry, inbox, idle, toSend, worked>>

(* AckJob; the entry may be gone already, or the XACK may fail.  The worker  *)
(* then offers itself to workerPoolCh, which is full since start-up and      *)
(* which nobody receives from: it never gets to WorkerPool again, so idle    *)
(* does not grow back (module WorkerPool has the channels).                  *)
Ack(c) ==
  /\ c.phase = "ack"
  /\ \/ /\ entry' = [entry EXCEPT ![c.job][c.entry] = IF @ = "pel" THEN "none" ELSE @]
        /\ UNCHANGED faults
     \/ Fault /\ UNCHANGED entry
  /\ held' = held \ {c}
  /\ UNCHANGED <<storeVars, inbox, idle, toSend, worked>>

(* A pool process dies (a handler panic, OOM, a deploy) and is restarted;   *)
(* an orderly shutdown ends alike, its FailOrRetry runs on a dead context.  *)
Crash(p) ==
  /\ Fault
  /\ held' = {c \in held : c.proc # p}
  /\ inbox' = [inbox EXCEPT ![p] = {}]
  /\ idle' = [idle EXCEPT ![p] = PoolSize]
  /\ UNCHANGED <<storeVars, entry, toSend, worked>>

(* A failover loses what was not replicated; XADD MAXLEN trims *)
LoseEntry(j, k) ==
  /\ Fault
  /\ entry[j][k] # "none"
  /\ entry' = [entry EXCEPT ![j][k] = "none"]
  /\ UNCHANGED <<storeVars, inbox, held, idle, toSend, worked>>

-----------------------------------------------------------------------------
(* Time.  A running row's heartbeat is refreshed only while a handler runs   *)
(* for its claim.  Otherwise it goes stale by itself; while one runs it      *)
(* takes a fault (a lost connection, a long pause).  With SlowQueue FALSE    *)
(* the claims in Jobqueue or being settled are as good as refreshed.         *)

Holds(c, j) == c.job = j /\ Owns(j, c.token)
Refreshed(j) == \E c \in held : Holds(c, j) /\ (SlowQueue => c.phase = "handler")

TimePasses(j) ==
  /\ \/ NotBeforePasses(j) /\ UNCHANGED faults
     \/ HeartbeatAges(j) /\ IF Refreshed(j) THEN Fault ELSE UNCHANGED faults
  /\ UNCHANGED <<queueVars, toSend, worked>>

-----------------------------------------------------------------------------
Client == \E j \in Jobs :
  \/ \E s \in {"pending", "scheduled"}, r \in Series \cup {NoSeries} : Enqueue(j, s, r)
  \/ Retry(j)
  \/ Cancel(j)

Senders ==
  \/ \E j \in Jobs : Dispatch(j)
  \/ \E S \in SUBSET Jobs :
       \/ DispatchFails(S)
       \/ SchedulerPromotes(S)
       \/ SchedulerRetries(S)
       \/ ReaperReclaims(S)
       \/ ReaperSweeps(S)
       \/ Retention(S)

Pool ==
  \/ \E p \in Procs, j \in Jobs, k \in EntryIds :
       Read(p, j, k) \/ AutoClaim(p, j, k) \/ ProcessRef(p, j, k) \/ ClaimErrs(p, j, k)
  \/ \E c \in held :
       \/ StartJob(c)
       \/ Beat(c)
       \/ \E outcome \in {"ok", "err"} : HandlerReturns(c, outcome)
       \/ Settle(c)
       \/ Ack(c)
  \/ \E p \in Procs : Crash(p)

Next ==
  \/ Client
  \/ Senders
  \/ Pool
  \/ \E j \in Jobs : TimePasses(j)
  \/ \E j \in Jobs, k \in EntryIds : LoseEntry(j, k)

Spec == Init /\ [][Next]_vars

-----------------------------------------------------------------------------
(***************************************************************************)
(* Fairness.  The scheduler, the reaper and the pools run for ever and     *)
(* retry on their tickers, so what a tick would do is done in the end: a   *)
(* row that stays eligible is taken by some tick (it moves up in the ORDER *)
(* BY, and nobody keeps its lock), a job that was read is XADDed unless a  *)
(* fault drops it.  Streams are read in order and every handler is cut off *)
(* by JOB_TIMEOUT_SEC.  Clients and faults owe nothing.                    *)
(***************************************************************************)
TakenBy(Op(_), j) == \E S \in SUBSET Jobs : j \in S /\ Op(S)
CopyOf(j, Step(_)) == \E c \in held : c.job = j /\ Step(c)
Returns(c) == \E outcome \in {"ok", "err"} : HandlerReturns(c, outcome)
SettleAsked(c) == faults' = faults /\ Settle(c)
AckOf(j, k) == \E c \in held : c.job = j /\ c.entry = k /\ faults' = faults /\ Ack(c)

Fairness == \A j \in Jobs :
  /\ WF_vars(Dispatch(j))
  /\ WF_vars(TakenBy(SchedulerPromotes, j))
  /\ WF_vars(TakenBy(SchedulerRetries, j))
  /\ WF_vars(TakenBy(ReaperReclaims, j))
  /\ WF_vars(TakenBy(ReaperSweeps, j))
  /\ WF_vars(faults' = faults /\ TimePasses(j))
  /\ WF_vars(CopyOf(j, StartJob))
  /\ WF_vars(CopyOf(j, Returns))
  /\ WF_vars(CopyOf(j, SettleAsked))
  /\ \A k \in EntryIds :
       /\ WF_vars(AckOf(j, k))
       /\ WF_vars(\E p \in Procs : Read(p, j, k))
       /\ WF_vars(\E p \in Procs : AutoClaim(p, j, k))
       /\ \A p \in Procs : WF_vars(ProcessRef(p, j, k))

FairSpec == Spec /\ Fairness

-----------------------------------------------------------------------------
(* Type invariant *)
TypeOK ==
  /\ StoreTypeOK
  /\ entry \in [Jobs -> [EntryIds -> {"none", "stream", "pel"}]]
  /\ inbox \in [Procs -> SUBSET Refs]
  /\ held \subseteq Copies
  /\ idle \in [Procs -> 0..PoolSize]
  /\ toSend \subseteq Jobs
  /\ worked \in [Jobs -> BOOLEAN]
  /\ faults \in 0..MaxFaults

(* No stream entry, delivered entry or sender's list ever names a scheduled *)
(* job.  ClaimRunning would accept it: it would run ahead of time and, in a *)
(* series, without a follow-up.  (NewEnqueueHandler skips the XADD,         *)
(* ListStalePending leaves scheduled rows out, a tick sends only what it    *)
(* moved to pending.)                                                       *)
NoScheduledEntry ==
  \A j \in Jobs : status[j] = "scheduled" =>
    /\ j \notin toSend
    /\ \A k \in EntryIds : entry[j][k] = "none"
    /\ \A p \in Procs, k \in EntryIds : <<j, k>> \notin inbox[p]
    /\ \A c \in held : c.job # j

(* A job is completed only if a handler returned nil for it: whichever      *)
(* claims were lost, given back or settled late, success is never made up.  *)
CompletedWasWorked == \A j \in Jobs : status[j] = "completed" => worked[j]

(* A running row is settled by the worker of its latest claim, according to *)
(* what that worker's handler returned, or taken back by the reaper when    *)
(* its heartbeat is stale.  A worker that lost its claim (reclaimed while   *)
(* it ran, restarted, late) cannot move the row: the token fences it off in *)
(* Complete and FailOrRetry.                                                *)
OnlyLatestClaimSettles ==
  [][\A j \in Jobs : status[j] = "running" /\ status'[j] # "running" =>
       \/ status'[j] = "pending" /\ heartbeat[j] = "stale"
       \/ \E c \in held :
            /\ c.job = j /\ c.token = claims[j]
            /\ c.phase = IF status'[j] = "completed" THEN "ok" ELSE "err"]_vars

(* Without faults, no two workers have the same job, however often it is    *)
(* redelivered: sweeps of a lagging replica, XAUTOCLAIM of entries whose    *)
(* handler runs for longer than claimInIdl, several pools.  (claimInIdl:    *)
(* "PG ClaimRunning absorbs the duplicate".)  This holds while SlowQueue is *)
(* FALSE.  The code heartbeats a claim only once its handler has started: a *)
(* job that waits in Jobqueue for longer than StaleAfter is reclaimed and   *)
(* claimed a second time, and both claimants then run it.                   *)
OneWorkerAtATime ==
  \A c, d \in held : c.job = d.job /\ c.phase # "ack" /\ d.phase # "ack" => c = d

(* What the statuses of the table mean to the job's owner *)
OwnersView(st) ==
  CASE st = "absent" -> "new"
    [] st \in Claimable -> "waiting"
    [] st = "running" -> "active"
    [] st = "completed" -> "done"
    [] st = "failed" -> "dead"
    [] st = "cancelled" -> "cancelled"
    [] st = "deleted" -> "purged"

Contract == INSTANCE JobContract WITH state <- [j \in Jobs |-> OwnersView(status[j])]

(* Every step of the composed system is a step of the contract, or none *)
KeepsContract == Contract!Spec

(* Whatever the processes and streams do, the table only sees the           *)
(* operations of JobStore, and its one demand on callers is met.            *)
KeepsStore == StoreSpec

(* Every job that was accepted for a known queue settles, whatever was lost *)
(* on the way: an XADD that failed, an entry Redis lost, a claim committed  *)
(* but not known, a dead pool.  Scheduler, sweep and reclaim together leave *)
(* no state in which such a job is forgotten.  (A job for an unknown queue  *)
(* is accepted too, and stays pending: no loop finds a stream for it.)      *)
EveryJobSettles == Contract!Settles(Jobs \ Unroutable)

(* ARCHITECTURE.md on poison pills: "when attempt_count >= max_retries, the *)
(* job transitions to failed and moves to the DLQ instead of being          *)
(* re-enqueued", also when it was its worker that crashed.                  *)
PoisonPillsFail ==
  [][\A j \in Jobs :
       status[j] = "running" /\ status'[j] = "pending" => attempt[j] < MaxRetry]_vars
=============================================================================
