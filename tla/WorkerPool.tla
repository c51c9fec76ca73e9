----------------------------- MODULE WorkerPool -----------------------------
(***************************************************************************)
(* The goroutines of one pool process (runPool) and the channels between   *)
(* them: two ServeJobs loops put jobs into Jobqueue (DispatchTask), the    *)
(* dispatcher (Dispatcher.Run) takes a job, then a free worker's           *)
(* JobChannel out of WorkerPool, then hands the job over, and each         *)
(* workerLoop runs the handler and offers itself again, to workerPoolCh    *)
(* and then to WorkerPool.  Everything selects on ctx.Done() as well.      *)
(*                                                                         *)
(* What a worker does with the row and the stream entry before it offers   *)
(* itself is in module Delivery.  A job is <<lane, n>>, the n-th that the  *)
(* lane's ServeJobs claimed.                                               *)
(***************************************************************************)
EXTENDS Integers, Sequences, SequencesExt

CONSTANTS
  Workers,    (* worker goroutines, POOL_WORKERS of them                     *)
  Lanes,      (* ServeJobs loops: the high and the low stream                *)
  QueueCap,   (* capacity of Jobqueue, 100 in the code                       *)
  MaxJobs     (* bound: jobs each lane claims                                *)

ASSUME PoolConstants ==
  /\ IsFiniteSet(Workers)
  /\ QueueCap \in Nat \ {0}
  /\ MaxJobs \in Nat

VARIABLES
  jobqueue,     (* channel dispatcher.Jobqueue                                 *)
  pool,         (* channel dispatcher.WorkerPool, of the workers' JobChannels  *)
  workerPoolCh, (* channel workerPoolCh of runPool                             *)
  disp,         (* Dispatcher.Run: where it is, what it has received: <<>> or  *)
                (* <<job>>, and <<>> or <<worker>>                             *)
  at,           (* at[w]: where w's workerLoop is                              *)
  serve,        (* serve[l]: where the lane's ServeJobs is, jobs claimed       *)
  cancelled,    (* ctx is done                                                 *)
  accepted,     (* history: jobs in the order DispatchTask put them            *)
  started       (* history: jobs in the order workers received them            *)

poolVars == <<jobqueue, pool, workerPoolCh, disp, at, serve, cancelled,
              accepted, started>>

PoolSize == Cardinality(Workers)
JobIds == Lanes \X (1..MaxJobs)

(* runPool's loop has registered every worker in both channels before it    *)
(* starts the ServeJobs loops                                               *)
PoolInit ==
  /\ jobqueue = <<>>
  /\ pool = SetToSeq(Workers)
  /\ workerPoolCh = SetToSeq(Workers)
  /\ disp = [pc |-> "select", job |-> <<>>, worker |-> <<>>]
  /\ at = [w \in Workers |-> "idle"]
  /\ serve = [l \in Lanes |-> [pc |-> "poll", claimed |-> 0]]
  /\ cancelled = FALSE
  /\ accepted = <<>>
  /\ started = <<>>

-----------------------------------------------------------------------------
(* ServeJobs of one lane *)

(* A message is read and its row claimed; DispatchTask is called *)
Claim(l) ==
  /\ serve[l].pc = "poll" /\ serve[l].claimed < MaxJobs
  /\ serve' = [serve EXCEPT ![l] = [pc |-> "put", claimed |-> @.claimed + 1]]
  /\ UNCHANGED <<jobqueue, pool, workerPoolCh, disp, at, cancelled, accepted, started>>

(* Mutant: the job counts as dispatched although ctx is done *)
PutBlindly(l) ==
  LET job == <<l, serve[l].claimed>> IN
  /\ serve[l].pc = "put"
  /\ \/ Len(jobqueue) < QueueCap /\ jobqueue' = Append(jobqueue, job)
     \/ cancelled /\ UNCHANGED jobqueue
  /\ accepted' = Append(accepted, job)
  /\ serve' = [serve EXCEPT ![l].pc = "poll"]
  /\ UNCHANGED <<pool, workerPoolCh, disp, at, cancelled, started>>

(* DispatchTask: blocks while Jobqueue is full *)
Put(l) ==
  LET job == <<l, serve[l].claimed>> IN
  /\ serve[l].pc = "put"
  /\ \/ /\ Len(jobqueue) < QueueCap
        /\ jobqueue' = Append(jobqueue, job)
        /\ accepted' = Append(accepted, job)
     \/ cancelled /\ UNCHANGED <<jobqueue, accepted>>
  /\ serve' = [serve EXCEPT ![l].pc = "poll"]
  /\ UNCHANGED <<pool, workerPoolCh, disp, at, cancelled, started>>

ServeReturns(l) ==
  /\ cancelled /\ serve[l].pc = "poll"
  /\ serve' = [serve EXCEPT ![l].pc = "returned"]
  /\ UNCHANGED <<jobqueue, pool, workerPoolCh, disp, at, cancelled, accepted, started>>

-----------------------------------------------------------------------------
(* Dispatcher.Run *)

TakeJob ==
  /\ disp.pc = "select" /\ jobqueue # <<>>
  /\ disp' = [disp EXCEPT !.pc = "needsWorker", !.job = <<Head(jobqueue)>>]
  /\ jobqueue' = Tail(jobqueue)
  /\ UNCHANGED <<pool, workerPoolCh, at, serve, cancelled, accepted, started>>

TakeWorker ==
  /\ disp.pc = "needsWorker" /\ pool # <<>>
  /\ disp' = [disp EXCEPT !.pc = "handsOver", !.worker = <<Head(pool)>>]
  /\ pool' = Tail(pool)
  /\ UNCHANGED <<jobqueue, workerPoolCh, at, serve, cancelled, accepted, started>>

(* JobChannel is unbuffered: dispatcher and worker meet *)
HandOver ==
  /\ disp.pc = "handsOver" /\ at[disp.worker[1]] = "idle"
  /\ disp' = [pc |-> "select", job |-> <<>>, worker |-> <<>>]
  /\ at' = [at EXCEPT ![disp.worker[1]] = "working"]
  /\ started' = Append(started, disp.job[1])
  /\ UNCHANGED <<jobqueue, pool, workerPoolCh, serve, cancelled, accepted>>

(* Mutant: the outer select has a default case that leaves the loop *)
DispatcherReturnsIdle ==
  /\ disp.pc = "select" /\ (cancelled \/ jobqueue = <<>>)
  /\ disp' = [disp EXCEPT !.pc = "returned"]
  /\ UNCHANGED <<jobqueue, pool, workerPoolCh, at, serve, cancelled, accepted, started>>

(* Every select of Run has a ctx.Done() case; what is in its hand is lost *)
DispatcherReturns ==
  /\ cancelled /\ disp.pc # "returned"
  /\ disp' = [disp EXCEPT !.pc = "returned"]
  /\ UNCHANGED <<jobqueue, pool, workerPoolCh, at, serve, cancelled, accepted, started>>

-----------------------------------------------------------------------------
(* workerLoop of w *)

(* runWithTimeout is over and the job is settled, failed or panicked *)
HandlerDone(w) ==
  /\ at[w] = "working"
  /\ at' = [at EXCEPT ![w] = "offers"]
  /\ UNCHANGED <<jobqueue, pool, workerPoolCh, disp, serve, cancelled, accepted, started>>

(* Mutant: the send to workerPoolCh outside a select *)
OfferUnconditionally(w) ==
  /\ at[w] = "offers"
  /\ Len(workerPoolCh) < PoolSize
  /\ workerPoolCh' = Append(workerPoolCh, w)
  /\ at' = [at EXCEPT ![w] = "registers"]
  /\ UNCHANGED <<jobqueue, pool, disp, serve, cancelled, accepted, started>>

(* The first select of the deferred function.  The channel was filled at    *)
(* start-up and is never received from.                                     *)
Offer(w) ==
  /\ at[w] = "offers"
  /\ \/ /\ Len(workerPoolCh) < PoolSize
        /\ workerPoolCh' = Append(workerPoolCh, w)
     \/ cancelled /\ UNCHANGED workerPoolCh
  /\ at' = [at EXCEPT ![w] = "registers"]
  /\ UNCHANGED <<jobqueue, pool, disp, serve, cancelled, accepted, started>>

(* The second select: back into WorkerPool *)
Register(w) ==
  /\ at[w] = "registers"
  /\ \/ /\ Len(pool) < PoolSize
        /\ pool' = Append(pool, w)
     \/ cancelled /\ UNCHANGED pool
  /\ at' = [at EXCEPT ![w] = "idle"]
  /\ UNCHANGED <<jobqueue, workerPoolCh, disp, serve, cancelled, accepted, started>>

WorkerReturns(w) ==
  /\ cancelled /\ at[w] = "idle"
  /\ at' = [at EXCEPT ![w] = "returned"]
  /\ UNCHANGED <<jobqueue, pool, workerPoolCh, disp, serve, cancelled, accepted, started>>

-----------------------------------------------------------------------------
(* SIGTERM, passed on by the supervisor *)
CancelContext ==
  /\ ~cancelled
  /\ cancelled' = TRUE
  /\ UNCHANGED <<jobqueue, pool, workerPoolCh, disp, at, serve, accepted, started>>

Serve(l) == Claim(l) \/ Put(l) \/ ServeReturns(l)
Dispatcher == TakeJob \/ TakeWorker \/ HandOver \/ DispatcherReturns
WorkerLoop(w) == HandlerDone(w) \/ Offer(w) \/ Register(w) \/ WorkerReturns(w)

PoolNext ==
  \/ \E l \in Lanes : Serve(l)
  \/ Dispatcher
  \/ \E w \in Workers : WorkerLoop(w)
  \/ CancelContext

(* The Go scheduler runs every goroutine that can run, and runWithTimeout   *)
(* cuts off every handler; nobody is obliged to cancel.                     *)
PoolFairness ==
  /\ \A l \in Lanes : WF_poolVars(Serve(l))
  /\ WF_poolVars(Dispatcher)
  /\ \A w \in Workers : WF_poolVars(WorkerLoop(w))

PoolSpec == PoolInit /\ [][PoolNext]_poolVars /\ PoolFairness

-----------------------------------------------------------------------------
(* Type invariant; the channels stay within their capacity *)
PoolTypeOK ==
  /\ jobqueue \in Seq(JobIds) /\ Len(jobqueue) <= QueueCap
  /\ pool \in Seq(Workers) /\ Len(pool) <= PoolSize
  /\ workerPoolCh \in Seq(Workers) /\ Len(workerPoolCh) <= PoolSize
  /\ disp \in [pc : {"select", "needsWorker", "handsOver", "returned"},
               job : Seq(JobIds), worker : Seq(Workers)]
  /\ Len(disp.job) <= 1 /\ Len(disp.worker) <= 1
  /\ at \in [Workers -> {"idle", "working", "offers", "registers", "returned"}]
  /\ serve \in [Lanes -> [pc : {"poll", "put", "returned"}, claimed : 0..MaxJobs]]
  /\ cancelled \in BOOLEAN
  /\ accepted \in Seq(JobIds)
  /\ started \in Seq(JobIds)

(* The workers that are in WorkerPool or in the dispatcher's hand *)
Idle == Len(pool) + Len(disp.worker)

Contract == INSTANCE PoolContract WITH Size <- PoolSize, idle <- Idle, stopping <- cancelled

(* What Delivery takes a pool for: through any shutdown, jobs are started   *)
(* in the order DispatchTask accepted them, none twice and none by passing  *)
(* over an earlier one, and the workers that count as free are the ones     *)
(* that never had a job (Jobqueue, WorkerPool and Dispatcher.Run; the       *)
(* deferred function of workerLoop blocks until the pool stops).            *)
KeepsOrder == Contract!Spec

(* The dispatcher is never stuck with a job in its hand at a worker that is *)
(* busy with another: a JobChannel in WorkerPool is one that its worker     *)
(* receives from, or has left for good (Run's blocking handoff).            *)
HandoffIsToFree ==
  disp.pc = "handsOver" => at[disp.worker[1]] \in {"idle", "returned"}

(* A pool that has not used up its workers starts what it accepts *)
FreshPoolServes ==
  \A n \in 1..PoolSize : Len(accepted) >= n ~> Len(started) >= n \/ cancelled

(* Once ctx is done every goroutine returns, whatever it is blocked on: the *)
(* drain of runPool ends without its 5 s timeout                            *)
Drains ==
  cancelled ~> /\ \A w \in Workers : at[w] = "returned"
               /\ \A l \in Lanes : serve[l].pc = "returned"
               /\ disp.pc = "returned"

(* "a hung handler that ignores ctx still releases the worker slot"         *)
(* (runWithTimeout): a worker whose handler is over, in whatever way, is    *)
(* registered for the next job again.                                       *)
SlotIsReleased ==
  \A w \in Workers : at[w] = "offers" ~> at[w] = "idle" \/ cancelled
=============================================================================
