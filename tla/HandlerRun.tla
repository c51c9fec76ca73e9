----------------------------- MODULE HandlerRun -----------------------------
(***************************************************************************)
(* One claimed job in the hands of a pool process: the worker goroutine,   *)
(* the handler's own goroutine and the heartbeat's, under a timeout, a     *)
(* panic, a database that fails, a shutdown, and the reaper that gives the *)
(* row back.  A handler may never return and outlive its run.              *)
(* (src/internal/worker/worker.go: runWithTimeout, workerLoop,             *)
(* heartbeatJob, failJob)                                                  *)
(***************************************************************************)
EXTENDS Naturals

CONSTANTS
  MaxClaims,      \* bound: times the job is claimed
  MaxRunFaults    \* bound: panics, failed settlements and missed heartbeats

Claims == 1..MaxClaims

ASSUME RunAssumption == MaxClaims \in Nat \ {0} /\ MaxRunFaults \in Nat

VARIABLES
  status,   \* the job's row: pending, running or completed
  holder,   \* the run whose claim token the row has; 0 for none
  claims,   \* runs so far
  stage,    \* worker goroutine: none, running, settling, acking, over
  out,      \* what runWithTimeout returned: none, ok or err
  handler,  \* handler goroutine: none, working, ok or err (returned), gone
  returned, \* history: what the handler returned
  ch,       \* the outcome channel of a run: empty, ok or err
  hctx,     \* the runs whose hctx is done
  beat,     \* heartbeat goroutine: none, waiting, calling, stopped
  lives, stop, \* the process; its context is cancelled
  panics,   \* history: the handler panicked
  runFaults

runVars == <<status, holder, claims, stage, out, handler, returned, ch, hctx, beat, lives, stop, panics, runFaults>>
rowVars == <<status, holder, claims>>
processVars == <<lives, stop, panics>>

RunTypeOK ==
  /\ status \in {"pending", "running", "completed"}
  /\ claims \in 0..MaxClaims /\ holder \in 0..claims /\ (holder # 0 <=> status = "running")
  /\ stage \in [Claims -> {"none", "running", "settling", "acking", "over"}]
  /\ out \in [Claims -> {"none", "ok", "err"}]
  /\ handler \in [Claims -> {"none", "working", "ok", "err", "gone"}]
  /\ returned \in [Claims -> {"none", "ok", "err"}]
  /\ ch \in [Claims -> {"empty", "ok", "err"}]
  /\ hctx \subseteq Claims
  /\ beat \in [Claims -> {"none", "waiting", "calling", "stopped"}]
  /\ lives \in BOOLEAN /\ stop \in BOOLEAN /\ panics \in BOOLEAN /\ runFaults \in 0..MaxRunFaults

RunInit ==
  /\ status = "pending" /\ holder = 0 /\ claims = 0
  /\ stage = [r \in Claims |-> "none"] /\ out = [r \in Claims |-> "none"]
  /\ handler = [r \in Claims |-> "none"] /\ returned = [r \in Claims |-> "none"]
  /\ ch = [r \in Claims |-> "empty"] /\ hctx = {}
  /\ beat = [r \in Claims |-> "none"]
  /\ lives = TRUE /\ stop = FALSE /\ panics = FALSE /\ runFaults = 0

RunFault == runFaults < MaxRunFaults /\ runFaults' = runFaults + 1

\* A worker receives the claimed job: it starts the heartbeat and, in
\* runWithTimeout, the handler.
BeginRun ==
  /\ lives /\ ~stop /\ status = "pending" /\ claims < MaxClaims
  /\ LET r == claims + 1 IN
       /\ status' = "running" /\ holder' = r /\ claims' = r
       /\ stage' = [stage EXCEPT ![r] = "running"]
       /\ handler' = [handler EXCEPT ![r] = "working"]
       /\ beat' = [beat EXCEPT ![r] = "waiting"]
  /\ UNCHANGED <<out, returned, ch, hctx, processVars, runFaults>>

-----------------------------------------------------------------------------
\* The handler's goroutine
HandlerReturns(r, o) ==
  /\ lives /\ handler[r] = "working"
  /\ handler' = [handler EXCEPT ![r] = o] /\ returned' = [returned EXCEPT ![r] = o]
  /\ UNCHANGED <<rowVars, stage, out, ch, hctx, beat, processVars, runFaults>>

\* Mutant: the outcome channel has no buffer and nobody looks at hctx; a
\* send needs the receiver of runWithTimeout
SendsBlocking(r) ==
  /\ lives /\ handler[r] \in {"ok", "err"} /\ stage[r] = "running" /\ ch[r] = "empty"
  /\ ch' = [ch EXCEPT ![r] = handler[r]]
  /\ handler' = [handler EXCEPT ![r] = "gone"]
  /\ UNCHANGED <<rowVars, stage, out, returned, hctx, beat, processVars, runFaults>>

\* Its select: the buffered channel takes the outcome, or hctx is done.
HandlerSends(r) ==
  /\ lives /\ handler[r] \in {"ok", "err"}
  /\ \/ ch[r] = "empty" /\ ch' = [ch EXCEPT ![r] = handler[r]]
     \/ r \in hctx /\ UNCHANGED ch
  /\ handler' = [handler EXCEPT ![r] = "gone"]
  /\ UNCHANGED <<rowVars, stage, out, returned, hctx, beat, processVars, runFaults>>

\* A panic in this goroutine is not workerLoop's to recover: the process dies
\* and takes every goroutine with it.
ProcessDies ==
  /\ lives' = FALSE
  /\ stage' = [r \in Claims |-> IF stage[r] = "none" THEN "none" ELSE "over"]
  /\ handler' = [r \in Claims |-> IF handler[r] = "none" THEN "none" ELSE "gone"]
  /\ beat' = [r \in Claims |-> IF beat[r] = "none" THEN "none" ELSE "stopped"]
  /\ UNCHANGED <<rowVars, out, returned, ch, hctx, stop>>

HandlerPanics(r) ==
  /\ lives /\ handler[r] = "working"
  /\ RunFault /\ panics' = TRUE
  /\ ProcessDies

\* The deadline of hctx
TimesOut(r) ==
  /\ lives /\ stage[r] = "running" /\ r \notin hctx
  /\ hctx' = hctx \union {r}
  /\ UNCHANGED <<rowVars, stage, out, handler, returned, ch, beat, processVars, runFaults>>

-----------------------------------------------------------------------------
\* The worker's goroutine

\* The outcomes runWithTimeout's two selects may return.
Outcomes(r) ==
  (IF stop THEN {"err"} ELSE {})
  \union (IF ch[r] # "empty" THEN {ch[r]} ELSE {})
  \union (IF r \in hctx /\ ch[r] = "empty" THEN {"err"} ELSE {})

\* runWithTimeout returns: its deferred cancel ends hctx, and the worker
\* cancels the heartbeat's context.
RunWithTimeout(r) ==
  /\ lives /\ stage[r] = "running"
  /\ \E o \in Outcomes(r) : out' = [out EXCEPT ![r] = o]
  /\ stage' = [stage EXCEPT ![r] = "settling"]
  /\ hctx' = hctx \union {r}
  /\ UNCHANGED <<rowVars, handler, returned, ch, beat, processVars, runFaults>>

\* Mutant: the settlement does not compare the claim token
SettlesUnfenced(r) ==
  /\ lives /\ stage[r] = "settling"
  /\ stage' = [stage EXCEPT ![r] = "acking"]
  /\ \/ /\ ~stop /\ status = "running"
        /\ status' = IF out[r] = "ok" THEN "completed" ELSE "pending"
        /\ holder' = 0 /\ UNCHANGED runFaults
     \/ (stop \/ status # "running") /\ UNCHANGED <<status, holder, runFaults>>
     \/ RunFault /\ UNCHANGED <<status, holder>>
  /\ UNCHANGED <<claims, out, handler, returned, ch, hctx, beat, processVars>>

\* Complete, or failJob's FailOrRetry, for the token of the run; a lost claim
\* and an error are logged and change nothing.  After the shutdown's
\* cancellation the call fails.
SettleRun(r) ==
  /\ lives /\ stage[r] = "settling"
  /\ stage' = [stage EXCEPT ![r] = "acking"]
  /\ \/ /\ ~stop /\ holder = r
        /\ status' = IF out[r] = "ok" THEN "completed" ELSE "pending"
        /\ holder' = 0 /\ UNCHANGED runFaults
     \/ (stop \/ holder # r) /\ UNCHANGED <<status, holder, runFaults>>
     \/ RunFault /\ UNCHANGED <<status, holder>>
  /\ UNCHANGED <<claims, out, handler, returned, ch, hctx, beat, processVars>>

\* The ack; the worker's part in the run is over.
Ack(r) ==
  /\ lives /\ stage[r] = "acking"
  /\ stage' = [stage EXCEPT ![r] = "over"]
  /\ UNCHANGED <<rowVars, out, handler, returned, ch, hctx, beat, processVars, runFaults>>

-----------------------------------------------------------------------------
\* Mutant: the heartbeat has the context of the handler's goroutine
HbDoneWithHandler(r) == stop \/ handler[r] \notin {"working", "ok", "err"}

\* The heartbeat's goroutine; hbCtx is done once runWithTimeout has returned.
HbDone(r) == stop \/ stage[r] # "running"

\* The ticker; with a context that is done the call fails at once.
BeatStarts(r) ==
  /\ lives /\ beat[r] = "waiting" /\ ~HbDone(r)
  /\ beat' = [beat EXCEPT ![r] = "calling"]
  /\ UNCHANGED <<rowVars, stage, out, handler, returned, ch, hctx, processVars, runFaults>>

\* A Heartbeat in flight may still reach the database after hbCancel.
BeatEnds(r) ==
  /\ lives /\ beat[r] = "calling"
  /\ beat' = [beat EXCEPT ![r] = "waiting"]
  /\ UNCHANGED <<rowVars, stage, out, handler, returned, ch, hctx, processVars, runFaults>>

BeatStops(r) ==
  /\ lives /\ beat[r] = "waiting" /\ HbDone(r)
  /\ beat' = [beat EXCEPT ![r] = "stopped"]
  /\ UNCHANGED <<rowVars, stage, out, handler, returned, ch, hctx, processVars, runFaults>>

-----------------------------------------------------------------------------
Stale == holder # 0 /\ beat[holder] = "stopped"

GivesBack ==
  /\ status' = "pending" /\ holder' = 0
  /\ UNCHANGED <<claims, stage, out, handler, returned, ch, hctx, beat, processVars>>

\* ClaimStaleRunning: the row's heartbeat has stopped, or (a fault) its
\* heartbeats failed for the length of the window.
ReclaimRun == Stale /\ GivesBack /\ UNCHANGED runFaults
ReclaimLive == holder # 0 /\ ~Stale /\ RunFault /\ GivesBack

\* The pool's context is cancelled; the process drains, or gives up after 5s.
RunStops ==
  /\ lives /\ ~stop /\ stop' = TRUE
  /\ UNCHANGED <<rowVars, stage, out, handler, returned, ch, hctx, beat, lives, panics, runFaults>>
RunExits == lives /\ stop /\ ProcessDies /\ UNCHANGED <<panics, runFaults>>

\* The supervisor, or a new deployment, starts the pool again.
ProcessRestarts ==
  /\ ~lives /\ lives' = TRUE /\ stop' = FALSE
  /\ UNCHANGED <<rowVars, stage, out, handler, returned, ch, hctx, beat, panics, runFaults>>

RunNext ==
  \/ BeginRun \/ ReclaimRun \/ ReclaimLive \/ RunStops \/ RunExits \/ ProcessRestarts
  \/ \E r \in Claims :
       \/ HandlerReturns(r, "ok") \/ HandlerReturns(r, "err")
       \/ HandlerSends(r) \/ HandlerPanics(r) \/ TimesOut(r)
       \/ RunWithTimeout(r) \/ SettleRun(r) \/ Ack(r)
       \/ BeatStarts(r) \/ BeatEnds(r) \/ BeatStops(r)

\* Goroutines run, timers fire, calls return and the reaper ticks.  Nothing
\* makes a handler return, a pool stop or the job be claimed.
RunFairness ==
  /\ WF_runVars(ReclaimRun) /\ WF_runVars(RunExits) /\ WF_runVars(ProcessRestarts)
  /\ \A r \in Claims :
       /\ WF_runVars(HandlerSends(r)) /\ WF_runVars(TimesOut(r)) /\ WF_runVars(RunWithTimeout(r))
       /\ WF_runVars(SettleRun(r)) /\ WF_runVars(Ack(r))
       /\ WF_runVars(BeatEnds(r)) /\ WF_runVars(BeatStops(r))

RunSpec == RunInit /\ [][RunNext]_runVars /\ RunFairness

-----------------------------------------------------------------------------
\* A job is completed only by a run whose handler returned nil: a deadline, a
\* shutdown or another run's late result never completes it (runWithTimeout's
\* selects and the token Complete compares).
CompletedWasReturned ==
  /\ \A r \in Claims : stage[r] \in {"settling", "acking", "over"} /\ out[r] = "ok" => returned[r] = "ok"
  /\ status = "completed" => \E r \in Claims : out[r] = "ok" /\ returned[r] = "ok"

EndedRuns == {r \in Claims : stage[r] \in {"acking", "over"}}

Contract == INSTANCE RunContract
  WITH row <- status, owner <- holder, answer <- returned, ended <- EndedRuns

\* What Delivery takes a run for, through any order of answers, deadlines,
\* panics, shutdowns and reclaims: the row is settled by the run that holds it
\* and by no earlier one, and completed only on its own handler's nil
\* (runWithTimeout, and the claim_token that Complete and FailOrRetry compare).
KeepsRun == Contract!Spec

\* Every claim ends, whatever the handler does: settled by its worker, or,
\* when the settlement failed, the process died or was shut down, given back
\* by the reaper because the heartbeats have ceased (runWithTimeout's comment:
\* "so the reaper can reclaim via heartbeat expiry").
EveryClaimEnds == \A r \in Claims : holder = r ~> holder # r

\* A handler's goroutine ends when its handler has returned, late as it may
\* be: the buffered channel and hctx leave it nothing to wait for.
GoroutinesEnd == \A r \in Claims : handler[r] \in {"ok", "err"} ~> handler[r] = "gone"

\* ARCHITECTURE.md, Poison-pill handling: "register a handler that always panics, submit a job
\* of that type with max_retries=3, assert the job transitions to failed after
\* exactly 3 attempts": a panic is a failure of the job, and the process that
\* records it goes on.
PanicsAreRecovered == panics => lives
=============================================================================
