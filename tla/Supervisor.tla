----------------------------- MODULE Supervisor -----------------------------
(***************************************************************************)
(* runSupervisor: one child process per pool, a goroutine that waits for   *)
(* each, and one loop that restarts them, a pool at a time, over a channel *)
(* of pool names.  (src/internal/worker/worker.go)                         *)
(***************************************************************************)
EXTENDS Integers, Sequences, FiniteSets

CONSTANTS
  Pools,          \* poolOrder
  MaxBackoff,     \* 30 s: the cap of the restart backoff
  MaxStartFails,  \* bound: how often starting a process fails
  Nil

ASSUME SupervisorAssumption ==
  /\ IsFiniteSet(Pools) /\ Nil \notin Pools
  /\ MaxBackoff \in Nat \ {0} /\ MaxStartFails \in Nat

VARIABLES
  supAt,           \* the loop: starting, in its select, in a backoff, stopping, returned
  cur,             \* the pool in backoff
  launched,        \* the pools the first loop has started
  alive,           \* how many processes of each pool run
  waiting,         \* goroutines in cmd.Wait
  sending,         \* goroutines that send the pool's name to errCh
  errCh,           \* the channel, with room for each pool
  restartBackoff,  \* the map of the same name, in seconds
  shutdown,        \* the context is cancelled
  startFails       \* history: failed starts

supVars == <<supAt, cur, launched, alive, waiting, sending, errCh, restartBackoff, shutdown, startFails>>

SupTypeOK ==
  /\ supAt \in {"starting", "select", "backoff", "stopping", "returned"}
  /\ cur \in Pools \union {Nil}
  /\ launched \subseteq Pools
  /\ {alive, waiting, sending} \subseteq [Pools -> Nat]
  /\ errCh \in Seq(Pools) /\ Len(errCh) <= Cardinality(Pools)
  /\ restartBackoff \in [Pools -> 0..MaxBackoff]
  /\ shutdown \in BOOLEAN
  /\ startFails \in 0..MaxStartFails

SupInit ==
  /\ supAt = "starting" /\ cur = Nil /\ launched = {}
  /\ alive = [p \in Pools |-> 0]
  /\ waiting = [p \in Pools |-> 0]
  /\ sending = [p \in Pools |-> 0]
  /\ errCh = <<>>
  /\ restartBackoff = [p \in Pools |-> 0]
  /\ shutdown = FALSE /\ startFails = 0

Inc(f, p) == [f EXCEPT ![p] = @ + 1]
Dec(f, p) == [f EXCEPT ![p] = @ - 1]

-----------------------------------------------------------------------------
\* The first loop; when all are started each gets its waiting goroutine.
Start(p) ==
  /\ supAt = "starting" /\ p \notin launched
  /\ ~shutdown
  /\ launched' = launched \union {p}
  /\ alive' = Inc(alive, p)
  /\ IF launched' = Pools
       THEN supAt' = "select" /\ waiting' = [q \in Pools |-> 1]
       ELSE UNCHANGED <<supAt, waiting>>
  /\ UNCHANGED <<cur, sending, errCh, restartBackoff, shutdown, startFails>>

\* cmd.Start fails, or refuses a cancelled context: the supervisor gives up,
\* and cancels on its way out.
StartFails ==
  /\ supAt = "starting"
  /\ \/ shutdown /\ UNCHANGED startFails
     \/ startFails < MaxStartFails /\ startFails' = startFails + 1
  /\ supAt' = "returned" /\ shutdown' = TRUE
  /\ UNCHANGED <<cur, launched, alive, waiting, sending, errCh, restartBackoff>>

\* Mutant: the name is sent as soon as the process is, not when it ends
WaitSkipped(p) ==
  /\ waiting[p] > 0
  /\ waiting' = Dec(waiting, p)
  /\ sending' = IF shutdown THEN sending ELSE Inc(sending, p)
  /\ UNCHANGED <<supAt, cur, launched, alive, errCh, restartBackoff, shutdown, startFails>>

\* cmd.Wait returns; after a cancellation nobody is told.
WaitReturns(p) ==
  /\ waiting[p] > 0 /\ alive[p] = 0
  /\ waiting' = Dec(waiting, p)
  /\ sending' = IF shutdown THEN sending ELSE Inc(sending, p)
  /\ UNCHANGED <<supAt, cur, launched, alive, errCh, restartBackoff, shutdown, startFails>>

Send(p) ==
  /\ sending[p] > 0
  /\ Len(errCh) < Cardinality(Pools)
  /\ errCh' = Append(errCh, p)
  /\ sending' = Dec(sending, p)
  /\ UNCHANGED <<supAt, cur, launched, alive, waiting, restartBackoff, shutdown, startFails>>

\* The backoff of a pool that has just exited: 1 s, or twice the last.
NextBackoff(d) ==
  IF d = 0 THEN 1 ELSE IF 2 * d > MaxBackoff THEN MaxBackoff ELSE 2 * d

\* The select receives a pool's name.
Receive ==
  /\ supAt = "select" /\ errCh # <<>>
  /\ errCh' = Tail(errCh)
  /\ IF shutdown
       THEN supAt' = "returned" /\ UNCHANGED <<cur, restartBackoff>>
       ELSE /\ supAt' = "backoff" /\ cur' = Head(errCh)
            /\ restartBackoff' = [restartBackoff EXCEPT ![Head(errCh)] = NextBackoff(@)]
  /\ UNCHANGED <<launched, alive, waiting, sending, shutdown, startFails>>

\* The wait is over and the pool is started again.
Restart ==
  /\ supAt = "backoff" /\ ~shutdown
  /\ alive' = Inc(alive, cur)
  /\ waiting' = Inc(waiting, cur)
  /\ restartBackoff' = [restartBackoff EXCEPT ![cur] = 0]
  /\ supAt' = "select" /\ cur' = Nil
  /\ UNCHANGED <<launched, sending, errCh, shutdown, startFails>>

\* Mutant: the name of a pool that did not start is not sent again
RestartForgets ==
  /\ supAt = "backoff"
  /\ \/ shutdown /\ UNCHANGED startFails
     \/ startFails < MaxStartFails /\ startFails' = startFails + 1
  /\ supAt' = "select" /\ cur' = Nil
  /\ UNCHANGED <<launched, alive, waiting, sending, errCh, restartBackoff, shutdown>>

\* It cannot be started: a goroutine sends its name once more.
RestartFails ==
  /\ supAt = "backoff"
  /\ \/ shutdown /\ UNCHANGED startFails
     \/ startFails < MaxStartFails /\ startFails' = startFails + 1
  /\ sending' = Inc(sending, cur)
  /\ supAt' = "select" /\ cur' = Nil
  /\ UNCHANGED <<launched, alive, waiting, errCh, restartBackoff, shutdown>>

\* ctx.Done(): in the select the children are interrupted and, two seconds
\* later, killed; in a backoff the supervisor just returns.
Stop ==
  /\ shutdown
  /\ \/ supAt = "select" /\ supAt' = "stopping"
     \/ supAt = "backoff" /\ supAt' = "returned"
  /\ UNCHANGED <<cur, launched, alive, waiting, sending, errCh, restartBackoff, shutdown, startFails>>

KillAll ==
  /\ supAt = "stopping"
  /\ supAt' = "returned"
  /\ alive' = [p \in Pools |-> 0]
  /\ UNCHANGED <<cur, launched, waiting, sending, errCh, restartBackoff, shutdown, startFails>>

-----------------------------------------------------------------------------
\* A process ends: a panic, out of memory, an error, or the kill that
\* exec.CommandContext sends when the context is cancelled.
Exit(p) ==
  /\ alive[p] > 0
  /\ alive' = Dec(alive, p)
  /\ UNCHANGED <<supAt, cur, launched, waiting, sending, errCh, restartBackoff, shutdown, startFails>>

CancelSupervisor ==
  /\ ~shutdown
  /\ shutdown' = TRUE
  /\ UNCHANGED <<supAt, cur, launched, alive, waiting, sending, errCh, restartBackoff, startFails>>

SupNext ==
  \/ \E p \in Pools : Start(p) \/ WaitReturns(p) \/ Send(p) \/ Exit(p)
  \/ StartFails \/ Receive \/ Restart \/ RestartFails \/ Stop \/ KillAll \/ CancelSupervisor

\* Goroutines run; processes may fail for ever, starts of processes may not
\* (MaxStartFails).
SupFairness ==
  /\ \A p \in Pools : WF_supVars(Start(p)) /\ WF_supVars(WaitReturns(p)) /\ WF_supVars(Send(p))
  /\ WF_supVars(StartFails /\ shutdown)
  /\ WF_supVars(Receive) /\ WF_supVars(Restart \/ RestartFails) /\ WF_supVars(Stop) /\ WF_supVars(KillAll)

SupSpec == SupInit /\ [][SupNext]_supVars /\ SupFairness

-----------------------------------------------------------------------------
InChannel(p) == Cardinality({i \in DOMAIN errCh : errCh[i] = p})

\* Until the supervisor is told to stop, what happens to a pool has one
\* carrier: the goroutine that waits for its process, the goroutine or channel
\* that holds its name, or the loop that is restarting it.  So no pool ever
\* has two processes, whose consumers would share the streams, and none is
\* forgotten.
OneCarrierPerPool ==
  /\ \A p \in Pools : alive[p] <= 1
  /\ (supAt \in {"select", "backoff"} /\ ~shutdown) => \A p \in Pools :
       waiting[p] + sending[p] + InChannel(p) + (IF cur = p THEN 1 ELSE 0) = 1

\* A pool whose process ended is started again, even while other pools crash
\* without end and the loop waits out their backoffs one after the other.
PoolsComeBack ==
  \A p \in Pools : (supAt = "select" /\ alive[p] = 0) ~> (alive[p] = 1 \/ shutdown)
=============================================================================
