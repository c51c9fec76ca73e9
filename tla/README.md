# A TLA+ verification project for PierceMQ

PierceMQ is a job queue. PostgreSQL holds the jobs and is the source of truth,
Redis streams carry references to them, and a set of Go processes (API,
scheduler, reaper, worker pools under a supervisor, a web dashboard) moves each
job through its life. This directory holds TLA+ modules translated from the Go
source, TLC configurations that check them on small instances, and proofs,
checked by TLAPS, of what matters most for instances of every size.

Paths below are relative to `src/internal/` unless they start with `src/`.

1. [Inventory](#1-inventory)
2. [Modules](#2-modules)
3. [Runs](#3-runs)
4. [Fairness](#4-fairness)
5. [Proofs](#5-proofs)
6. [What the checks found](#6-what-the-checks-found)
7. [What is not modelled](#7-what-is-not-modelled)
8. [Plan](#8-plan)

## 1. Inventory

A job's life: a client POSTs it; the API inserts a row (and, for a recurring
job, the first occurrence of a series), then XADDs a reference to one of six
streams (three pools, a high and a low one each). A pool process reads the
stream, claims the row by moving it to `running` under a fresh `claim_token`,
queues it, runs a handler under a timeout while a goroutine refreshes
`heartbeat_at`, settles the row (`completed`; `pending` with a backoff in
`not_before`; `failed`) and acks the entry. The scheduler promotes scheduled
rows and reopens expired backoffs; the reaper takes back running rows with an
old heartbeat and re-sends pending rows that have waited too long. Nothing ties
the row and the stream together but these loops.

| Component | State | Operations | Talks to | Hard because | Correct when |
|---|---|---|---|---|---|
| Jobs table (`storage/jobs`) | rows: status, claim_token, attempt_count, not_before, heartbeat_at, series_id | create, claim, heartbeat, complete, fail-or-retry, reclaim, promote, due retries, retry, cancel, cancel series, purge | called by every process | concurrent transactions under READ COMMITTED, SKIP LOCKED batches, callers whose claim is long lost | each operation is as good as atomic; a stale token changes nothing; the retry budget holds; a settled job stays settled; a series has one next occurrence until it is stopped |
| Streams and consumer groups (`broker`) | entries, pending list of each group | XADD, XREADGROUP, XAUTOCLAIM, XACK | API, scheduler, reaper write; pools read | entries are lost, trimmed, duplicated, delivered again while they run | no entry names a scheduled job; no two workers share a job; what is lost is sent again |
| API (`api/handlers`, `api/middleware`) | none but the rate limiter's buckets and the key tables | enqueue, retry, cancel, cancel series, list, stats | table, streams | two writes that are not one; racing and repeated requests under a key | a key names one job and retries once; buckets are neither overdrawn nor withheld |
| Scheduler (`scheduler`) | none | Tick: promote, reopen, XADD; Maintain: partitions, purge | table, streams | dies between its transactions and its XADDs; several instances | nothing promoted is forgotten; rows find a partition; old rows go |
| Reaper (`reaper`) | none | Tick: reclaim, sweep, XADD | table (also through its standbys), streams | batches, lagging reads, rows it cannot route | one tick sends a job once; every row that can be sent is swept in the end |
| Worker pool (`worker`, `dispatcher`) | channels Jobqueue, WorkerPool, workerPoolCh; goroutines | consume, dispatch, run handler, settle, ack | table, streams, handlers | goroutines, channels and contexts that end in any order | accepted jobs start; shutdown drains; every claim ends |
| Handlers (`task/handlers`) | temporary files, child processes, SMTP sessions | e-mail, exec, file copy | SMTP server, processes, file system, S3 | an attempt is abandoned at its timeout and goes on beside the next | no torn file; an answer is true; a run returns |
| Supervisor (`worker.runSupervisor`) | child processes, errCh, backoffs | start, wait, restart, stop | pool processes | one loop waits out backoffs for all pools | each pool has one process, and gets it back |
| Web dashboard (`web`) | a session cookie in the browser | pages, fragments and forms, each rendered from API calls | API | tabs share the cookie; tokens expire and answers arrive between a request and its answer | redirects end |
| Authentication, API keys, users (`auth`, `storage/auth`, `storage/users`) | rows of users and api_keys | register, login, create, revoke, look up | primary, standbys | look-ups are spread over standbys that lag, each in its own way; answers get lost | an account acts for whoever made it; a service that rotates keys is not shut out of a standby that has let it in |
| CLI, client library | - | HTTP calls | API | - | - |
| Migrations, configuration | schema, environment | once at deployment | table | - | - |

`PROJECT.json` lists every component with its status, and under `hazards` each
place in the code where something can go wrong that a test would hardly reach,
with the properties that watch it.

## 2. Modules

### 2.1 The core: table, transactions, delivery

| Module | Models | State and actions |
|---|---|---|
| `JobStore` | the jobs table and the transactions of `storage/jobs` | one function per column (jobs to values); one action per transaction, its guard from the SELECT's conditions and its effect (`Set...`) from the UPDATE. uuids minted by the n-th claim of a row are the number n. Wall-clock columns keep what guards tell apart: `not_before` is null, in the future or past, `heartbeat_at` fresh or stale; two actions let time pass. `MaxRetry` is any integer but 0, which CreateJob replaces by 3; `Poisoned` are the series whose expression NextAfter rejects, which end with their first occurrence. |
| `JobContract` | nothing of the code: what the owner of a job is promised | state of a job (new, waiting, active, done, dead, cancelled, purged) and whether its work was done |
| `Transactions` | the same operations as interleaved sessions | each session locks rows one at a time (waiting, or skipping with SKIP LOCKED), re-reads them under the lock and commits; the committed table is JobStore's |
| `Delivery` | API, scheduler, reaper, streams, consumers, workers over the table | `entry` (a stream entry: none, in the stream, in the pending list), `inbox` (delivered, not yet processed), `held` (copies of a job in a pool's memory, with the token they claimed and how far they are), `idle` (free workers), `toSend` (rows some process is about to XADD), a fault budget. The jobs of `Unroutable` name a queue StreamFor does not know: each sender skips them (`Sends`), a follow-up has its series' queue (`SameQueue`). |

`Delivery` composes the processes over `JobStore` and is shown to implement both
`JobStore` (refinement by identity: `KeepsStore`) and `JobContract` (under the
mapping `OwnersView`: `KeepsContract`). `Transactions` implements `JobStore`
with the committed table as the mapping. So the chain is

    sessions with locks  =>  atomic operations  <=  the composed system  =>  owner's contract

`Delivery` also takes smaller things for granted, and three contracts say which.
`PoolContract` is what it makes of the goroutines and channels of a pool: jobs are
started in the order they were accepted, each once, while the counter `idle` is
above 0, and a worker is free again only once the pool stops. `WorkerPool`
implements it (`KeepsOrder`), with `idle` mapped to the JobChannels in WorkerPool
and in the dispatcher's hand. (What a stopping
pool still does is part of `Delivery`'s `Crash`.) `KeyContract` is what clients see
of creations under idempotency keys: a job and its key appear at once, a refusal
names a job that was created, a key is free again only with or after its job.
`CreateKeys`, with its locks, rollbacks and purges, implements it (`KeepsPromise`).
`RunContract` is what it makes of a run: a run ends once, settles the row only while
the row is claimed for it, completes it only when its own handler has answered nil,
and otherwise leaves the row to the reaper. `HandlerRun`, with its three goroutines,
channel and contexts, implements it (`KeepsRun`); a run has ended there once its
worker has settled or the process is gone.

One rule of `JobStore` is a demand on its callers: `ClaimRunning` accepts a row
that is still scheduled (`storage/jobs/jobs_lifecycle.go:22`), so nobody may be
handed the id of one. `Delivery` proves that nobody is (`NoScheduledEntry`).

### 2.2 The parts of one process

| Module | Models | Remarks |
|---|---|---|
| `WorkerPool` | runPool's goroutines and channels | channels are sequences with the code's capacities, and so is what the dispatcher has in its hand (`disp.job`, `disp.worker`: empty or one value); handlers are opaque |
| `PoolContract` | nothing of the code: what `Delivery` assumes of a pool | jobs accepted and started, free workers |
| `HandlerRun` | workerLoop's run of one job: runWithTimeout, heartbeatJob, failJob, the reaper's reclaim | worker, handler and heartbeat goroutines of each run, the contexts, a panic, a shutdown, failed settlements |
| `RunContract` | nothing of the code: what `Delivery` assumes of a run | the row, whose it is, the handlers' answers, the runs that have ended |
| `ServeLoop` | ServeJobs' select loop, with ProcessJobs and DispatchTask | Redis that goes away, comes back, or comes back empty; backoff in ms; a batch is processed before the next read, and the loop waits in DispatchTask while Jobqueue, which it shares with the pool's other loop, is full; the dispatcher takes `Handovers` jobs out of it, since each worker takes one (section 6) |
| `Supervisor` | runSupervisor | one record of who carries each pool: its waiter, a name in errCh, the loop |
| `LegacyStream` | the Redis-only path of bare tasks | entries with their attempt, the pending list, the dead letters, trimming, a crash between any two commands |
| `CreateKeys` | CreateJob's idempotency key | statement by statement: insert, unique index wait, conflict, commit, rollback, and both purges of the retention |
| `KeyContract` | nothing of the code: what clients are promised of a key | answers, jobs and the key's job |
| `RetryKeys` | POST /v1/jobs/{id}/retry | the key is bound in a statement before the retry; errors in between, replays; each job's own failures and retries |
| `RateLimit` | RateLimiter.Allow | clock read before the mutex; time and tokens in integer units; when the bucket was last full and what it granted since |
| `ReaperTick` | reaper.Tick as the code runs it | batch limits, ORDER BY created_at, unroutable queue names, the map of reclaimed jobs |
| `Partitions` | Maintain: monthly partitions and purge | months relative to the present, two schedulers, DEFAULT |
| `EmailSend` | ParseEmailPayload, SMTPSender.Send | the SMTP dialogue as steps, what the server has accepted; attempts that fail, time out or die, and successes that Complete does not record, all of which are repeated |
| `ExecRun` | Runner.Run and os/exec's copiers | two goroutines over one unlocked buffer, a descendant that keeps the pipes |
| `FileCopy` | ParseFilePayload, Process, local and S3 storage | attempts side by side over the same files, death between any two steps |
| `Credentials` | registration, login, tokens, API keys, RequireAuth | the primary's log of commits and how much of it each standby has (`src/docker/haproxy/haproxy.cfg:31-39` spreads reads over them); a request between its authentication and its effect; lost answers; a service that rotates its key |
| `Dashboard` | sessions of `web` | one cookie jar, several tabs, each between a click, the server's answer and the browser's receipt of it |

`EmailSend`, `ExecRun` and `FileCopy` refer to Go's standard library only
through what the handlers use of it.

### 2.3 MC modules

`MCDelivery` and `MCTransactions` instantiate one module each. `MCRequests`
(`CreateKeys`, `RetryKeys`, `RateLimit`, `Credentials`, `Dashboard`, `EmailSend`,
`FileCopy`), `MCBackground` (`HandlerRun`, `ExecRun`, `ReaperTick`, `Partitions`)
and `MCConsumers` (`WorkerPool`, `ServeLoop`, `Supervisor`, `LegacyStream`) check
several modules in one run. Those modules share no variable, so an interleaving
of their steps shows nothing that the modules alone do not: a behaviour picks
the one that moves (`part`) and the others stay where they started, with the
fairness of the part that moves and of no other. `Parts` of `MCRequests` is what a run lets it
choose from (`fresh_login`: one part, `requests`: all). In a state of such a run a
property of another part holds of that part's initial state.

## 3. Runs

| Run | Module | Shows | Bounds, and why they suffice |
|---|---|---|---|
| `tx` | MCTransactions | every interleaving of two sessions is a behaviour of atomic operations, and the table keeps its invariants; a series has one next occurrence until it is stopped, a poisoned one ends with its first | 2 sessions: conflicts between operations are pairwise; 3 claims leave a claim, its reclaim and another; MaxRetry 2 separates retry from failure. `TwoRowsOrNoClaims`: tables of up to 2 rows of a series in every state, and tables of 3 rows nobody has claimed, of one series that parses and one that does not: an occurrence, its follow-up and a row for one too many, none of which needs a claim |
| `delivery` | MCDelivery | no status contradicts the work, no stale worker settles, no scheduled job is in a stream | 1 job with 2 stream entries (a duplicate), 3 claims, one fault of any kind (lost XADD, lost entry, lost claim, failed settlement, failed ack, dead pool); jobs do not interact except through series and workers |
| `delivery_pools` | MCDelivery | without faults no two workers have one job; the table sees only the operations of JobStore | 2 jobs of a series, 2 pools of one worker, replica lag; `SlowQueue` FALSE |
| `delivery_live` | MCDelivery | every job for a known queue settles, whatever one fault loses | 1 job, 5 claims (a full budget, a replay, a reclaim), 5 workers (see section 6 on workers that are used up) |
| `requests` | MCRequests | creations look like steps of `KeyContract`, so that a key names its job and a conflict is real; a key retries once, and a job no more often than it has itself failed; buckets are neither overdrawn nor withheld; accounts and key rotation hold against standbys; redirects end; answers of e-mail and file attempts that overlap or are repeated are true | 3 creations and 3 retries on 2 keys: two that race and one after; 2 jobs to retry, so that one's failures could pay for the other; 2 callers, 2 requests whose clocks cross, 1 bucket before the map is reset, 3 ticks, the time in which a bucket refills by more than a request costs; 2 people who want one of 2 addresses, the first account being the first person's at the first address (`FirstAccount`), 2 standbys that lag apart, 2 API keys (the old one and the new one), 1 lost answer; 2 tabs, 2 sessions, and 20 redirects, far above what `RedirectsEnd` allows; 3 attempts of an e-mail; 2 file attempts with 2 faults, a path, an object and one malformed reference of each kind. Standbys and tabs are interchangeable, and no property of the run is liveness |
| `background` | MCBackground | the goroutines of a run look like steps of `RunContract`: success is not made up; every claim ends, goroutines end; a command returns within its cap; one dispatch per tick; every row is swept; rows find partitions; old rows go | 2 runs of a job (a claim and the one after the reclaim), 1 fault; a buffer of 3 with writes of up to 2, so that room runs out in the middle of a write; 3 jobs, one unroutable, batches of 2: the batch is smaller than the backlog; 2 schedulers over months without end, looking 2 ahead |
| `consumers` | MCConsumers | pools start what they accept, in order and on free workers (`PoolContract`), and drain; entries get read unless the pool is used up; pools come back; acks are followed | 2 workers, 2 lanes, a queue of 1, 2 jobs a lane: more jobs than workers and queue hold; 2 outages and 1 loss of Redis, a Jobqueue of 1 with 2 jobs to be handed over: the reading loop waits for room, gets it, and in the end does not; 3 pools as in poolOrder; 2 tasks (one malformed), 3 runs, 1 crash, 1 trim |
| `pool_slots`, `tx_series`, `run_panic`, `fresh_login`, `poison_pill` | | disagreements with the documentation, section 6 | |

Every property has a mutant in `PROJECT.json`: a definition changed the way a
plausible bug would change the code (a dropped guard, a forgotten reset), under
which TLC finds the property violated. The mutants stand in the modules before
what they change.

`CHECK_DEADLOCK FALSE` is set everywhere: each of these systems may come to
rest, when its jobs are settled and its bounds are used up.

Counters are bounded in guards only: claims (`MaxClaims`), faults
(`MaxFaults`, `MaxErrors`, `MaxOutages`, `MaxLosses`, `MaxTrims`,
`MaxStartFails`, `MaxRunFaults`, `MaxTickFaults`, `MaxCycleFaults`, `MaxLost`),
attempts (`MaxAttempts`, `MaxRuns`), inputs (`MaxJobs`, `MaxEntries`, `MaxCopies`,
`MaxReads`, `MaxKeys`, `MaxLogins`), time (`MaxTime`, `Horizon`). `MaxHops` ends a
chain of redirects as a browser does. `MaxLag` of
`Partitions` is an assumption rather than a bound: a retention cycle is run to
its end at least once in so many months.

## 4. Fairness

* `Delivery!FairSpec` (run `delivery_live`): scheduler, reaper and pools tick for ever
  (`scheduler.Run`, `reaper.Run`: a tick that fails is repeated), so a row that
  stays eligible is taken; streams are read in order; every handler is cut off
  by JOB_TIMEOUT_SEC; Go runs goroutines that can run. Clients and faults owe
  nothing. The run gives a pool more workers than the job has claims, because a
  pool loses a worker with each job (section 6); without that the property
  fails.
* `PoolFairness`: goroutines run and handlers are cut off. A select with several
  ready cases takes any: no fairness between them is assumed.
* `RunFairness`: goroutines run, timers fire, database calls return and the reaper
  ticks. Nothing makes a handler return, a pool stop or the job be claimed.
* `ServeFairness`: the loop and the dispatcher run, and a Redis that went away
  comes back. Strong fairness of the read says that the ticker, at 12 s, does
  not hold a tick at every turn of the loop; for the same reason `Ticks` leaves
  out the claims of a batch, which are over sooner. DispatchTask may wait for ever.
* `SupFairness`: goroutines run. Processes may fail for ever; starting one
  fails a bounded number of times.
* `ExecFairness`: the deadline comes and kills, copiers run, and whoever else
  holds the pipes lets go one day. Nothing makes a child exit.
* `TickFairness`, `PartFairness`: time passes, ticks come, cycles go on, workers
  take what is in the streams.
* `RequestsSpec` states none: what it checks is safety.

## 5. Proofs

The proof modules extend the modules they are about; all constants are
arbitrary under the named assumptions of those modules.

**`JobStoreProofs`** (from `StoreConstants`). The inductive invariant is
`StoreInv == StoreTypeOK /\ StoreCounts /\ TokenDiscipline /\ RetryBudget`.
`StoreCounts` relates the counters of a row (each attempt was a claim, each
reclaim took an attempt back, the current one excepted); without it neither the
types nor the budget are inductive, since a reclaim must find an attempt to take
back. From it follow `StoreTypeCorrect`, `TokensDisciplined`, `BudgetKept` and
`SettledStaysSettled` (an action property). `SeriesGoesOn` proves
`OneNextOccurrence` from `SeriesInv`: absent rows have no series, a series has at
most one scheduled row, and it has one unless a member was stopped; a poisoned one
never has a second row. Of `max_retry` the proofs use only that it is not 0:
`Budget` is what a row of any other value allows.

**`DeliveryProofs`** (from the assumptions of `JobStore` and `Delivery`).
`NoScheduledEntry` is inductive only once it covers rows still to be inserted,
because the follow-up of a recurring job is scheduled the moment it exists:
`NoEarlyEntry`. `DeliveryInv == TypeOK /\ StoreInv /\ NoEarlyEntry` gives
`DeliveryTypeCorrect` and `ScheduledIsUnsent`, and with it `ImplementsStore`: every
step of the system is a step of `JobStore` or leaves the table (a token that
passes `Owns` was minted, by `TokenDiscipline`; a job that is claimed is not
scheduled, by `NoEarlyEntry`). `SystemKeepsTable` then carries the theorems of
`JobStoreProofs` over. `LatestClaimSettles` looks at which actions take a row out
of running. `CompletedIsTrue` adds `WorkedInv` (a copy whose outcome is "ok" has its
work recorded). `ImplementsContract` maps the initial state and each step to
`JobContract`.

**`TransactionsProofs`**. `TxInv` says that a row a session holds still qualifies
(`SeenStillHolds`, theorem `LocksSuffice`), that what a purge has in its snapshot
stays final, and that an idle session holds nothing. Since nobody else writes a
held row, the commit finds the guard of its `JobStore` step true:
`OperationsAreAtomic`. `TransactionsKeepTable` carries the table's theorems over.

The workers of `Delivery`: `ClaimsApart` says that the claims at work on a job have
tokens of their own, all of them minted, so that of any two at most one passes
the guards of the table, whatever was lost (`OneOwnerAtATime`). `FaultlessKeep`
says that until the first fault every claim at work is the row's latest, with a
fresh heartbeat, which no reaper takes; it needs that a claim in Jobqueue is
not slow (`~SlowQueue`), since nothing refreshes it there. Then no two workers have
one job (`FaultlessOneWorker`). Neither hypothesis can be dropped: a claim whose
heartbeat is lost is handed to a second worker by design.

**`AccessProofs`** is about how clients get at the API.
Rate limit: a request whose clock lies behind sets the bucket's clock back, so
that the next one earns the same time again; what is kept is the sum of the
tokens and of the time still to be earned (`Balanced`). `RateBounded` and
`RefusalsEarned` are its two sides; for the second the books are opened anew by
each request that finds the bucket full, so that they balance exactly.
Accounts: the primary's log has one row for an address, and a token or a key
leads back to it (`AccountsStayOwn`).
Rotation: what a standby accepts now does not say what it will accept after
its next step, so `RotationInv` speaks of every state that each standby has yet to
go through (`AcceptedFromNowOn`): in each of them some key of the service is accepted.
A commit adds a state to come, in which the key in use is accepted
(`KeyInUse`, `CommitsKeepAccess`); a standby leaves one behind; and only the
service itself can name its key in a revocation (`RotationsKeepAccess`).
Redirects: `HopsCounted` gives each tab a number of redirects still to come, by
where its request is, what cookie it carries and whether that is the one the
browser holds. What was followed and what is to come are at most three, and one
more for each change of the session; a redirect that is followed takes one
away, a change of the session adds one at most (`RedirectsBounded`).

**`PartitionsProofs`** (from `PartitionAssumption`). `PartTypeCorrect` holds of every
deployment. `DefaultUnused` is about those `InTime`: the migrations' partitions
reach as far as a cycle looks ahead (`0..Ahead` bootstrapped) and cycles are run
to their end often enough (`MaxLag <= Ahead`). Then no row lands in DEFAULT:
`PartInv` says that the partitions cover the months up to `Ahead - lag`, and for
each cycle under way those it has passed.

**`RequestsProofs`** is about what racing requests and attempts leave behind.
Creations: whoever inserts or deletes a key row holds it until its transaction
ends, so `KeysInv` says what a holder knows (`InsertersHold`, `PurgerHolds`:
nobody else has a committed row of that key; the keys being purged stay
orphans) and that a key's owner did create its job (`OwnersCreated`); from it
`KeysNameJobs` and `ConflictsAreReal`. Retries: the request that the key's
statement let on is the only one under its key, for the key's job, which was not
retried yet (`OneAdmitted`); a request that is answered as a replay met its own job's
key row (`Replayed`), and behind each key row is a request that has retried, is
about to, or failed to (`KeyIsAnswered`); whence `KeysRetryOnce`. How often a job is retried is
a matter of books kept for each job (`CountsInv`): a job that is failed has one retry to come, paid
for by its last failure, and a request past the retry has one entry to come,
paid for by the retry; a retry spends the one and earns the other
(`FailuresPayRetries`).
`CreationsKeepPromise` is the refinement of `KeyContract`: every statement before a
commit stutters; whoever commits a key holds it, so it is free
(`InsertersHold`); whoever was refused has met a job of its key
(`RefusalIsReal`); the keys that a purge removes are orphans (`PurgerHolds`).
E-mail: an attempt that is past the closing of the data has one copy at the
server, one that was refused before has none, and the row learns of no other
(`AnswersMatch`). Files: a temporary file belongs to one attempt and is
renamed when whole (`FilesStayWhole`, `AnswersStayTrue`). The types of both
(`EmailTypeCorrect`, `FileTypeCorrect`) rest on those invariants: that a server
takes one copy at most from an attempt, that no attempt holds a torn file or
more than the cap.

**`BackgroundProofs`**. `RunInv` follows an outcome from the handler's return
through the channel to the worker (`OutcomeIsReturned`); it needs `NoneBefore`,
that nothing is known of a handler that still works, since otherwise its return
would change what the worker has. `CompletionsReturned` follows. So does the
refinement of `RunContract` (`RunsKeepContract`): a return is the answer of a run
that was claimed for (`ReturnIsAnswer`), a settlement is the holder's, or settles
nothing (`SettleIsContract`), a process that dies ends the runs it had begun
(`DeathEndsRuns`), and the channel, the deadlines and the heartbeats stutter
(`RunStutters`). For the output
of a command `RoomIsFound` counts what the copiers are about to add: the second
to look found the room the first had not yet filled, so that both together pass
the cap by one write at most (`OutputStaysBounded`). For a tick, `SentOnce` keeps
three things apart: what it has sent, what is still on its list, and, while it
sweeps, what it reclaimed and has to pass over; the list of a batch has no row
twice (`TickSendsOnce`).

**`ConsumersProofs`**. `LegacyInv` says that a run may ack because something
follows its entry already (`AckersAreFollowed`), which stays true as streams only
grow (`FollowedStays`); a run that dies between the copy and the ack leaves the
entry pending. `SupInv` adds up the carriers of a pool (`Carriers`); `HeldAppend`
and `HeldTail` count a name's places in errCh across a send and a receive. The
sum is 1 while the supervisor runs, so a pool is restarted by whoever carries it
when nothing of it is alive (`PoolsHaveOneCarrier`).

`PoolInv` lays out a pool's channels: what was accepted is what was started, the
dispatcher's job and Jobqueue, in this order (`InOrder`); a worker that is free or
away counts once, and none registers before the shutdown, because workerPoolCh
stays full (`SlotsCounted`); a JobChannel is in WorkerPool or in the dispatcher's
hand once, and its worker waits at its select or has returned (`FreeOnce`). The
last is `HandoffsAreToFree`; together they give each step of the pool its step of
`PoolContract` (`PoolKeepsOrder`).

Every module of the code has its type invariant proved, and every invariant and
action property of the passing runs is a theorem (`OneWorkerAtATime` under the two
conditions under which the run checks it). `KeysNameTheirJobs`, `ConflictIsReal`,
`HandoffIsToFree` and `CompletedWasReturned` are proved and not checked by a run:
each says of its module's states what a contract that is checked says of the
steps, or is a part of the invariant behind it. Only model-checked is what is
out of the prover's reach: liveness, which needs ENABLED and fairness
(`EveryJobSettles`, `RunReturns`, `EveryClaimEnds`, `GoroutinesEnd`, `EveryRowIsSwept`,
`OldRowsArePurged`, `FreshPoolServes`, `Drains`, `EntriesAreRead`, `PoolsComeBack`).

## 6. What the checks found

Five runs show the code doing other than what the repository says of it:

* `pool_slots`: every worker blocks after its first job. workerLoop sends the
  worker to `workerPoolCh` (`worker/worker.go:525`), which runPool filled to
  capacity at start-up (line 357) and which nothing receives from; the worker
  never gets back into `WorkerPool`. A pool of n workers runs n jobs until it is
  restarted. (line 477: "still releases the worker slot")
* `tx_series`: CancelSeries passes over the scheduled row that a scheduler holds
  and does not see the follow-up it is about to insert, so the series goes on
  after it was answered to be cancelled. (`storage/jobs/jobs_ops.go:206`: "future
  occurrences stop because promotion only fires on scheduled rows")
* `run_panic`: a handler's panic happens in runWithTimeout's own goroutine, out of
  workerLoop's recover, and ends the process with all its jobs.
  (`src/ARCHITECTURE.md:1001`)
* `fresh_login`: a login reads a standby, so whoever was just answered 201 by the
  registration may be answered 401 (`storage/users/users_queries.go:71`), by the
  dashboard as well, which logs in right after it has registered.
  (`src/ARCHITECTURE.md:617`: "Read-your-writes consistency is handled by reading
  from the primary immediately after a mutation")
* `poison_pill`: the reaper re-opens a running row without comparing its attempts
  with max_retry (`reaper/reaper.go:142`, `storage/jobs/jobs_reaper.go:66`), so a
  job that kills its worker is tried without limit; `RetryBudget` therefore counts
  reclaims. (`src/ARCHITECTURE.md:892`: "When `attempt_count >= max_retries`, the job
  transitions to `failed`")

Met while modelling, kept in the models as the code has it, and not the subject
of a run:

* The answer to a 401 deletes whatever session cookie the browser has by then
  (`web/auth.go:28`); when another tab has logged in since the request, a live
  session goes. (line 26: "clears a dead session") `RedirectsEnd` has that case.
* A job with an unknown queue name is accepted and stays pending for ever: scheduler,
  reclaim and sweep look its stream up by the same name and skip it
  (`reaper/reaper.go:119`; `scheduler/scheduler.go:78-80` has it that "the
  stale-pending sweeper re-dispatches them"). `Delivery` has such jobs
  (`Unroutable`), and `EveryJobSettles` leaves them out.
* The retry's key is committed before the retry (`api/handlers/jobs.go:230`); if the
  retry then fails, the resend is answered as a duplicate and nothing is retried.
  (line 215: "makes resends safe") The second part of `OneRetryPerKey` says exactly
  when that happens: only after the first request was answered by an error.
* The Message-Id is the payload's job_id, which no part of the program puts there, or
  else a new uuid for each attempt (`task/handlers/email.go:120`), so the copies of a
  job's e-mail share nothing. (lines 110-112: "so duplicate deliveries
  (at-least-once) can be recognised downstream")
* A claim has no heartbeat until a worker takes it out of Jobqueue
  (`worker/worker.go:554`): the reaper may take it from a live pool
  (jobs_reaper.go:14 speaks of "jobs whose worker died"). `SlowQueue` in `Delivery`
  switches it on and off.
* A redelivered entry of a running row is acked (`broker/consumer.go:195`), so that
  the stream never recovers a lost run before the reaper does, as line 23 has it.
* Any error of XREADGROUP is taken for an empty reply (`broker/consumer.go:106`):
  the backoff of line 30 is never reached and the loop spins while Redis is down.
* Consumer groups are made on connecting only (`broker/redis.go:163`): after a
  restart of Redis without its data a running pool reads nothing any more.
* The legacy dead-letter copy and its ack are two commands and an entry may run
  twice, so copies may double (`broker/consumer.go:332`, against 369-371).
* batchSize rows with an unknown queue name hide all younger rows from the sweep
  (`storage/jobs/jobs_lifecycle.go:299`); `EveryRowIsSwept` is checked with fewer.
* The two output pipes of a command share a buffer without a lock
  (`task/handlers/exec.go:134`); it may overshoot its cap by one write
  (`OvershootIsBounded`), and the concurrent writes are a data race, modelled by
  any order of the two checks and copies.
* A local source with an S3 destination is refused (`task/handlers/file.go:118`:
  only the source is looked at).
* Rows that once landed in DEFAULT block the partition of their month, the
  error blocks the later months and the purge (`storage/jobs/jobs_retention.go:78`).
  `OldRowsArePurged` is checked where DEFAULT stays empty.
* A new API key that one standby accepts may be unknown to the standby the next
  request is sent to, after the old key was revoked (`storage/auth/apikeys.go:70`).
  `RotationKeepsAccess` is about each standby that has accepted the service.
* The loop that reads a stream waits in DispatchTask while Jobqueue is full, for
  good once the workers of `pool_slots` are used up; `EntriesAreRead` has that case.
* Keys of retries, and job_events, are never purged.

## 7. What is not modelled

* Reads that change nothing (list, status, statistics, health), the CLI and the
  client library: stateless clients of the API. What the dashboard's pages show
  (generated views) is left out; its sessions are in `Dashboard`.
* The strength of passwords, hashes and token signatures: `Credentials` takes a
  password that is the account's and a token that was issued for it as such.
* Cron expressions: a library computes the next occurrence; the models use only
  that there is one, or that the expression does not parse.
* Claims of one batch that take longer than the 12 s ticker: `ServeLoop` lets no
  tick fall due among them while Redis answers.
* Reads that go to another standby within one operation: `Delivery`'s `ReplicaLag`
  lets each read be arbitrarily old instead.
* Configuration, connection pools and Sentinel's election of a master: their
  values are constants, their failures are faults (`Outage`, `DataLoss`,
  `LoseEntry`).
* Migrations: run once by a one-shot; the schema's constraints are in `JobStore`
  and `CreateKeys`.
* The pools' liveness keys (heartbeatLoop): only the statistics endpoint reads
  them.
* Formats: JSON of payloads and stream fields, the text of an e-mail, the
  signature of S3 requests. A stream reference is its job and its entry, since
  processRef takes everything that matters from the row it claims.

Code outside `src/` is modelled from how `src/` uses it and marked external in
`PROJECT.json`: PostgreSQL's row locks, unique indexes and partitions, Redis
streams and their trimming, os/exec, the SMTP server.

## 8. Plan

Done, in this order: `JobStore`, `Delivery` with `JobContract` and their proofs;
`Transactions` and its proof; the worker's parts (`WorkerPool`, `HandlerRun`,
`ServeLoop`, `Supervisor`, `LegacyStream`); the API's (`CreateKeys`, `RetryKeys`,
`RateLimit`); the periodic ones (`ReaperTick`, `Partitions`); the handlers;
`Credentials` and `Dashboard`; the safety of the parts (`RequestsProofs`,
`BackgroundProofs`, `ConsumersProofs`) and of access (`AccessProofs`); the contracts
`PoolContract`, `KeyContract` and `RunContract` and their refinements.

What is left, by its worth:

1. Abstract further: `RetryKeys` as an implementation of a contract like
   `KeyContract`.
2. Prove: the safety part of the leads-to properties, where a ranking bounds
   the steps that are left (`FreshPoolServes`, `OncePerTick`'s list).
3. Model: migrations as the schema versions they move between; the routing of
   names and priorities to streams (`queue/queue.go`).
