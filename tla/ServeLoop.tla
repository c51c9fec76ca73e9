----------------------------- MODULE ServeLoop ------------------------------
(***************************************************************************)
(* ServeJobs, the loop that reads one stream for a pool: what it does when *)
(* Redis is away, comes back, or comes back without its data, and when the *)
(* pool is told to stop.  The loop processes what it has read before it    *)
(* reads again, and DispatchTask blocks it while Jobqueue is full; the     *)
(* dispatcher empties Jobqueue as long as there are workers that have not  *)
(* had a job (module WorkerPool).  A consumer group exists because some    *)
(* process created it while it connected (initStreams).                    *)
(* (src/internal/broker/consumer.go, redis.go, stream_producer.go,         *)
(* src/internal/dispatcher/dispatcher.go)                                  *)
(***************************************************************************)
EXTENDS Integers

CONSTANTS
  MinReadBackoff,  \* minReadBackoff, in ms
  MaxReadBackoff,  \* maxReadBackoff, in ms
  Batch,           \* Count: entries per XREADGROUP, or XAUTOCLAIM
  JobqueueCap,     \* capacity of Jobqueue
  Handovers,       \* jobs the dispatcher takes out of Jobqueue before it is stuck:
                   \* one per worker, and the one it holds then
  MaxEntries,      \* bound: entries in the stream
  MaxOutages,      \* bound: outages of Redis
  MaxLosses        \* bound: restarts of Redis without its data

ASSUME ServeAssumption ==
  /\ {MinReadBackoff, MaxReadBackoff, Batch, JobqueueCap, MaxEntries} \subseteq Nat \ {0}
  /\ {Handovers, MaxOutages, MaxLosses} \subseteq Nat
  /\ MinReadBackoff <= MaxReadBackoff

VARIABLES
  up,              \* Redis answers
  group,           \* the stream has its consumer group
  unread,          \* entries the group has not delivered
  pending,         \* entries delivered and not acked
  reading,         \* the loop: at its select, waiting after a failure, processing an
                   \* entry, at DispatchTask with its job, or returned
  inHand,          \* entries read or taken over that ProcessJobs has not been through
  queued,          \* jobs in Jobqueue, of this stream and the pool's other one
  handovers,       \* jobs the dispatcher will still take
  readBackoff,     \* the local variable of ServeJobs
  tick,            \* ticker.C holds a tick
  ctxDone,         \* the context is cancelled
  outages, losses  \* history: outages and losses so far

redisVars == <<up, group, outages, losses>>
queueVars == <<queued, handovers>>
serveVars == <<redisVars, queueVars, unread, pending, reading, inHand, readBackoff, tick, ctxDone>>

Backoffs == {0} \union (MinReadBackoff..MaxReadBackoff)

ServeTypeOK ==
  /\ {up, group, tick, ctxDone} \subseteq BOOLEAN
  /\ unread \in 0..MaxEntries /\ pending \in 0..MaxEntries
  /\ unread + pending <= MaxEntries
  /\ reading \in {"select", "wait", "process", "put", "returned"}
  /\ inHand \in 0..Batch /\ (inHand = 0 <=> reading \notin {"process", "put"})
  /\ queued \in 0..JobqueueCap /\ handovers \in 0..Handovers
  /\ readBackoff \in Backoffs
  /\ outages \in 0..MaxOutages /\ losses \in 0..MaxLosses

\* The pool has connected, and initStreams has created the group.
ServeInit ==
  /\ up = TRUE /\ group = TRUE /\ unread = 0 /\ pending = 0
  /\ reading = "select" /\ inHand = 0 /\ readBackoff = 0 /\ tick = FALSE /\ ctxDone = FALSE
  /\ queued = 0 /\ handovers = Handovers
  /\ outages = 0 /\ losses = 0

Reachable == up /\ group

NextReadBackoff(current) ==
  CASE current < MinReadBackoff -> MinReadBackoff
    [] current >= MinReadBackoff /\ current * 2 < MaxReadBackoff -> current * 2
    [] OTHER -> MaxReadBackoff

\* The call that failed is followed by waitBackoff.
WaitBackoff ==
  /\ readBackoff' = NextReadBackoff(readBackoff)
  /\ reading' = "wait"

\* ProcessJobs goes through n entries before the loop is back at its select.
Processes(n) ==
  /\ inHand' = n
  /\ reading' = IF n = 0 THEN "select" ELSE "process"

UpTo(n) == IF n < Batch THEN n ELSE Batch

-----------------------------------------------------------------------------
\* The select with a tick in the channel: XAUTOCLAIM takes over what has been
\* pending for a minute.
AutoClaim ==
  /\ reading = "select" /\ tick
  /\ tick' = FALSE
  /\ IF Reachable
       THEN (\E n \in 0..UpTo(pending) : Processes(n)) /\ UNCHANGED readBackoff
       ELSE WaitBackoff /\ UNCHANGED inHand
  /\ UNCHANGED <<unread, pending, ctxDone, redisVars, queueVars>>

\* Mutant: the default case has no XREADGROUP while entries are pending
ReadAfterAcks ==
  /\ reading = "select" /\ ~tick /\ ~ctxDone
  /\ readBackoff' = 0
  /\ LET n == IF ~Reachable \/ pending > 0 THEN 0 ELSE UpTo(unread) IN
       unread' = unread - n /\ pending' = pending + n /\ Processes(n)
  /\ UNCHANGED <<tick, ctxDone, redisVars, queueVars>>

\* The default case: XREADGROUP.  A failed call returns no streams, so it is
\* taken for an empty answer before its error is looked at (consumer.go:106).
Read ==
  /\ reading = "select" /\ ~tick /\ ~ctxDone
  /\ readBackoff' = 0
  /\ LET n == IF ~Reachable THEN 0 ELSE UpTo(unread) IN
       unread' = unread - n /\ pending' = pending + n /\ Processes(n)
  /\ UNCHANGED <<tick, ctxDone, redisVars, queueVars>>

\* The entry is acked, or that fails; it may have been acked elsewhere.
MayAck == pending' \in {pending} \union (IF up /\ pending > 0 THEN {pending - 1} ELSE {})

\* The next entry: its job is dispatched if the row can be claimed, skipped and
\* acked if it cannot, or left pending if the claim itself fails.
Process ==
  /\ reading = "process"
  /\ \/ reading' = "put" /\ UNCHANGED <<inHand, pending>>
     \/ Processes(inHand - 1) /\ MayAck
  /\ UNCHANGED <<unread, readBackoff, tick, ctxDone, redisVars, queueVars>>

\* There is room in Jobqueue, or the pool is stopped and the job
\* fails and is acked.  Until then the loop neither reads nor claims.
DispatchTask ==
  /\ reading = "put"
  /\ \/ queued < JobqueueCap /\ queued' = queued + 1 /\ UNCHANGED pending
     \/ ctxDone /\ MayAck /\ UNCHANGED queued
  /\ Processes(inHand - 1)
  /\ UNCHANGED <<unread, handovers, readBackoff, tick, ctxDone, redisVars>>

\* time.After(backoff) in waitBackoff.
WaitEnds ==
  /\ reading = "wait"
  /\ reading' = "select"
  /\ UNCHANGED <<unread, pending, inHand, readBackoff, tick, ctxDone, redisVars, queueVars>>

\* ctx.Done(), in the select or in waitBackoff.
Return ==
  /\ ctxDone
  /\ reading \in {"select", "wait"}
  /\ reading' = "returned"
  /\ UNCHANGED <<unread, pending, inHand, readBackoff, tick, ctxDone, redisVars, queueVars>>

-----------------------------------------------------------------------------
\* The ticker, every claimInIdl / 5 = 12 s; its channel holds one tick and drops
\* the others.  No wait after a failure is that long, nor are the claims of one
\* batch: a tick that falls into them has become due during a slow call to an
\* absent Redis.  DispatchTask may wait for any time.
Ticks ==
  /\ ~tick
  /\ reading \in {"wait", "process"} => ~up
  /\ tick' = TRUE
  /\ UNCHANGED <<unread, pending, reading, inHand, readBackoff, ctxDone, redisVars, queueVars>>

CancelServe ==
  /\ ~ctxDone
  /\ ctxDone' = TRUE
  /\ UNCHANGED <<unread, pending, reading, inHand, readBackoff, tick, redisVars, queueVars>>

\* XADD: to a stream that may have to be created; without its group.
Add ==
  /\ up
  /\ unread + pending < MaxEntries
  /\ unread' = unread + 1
  /\ UNCHANGED <<pending, reading, inHand, readBackoff, tick, ctxDone, redisVars, queueVars>>

\* A worker acks an entry.
Acked ==
  /\ up
  /\ pending > 0
  /\ pending' = pending - 1
  /\ UNCHANGED <<unread, reading, inHand, readBackoff, tick, ctxDone, redisVars, queueVars>>

\* Dispatcher.Run takes a job out of Jobqueue.
DispatcherTakes ==
  /\ queued > 0 /\ handovers > 0
  /\ queued' = queued - 1 /\ handovers' = handovers - 1
  /\ UNCHANGED <<unread, pending, reading, inHand, readBackoff, tick, ctxDone, redisVars>>

\* The pool's other loop dispatches a job.
OtherLanePuts ==
  /\ queued < JobqueueCap
  /\ queued' = queued + 1
  /\ UNCHANGED <<handovers, unread, pending, reading, inHand, readBackoff, tick, ctxDone, redisVars>>

Outage ==
  /\ up
  /\ outages < MaxOutages
  /\ up' = FALSE
  /\ outages' = outages + 1
  /\ UNCHANGED <<group, unread, pending, reading, inHand, readBackoff, tick, ctxDone, losses, queueVars>>

Recovery ==
  /\ ~up
  /\ up' = TRUE
  /\ UNCHANGED <<group, unread, pending, reading, inHand, readBackoff, tick, ctxDone, outages, losses, queueVars>>

\* Redis comes back without its data: the stream and the group are gone.
DataLoss ==
  /\ ~up
  /\ losses < MaxLosses
  /\ group' = FALSE
  /\ unread' = 0 /\ pending' = 0
  /\ losses' = losses + 1
  /\ UNCHANGED <<up, reading, inHand, readBackoff, tick, ctxDone, outages, queueVars>>

\* Some process connects: initStreams creates the groups that are missing,
\* from the first entry on.
InitStreams ==
  /\ up
  /\ group' = TRUE
  /\ UNCHANGED <<up, unread, pending, reading, inHand, readBackoff, tick, ctxDone, outages, losses, queueVars>>

Loop == AutoClaim \/ Read \/ Process \/ DispatchTask \/ WaitEnds \/ Return

ServeNext ==
  \/ AutoClaim \/ Read \/ Process \/ DispatchTask \/ WaitEnds \/ Return
  \/ Ticks \/ CancelServe \/ DispatcherTakes \/ OtherLanePuts
  \/ Add \/ Acked \/ Outage \/ Recovery \/ DataLoss \/ InitStreams

\* The goroutines run, and Redis comes back; nobody has to add, ack, cancel or
\* connect.
ServeFairness ==
  /\ WF_serveVars(Loop) /\ SF_serveVars(Read) /\ WF_serveVars(Return) /\ WF_serveVars(Recovery)
  /\ WF_serveVars(DispatcherTakes)

ServeSpec == ServeInit /\ [][ServeNext]_serveVars /\ ServeFairness

-----------------------------------------------------------------------------
\* The loop is at DispatchTask with Jobqueue full and no worker left to free it
\* (what worker.go:525 brings about, SlotIsReleased's subject).
Blocked == reading = "put" /\ queued = JobqueueCap /\ handovers = 0

\* As long as the pool is not stopped, and unless nobody connects after the last
\* loss of Redis's data, only a pool that is used up stops the loop: or else
\* what is in the stream gets read, and every tick leads to an XAUTOCLAIM, through
\* any outages, losses and waits for room in Jobqueue (the select of ServeJobs,
\* whose default case is not starved by ticks nor its ticks by reads).
EntriesAreRead ==
  ([]~ctxDone /\ <>[]group) =>
     \/ <>[]Blocked
     \/ ([]<>(unread > 0) => []<><<unread' < unread>>_serveVars) /\ (tick ~> ~tick)
=============================================================================
