-------------------------- MODULE ConsumersProofs --------------------------
(***************************************************************************)
(* What the legacy consumer leaves of an entry, what the supervisor knows  *)
(* of a pool, how a pool's channels pass its jobs on, and what a loop      *)
(* reads, for any tasks, deliveries, pools, workers and failures.          *)
(***************************************************************************)
EXTENDS LegacyStream, Supervisor, WorkerPool, ServeLoop, SequenceTheorems, FiniteSetTheorems, TLAPS

-----------------------------------------------------------------------------
(***************************************************************************)
(* The legacy stream.  A run may ack its entry because something follows   *)
(* the entry already; entries follow for ever, the stream's list of what   *)
(* was appended only grows.                                                *)
(***************************************************************************)

FollowedIds == {e \in Ids : Followed(e)}

(* A run that is to ack has seen to its entry, one that is to retry may *)
AckersAreFollowed ==
  \A r \in Runs :
    /\ runs[r].stage = "acking" => runs[r].id \in FollowedIds
    /\ runs[r].stage = "retrying" => stream[runs[r].id].attempt < MaxRetries

(* What was delivered and is not pending is trimmed or followed *)
DeliveredAreFollowed == 1..lastId \subseteq pel \union trimmed \union FollowedIds

LegacyInv == LegacyTypeOK /\ AckersAreFollowed /\ DeliveredAreFollowed

(* A sequence that was appended to: what was there stays *)
LEMMA Appended ==
  ASSUME NEW S, NEW s \in Seq(S), NEW x \in S, NEW t, t = Append(s, x)
  PROVE  /\ t \in Seq(S) /\ Len(t) = Len(s) + 1 /\ Len(s) \in Nat
         /\ DOMAIN s = 1..Len(s) /\ DOMAIN t = 1..Len(t)
         /\ \A i \in 1..Len(s) : t[i] = s[i] /\ s[i] \in S
         /\ t[Len(t)] = x
  BY AppendProperties

(* What the types of the stream say of its runs *)
LEMMA LegacyFacts ==
  ASSUME LegacyTypeOK
  PROVE  /\ Len(stream) \in Nat /\ Ids = 1..Len(stream) /\ lastId \in Nat /\ lastId <= Len(stream)
         /\ 1..lastId \subseteq Ids
         /\ Runs = 1..Len(runs) /\ Len(runs) \in Nat
         /\ \A r \in Runs : runs[r].id \in 1..lastId /\ runs[r].stage \in Stages
         /\ \A e \in Ids : stream[e].task \in Tasks /\ stream[e].attempt \in 0..MaxRetries /\ stream[e] \in Entry
  <1>1. Len(stream) \in Nat /\ Ids = 1..Len(stream) /\ \A e \in Ids : stream[e] \in Entry
    BY DEF LegacyTypeOK, Ids
  <1>2. Len(runs) \in Nat /\ Runs = 1..Len(runs) /\ \A r \in Runs : runs[r] \in [id : 1..lastId, stage : Stages]
    <2> DEFINE S == [id : 1..lastId, stage : Stages]
    <2>1. runs \in Seq(S)
      BY DEF LegacyTypeOK
    <2> HIDE DEF S
    <2>2. Len(runs) \in Nat /\ Runs = 1..Len(runs) /\ \A r \in 1..Len(runs) : runs[r] \in S
      BY <2>1, ElementOfSeq DEF Runs
    <2> QED
      BY <2>2 DEF S
  <1>3. lastId \in Nat /\ lastId <= Len(stream)
    BY <1>1 DEF LegacyTypeOK
  <1> QED
    BY <1>1, <1>2, <1>3 DEF Entry

(* What follows stays while stream, dlq and completed only grow *)
LEMMA FollowedStays ==
  ASSUME Ids \subseteq Ids', \A d \in Ids : stream'[d] = stream[d],
         DOMAIN dlq \subseteq DOMAIN dlq', \A k \in DOMAIN dlq : dlq'[k] = dlq[k],
         completed \subseteq completed'
  PROVE  FollowedIds \subseteq FollowedIds'
  BY DEF FollowedIds, Followed

(* A run moves from one stage to the next *)
LEMMA BecomesFacts ==
  ASSUME LegacyTypeOK, NEW r \in Runs, NEW s \in Stages, Becomes(r, s)
  PROVE  /\ runs' \in Seq([id : 1..lastId, stage : Stages]) /\ Runs' = Runs
         /\ \A q \in Runs \ {r} : runs'[q] = runs[q]
         /\ runs'[r].id = runs[r].id /\ runs'[r].stage = s
  <1> DEFINE run == [id |-> runs[r].id, stage |-> s]
  <1>1. run \in [id : 1..lastId, stage : Stages]
    BY LegacyFacts
  <1>2. runs' = [runs EXCEPT ![r] = run]
    BY DEF Becomes
  <1>3. runs \in Seq([id : 1..lastId, stage : Stages]) /\ r \in 1..Len(runs)
    BY LegacyFacts DEF LegacyTypeOK
  <1> HIDE DEF run
  <1>4. /\ runs' \in Seq([id : 1..lastId, stage : Stages]) /\ Len(runs') = Len(runs)
        /\ \A q \in 1..Len(runs) : runs'[q] = IF q = r THEN run ELSE runs[q]
    BY <1>1, <1>2, <1>3, ExceptSeq
  <1>5. Runs' = Runs
    BY <1>3, <1>4 DEF Runs
  <1> QED
    BY <1>3, <1>4, <1>5, LegacyFacts DEF run

(* A step that only moves run r from one stage to the next, at most adding to
   what follows, keeps the invariant if the next stage is justified *)
LEMMA StageKeeps ==
  ASSUME LegacyInv, NEW r \in Runs, NEW s \in Stages, Becomes(r, s),
         LegacyTypeOK',
         Ids \subseteq Ids', \A d \in Ids : stream'[d] = stream[d],
         DOMAIN dlq \subseteq DOMAIN dlq', \A k \in DOMAIN dlq : dlq'[k] = dlq[k],
         completed \subseteq completed',
         s = "acking" => runs[r].id \in FollowedIds',
         s = "retrying" => stream[runs[r].id].attempt < MaxRetries,
         lastId' = lastId, trimmed' = trimmed,
         pel \subseteq pel' \union FollowedIds
  PROVE  LegacyInv'
  <1> USE DEF LegacyInv
  <1>1. 1..lastId \subseteq Ids /\ \A q \in Runs : runs[q].id \in 1..lastId
    BY LegacyFacts
  <1>2. /\ Runs' = Runs
        /\ \A q \in Runs \ {r} : runs'[q] = runs[q]
        /\ runs'[r].id = runs[r].id /\ runs'[r].stage = s
    BY BecomesFacts
  <1>3. FollowedIds \subseteq FollowedIds'
    BY FollowedStays
  <1>4. \A q \in Runs : runs'[q].id = runs[q].id /\ stream'[runs[q].id] = stream[runs[q].id]
    BY <1>1, <1>2
  <1>5. AckersAreFollowed'
    BY <1>2, <1>3, <1>4 DEF AckersAreFollowed
  <1>6. DeliveredAreFollowed'
    BY <1>3 DEF DeliveredAreFollowed
  <1> QED
    BY <1>5, <1>6

(* The steps of a run that write nothing to a stream *)
LEMMA RunStaysKeeps ==
  ASSUME LegacyInv, NEW r \in Runs, Succeeds(r) \/ Fails(r) \/ NotFound(r) \/ AckJob(r) \/ Drops(r)
  PROVE  LegacyInv'
  <1> USE LegacyAssumption DEF LegacyInv
  <1>1. /\ runs[r].id \in Ids /\ stream[runs[r].id].task \in Tasks
        /\ \A s \in Stages : Becomes(r, s) => runs' \in Seq([id : 1..lastId, stage : Stages])
    BY LegacyFacts, BecomesFacts
  <1>2. UNCHANGED <<stream, trimmed, dlq, lastId>> /\ Ids' = Ids
    BY DEF Succeeds, Fails, NotFound, AckJob, Drops, Ids
  <1>3. CASE Succeeds(r)
    <2>1. /\ Becomes(r, "acking") /\ "acking" \in Stages
          /\ completed' = completed \union {stream[runs[r].id].task} /\ UNCHANGED <<pel, faults>>
      BY <1>3 DEF Succeeds, Stages, Of
    <2>2. LegacyTypeOK'
      BY <1>1, <1>2, <2>1 DEF LegacyTypeOK
    <2>3. runs[r].id \in FollowedIds'
      BY <1>1, <1>2, <2>1 DEF FollowedIds, Followed
    <2> QED
      BY <1>2, <2>1, <2>2, <2>3, StageKeeps
  <1>4. CASE Fails(r)
    <2> DEFINE s == IF stream[runs[r].id].attempt < MaxRetries THEN "retrying" ELSE "dying"
    <2>1. Becomes(r, s) /\ s \in Stages /\ UNCHANGED <<pel, completed, faults>>
      BY <1>4 DEF Fails, Stages, Of
    <2>2. s # "acking" /\ (s = "retrying" => stream[runs[r].id].attempt < MaxRetries)
      OBVIOUS
    <2> HIDE DEF s
    <2>3. LegacyTypeOK'
      BY <1>1, <1>2, <2>1 DEF LegacyTypeOK
    <2> QED
      BY <1>2, <2>1, <2>2, <2>3, StageKeeps
  <1>5. CASE NotFound(r) \/ Drops(r)
    <2>1. /\ Becomes(r, "over") /\ "over" \in Stages /\ UNCHANGED <<pel, completed>>
          /\ faults' \in 0..MaxFaults
      BY <1>5 DEF NotFound, Drops, Stages, LegacyTypeOK
    <2>2. LegacyTypeOK'
      BY <1>1, <1>2, <2>1 DEF LegacyTypeOK
    <2> QED
      BY <1>2, <2>1, <2>2, StageKeeps
  <1>6. CASE AckJob(r)
    <2>1. /\ Becomes(r, "over") /\ "over" \in Stages /\ UNCHANGED <<completed, faults>>
          /\ pel' = pel \ {runs[r].id}
      BY <1>6 DEF AckJob, Stages
    <2>2. LegacyTypeOK'
      BY <1>1, <1>2, <2>1 DEF LegacyTypeOK
    <2>3. runs[r].id \in FollowedIds
      BY <1>6 DEF AckJob, AckersAreFollowed
    <2> QED
      BY <1>2, <2>1, <2>2, <2>3, StageKeeps
  <1> QED
    BY <1>3, <1>4, <1>5, <1>6

(* A copy counts one attempt more, below the limit of attempts *)
LEMMA RetriedEntry ==
  ASSUME NEW entry \in Entry, entry.attempt < MaxRetries
  PROVE  Retried(entry) \in Entry
  BY LegacyAssumption DEF Retried, Entry

(* The copy to the stream, or to the dead letters, is what follows the entry *)
LEMMA RunAppendsKeeps ==
  ASSUME LegacyInv, NEW r \in Runs, Requeue(r) \/ DeadLetter(r)
  PROVE  LegacyInv'
  <1> USE LegacyAssumption DEF LegacyInv
  <1> DEFINE e == runs[r].id
  <1>1. /\ e \in 1..lastId /\ e \in Ids /\ Ids = 1..Len(stream) /\ Len(stream) \in Nat
        /\ lastId \in Nat /\ lastId <= Len(stream)
        /\ stream[e] \in Entry /\ stream[e].task \in Tasks /\ stream[e].attempt \in 0..MaxRetries
        /\ \A s \in Stages : Becomes(r, s) => runs' \in Seq([id : 1..lastId, stage : Stages])
    BY LegacyFacts, BecomesFacts
  <1>2. "acking" \in Stages
    BY DEF Stages
  <1>3. CASE Requeue(r)
    <2>1. /\ Becomes(r, "acking") /\ stream' = Append(stream, Retried(stream[e]))
          /\ runs[r].stage = "retrying"
          /\ UNCHANGED <<lastId, pel, trimmed, dlq, completed, faults>>
      BY <1>3 DEF Requeue, Of
    <2>2. Retried(stream[e]) \in Entry
      <3>1. stream[e].attempt < MaxRetries
        BY <2>1, Zenon DEF AckersAreFollowed
      <3> QED
        BY <1>1, <3>1, RetriedEntry, Zenon
    <2>3. stream \in Seq(Entry)
      BY DEF LegacyTypeOK
    <2>4. /\ stream' \in Seq(Entry) /\ Len(stream') = Len(stream) + 1
          /\ Ids' = 1..(Len(stream) + 1) /\ \A d \in Ids : stream'[d] = stream[d]
          /\ stream'[Len(stream) + 1] = Retried(stream[e])
      BY <1>1, <2>1, <2>2, <2>3, Appended DEF Ids
    <2>5. Ids \subseteq Ids' /\ Len(stream) + 1 \in Ids' /\ Len(stream) + 1 > e
      BY <1>1, <2>4
    <2>6. LegacyTypeOK'
      <3>1. runs' \in Seq([id : 1..lastId, stage : Stages])
        BY <1>1, <1>2, <2>1
      <3>2. lastId \in 0..Len(stream') /\ trimmed \subseteq Ids'
        BY <1>1, <2>4, <2>5 DEF LegacyTypeOK
      <3> QED
        BY <2>1, <2>4, <3>1, <3>2 DEF LegacyTypeOK
    <2>7. e \in FollowedIds'
      BY <1>1, <2>4, <2>5 DEF FollowedIds, Followed
    <2> QED
      BY <1>2, <2>1, <2>4, <2>5, <2>6, <2>7, StageKeeps
  <1>4. CASE DeadLetter(r)
    <2>1. /\ Becomes(r, "acking") /\ dlq' = Append(dlq, stream[e])
          /\ UNCHANGED <<stream, lastId, pel, trimmed, completed, faults>> /\ Ids' = Ids
      BY <1>4 DEF DeadLetter, Of, Ids
    <2>2. dlq \in Seq(Entry)
      BY DEF LegacyTypeOK
    <2>3. /\ dlq' \in Seq(Entry) /\ Len(dlq') = Len(dlq) + 1 /\ Len(dlq) \in Nat
          /\ DOMAIN dlq = 1..Len(dlq) /\ DOMAIN dlq' = 1..Len(dlq')
          /\ \A k \in 1..Len(dlq) : dlq'[k] = dlq[k]
          /\ dlq'[Len(dlq')] = stream[e]
      BY <1>1, <2>1, <2>2, Appended
    <2>4. DOMAIN dlq \subseteq DOMAIN dlq' /\ \A k \in DOMAIN dlq : dlq'[k] = dlq[k]
      BY <2>3
    <2>5. \E k \in DOMAIN dlq' : dlq'[k] = stream[e]
      BY <2>3
    <2>6. LegacyTypeOK'
      BY <1>1, <1>2, <2>1, <2>3 DEF LegacyTypeOK
    <2>7. e \in FollowedIds'
      BY <1>1, <2>1, <2>5 DEF FollowedIds, Followed
    <2> QED
      BY <1>2, <2>1, <2>4, <2>6, <2>7, StageKeeps
  <1> QED
    BY <1>3, <1>4

(* A delivery begins a run, whose entry stays in the pending list *)
LEMMA DeliveryKeeps ==
  ASSUME LegacyInv, LegacyRead \/ \E e \in Ids : LegacyAutoClaim(e)
  PROVE  LegacyInv'
  <1> USE LegacyAssumption DEF LegacyInv
  <1>0. /\ Len(stream) \in Nat /\ Ids = 1..Len(stream) /\ lastId \in Nat /\ lastId <= Len(stream)
        /\ pel \subseteq 1..lastId
    BY LegacyFacts DEF LegacyTypeOK
  <1>1. PICK e \in Ids : /\ Begin(e) /\ pel' = pel \union {e}
                         /\ lastId' \in Nat /\ lastId <= lastId' /\ e <= lastId' /\ lastId' <= Len(stream)
                         /\ \A d \in 1..lastId' : d \in 1..lastId \/ d = e \/ d \in trimmed
    <2>1. CASE LegacyRead
      <3>1. PICK e \in Ids \ trimmed : /\ e > lastId /\ \A d \in Ids \ trimmed : d > lastId => e <= d
                                       /\ Begin(e) /\ lastId' = e /\ pel' = pel \union {e}
        BY <2>1 DEF LegacyRead
      <3>2. ASSUME NEW d \in 1..e
            PROVE  d \in 1..lastId \/ d = e \/ d \in trimmed
        BY <1>0, <3>1
      <3> QED
        BY <1>0, <3>1, <3>2
    <2>2. ASSUME NEW e \in Ids, LegacyAutoClaim(e)
          PROVE  /\ Begin(e) /\ pel' = pel \union {e}
                 /\ lastId' = lastId /\ e <= lastId
      BY <1>0, <2>2 DEF LegacyAutoClaim
    <2>3. CASE \E e \in Ids : LegacyAutoClaim(e)
      BY <1>0, <2>2, <2>3
    <2> QED
      BY <2>1, <2>3
  <1> DEFINE run == [id |-> e, stage |-> IF stream[e].task \in Malformed THEN "dying" ELSE "running"]
             S == [id : 1..lastId', stage : Stages]
  <1>2. UNCHANGED <<stream, trimmed, dlq, completed, faults>> /\ runs' = Append(runs, run) /\ Ids' = Ids
    BY <1>1 DEF Begin, Ids
  <1>3. run \in S /\ run.stage \notin {"acking", "retrying"}
    BY <1>0, <1>1 DEF Stages
  <1>4. runs \in Seq(S)
    <2> DEFINE T == [id : 1..lastId, stage : Stages]
    <2>1. runs \in Seq(T) /\ T \subseteq S
      BY <1>0, <1>1 DEF LegacyTypeOK
    <2> HIDE DEF T, S
    <2> QED
      BY <2>1, SeqMonotonic
  <1> HIDE DEF run, S
  <1>5. /\ runs' \in Seq(S) /\ Runs = 1..Len(runs) /\ Len(runs) \in Nat
        /\ Runs' = 1..(Len(runs) + 1)
        /\ \A q \in Runs : runs'[q] = runs[q]
        /\ runs'[Len(runs) + 1] = run
    BY <1>2, <1>3, <1>4, Appended DEF Runs
  <1>6. LegacyTypeOK'
    <2>1. pel' \subseteq 1..lastId' /\ lastId' \in 0..Len(stream)
      <3>1. lastId' \in 0..Len(stream)
        BY <1>0, <1>1
      <3>2. \A i \in 1..lastId : i \in 1..lastId'
        BY <1>0, <1>1
      <3>3. e \in 1..lastId'
        BY <1>0, <1>1
      <3>4. pel' = pel \union {e}
        BY <1>1
      <3>5. \A i \in pel' : i \in 1..lastId'
        BY <1>0, <3>2, <3>3, <3>4
      <3> QED
        BY <3>1, <3>5
    <2>2. runs' \in Seq([id : 1..lastId', stage : Stages])
      BY <1>5 DEF S
    <2> QED
      BY <1>2, <2>1, <2>2 DEF LegacyTypeOK
  <1>7. FollowedIds' = FollowedIds
    BY <1>2 DEF FollowedIds, Followed
  <1>8. AckersAreFollowed'
    <2> SUFFICES ASSUME NEW q \in 1..(Len(runs) + 1)
                 PROVE  /\ runs'[q].stage = "acking" => runs'[q].id \in FollowedIds
                        /\ runs'[q].stage = "retrying" => stream[runs'[q].id].attempt < MaxRetries
      BY <1>2, <1>5, <1>7 DEF AckersAreFollowed
    <2>1. q \in Runs \/ q = Len(runs) + 1
      BY <1>5
    <2> QED
      BY <1>3, <1>5, <2>1 DEF AckersAreFollowed
  <1>9. DeliveredAreFollowed'
    BY <1>1, <1>2, <1>7 DEF DeliveredAreFollowed
  <1> QED
    BY <1>6, <1>8, <1>9

(* A client adds a task, Redis trims: neither takes away what follows *)
LEMMA StreamKeeps ==
  ASSUME LegacyInv, (\E t \in Tasks : AddTask(t)) \/ (\E e \in Ids : Trim(e))
  PROVE  LegacyInv'
  <1> USE LegacyAssumption DEF LegacyInv
  <1>0. /\ Len(stream) \in Nat /\ Ids = 1..Len(stream) /\ lastId \in Nat /\ lastId <= Len(stream)
        /\ \A r \in Runs : runs[r].id \in Ids
    BY LegacyFacts
  <1>1. ASSUME NEW t \in Tasks, AddTask(t)
        PROVE  LegacyInv'
    <2> DEFINE entry == [task |-> t, attempt |-> 0]
    <2>1. /\ entry \in Entry /\ stream \in Seq(Entry) /\ stream' = Append(stream, entry)
          /\ UNCHANGED <<lastId, pel, trimmed, dlq, runs, completed, faults>>
      BY <1>1 DEF Entry, AddTask, LegacyTypeOK
    <2> HIDE DEF entry
    <2>2. /\ stream' \in Seq(Entry) /\ Len(stream') = Len(stream) + 1 /\ Ids' = 1..Len(stream')
          /\ Ids \subseteq Ids' /\ \A d \in Ids : stream'[d] = stream[d]
      BY <1>0, <2>1, Appended DEF Ids
    <2>3. LegacyTypeOK'
      BY <1>0, <2>1, <2>2 DEF LegacyTypeOK
    <2>4. FollowedIds \subseteq FollowedIds'
      BY <2>1, <2>2, FollowedStays
    <2>5. AckersAreFollowed' /\ DeliveredAreFollowed'
      BY <1>0, <2>1, <2>2, <2>4 DEF AckersAreFollowed, DeliveredAreFollowed, Runs
    <2> QED
      BY <2>3, <2>5
  <1>2. ASSUME NEW e \in Ids, Trim(e)
        PROVE  LegacyInv'
    <2>1. trimmed' = trimmed \union {e} /\ UNCHANGED <<stream, lastId, pel, dlq, runs, completed, faults>>
      BY <1>2 DEF Trim
    <2>2. LegacyTypeOK'
      BY <2>1 DEF LegacyTypeOK, Ids
    <2> QED
      BY <2>1, <2>2 DEF AckersAreFollowed, DeliveredAreFollowed, FollowedIds, Followed, Ids, Runs
  <1> QED
    BY <1>1, <1>2

(* The invariant of LegacyStream holds always *)
THEOREM LegacyInvariant == LegacySpec => []LegacyInv
  <1>1. LegacyInit => LegacyInv
    <2> SUFFICES ASSUME LegacyInit PROVE LegacyInv
      OBVIOUS
    <2>1. LegacyTypeOK
      BY LegacyAssumption DEF LegacyInit, LegacyTypeOK
    <2>2. AckersAreFollowed /\ DeliveredAreFollowed
      BY DEF LegacyInit, AckersAreFollowed, DeliveredAreFollowed, Runs
    <2> QED
      BY <2>1, <2>2 DEF LegacyInv
  <1>2. LegacyInv /\ [LegacyNext]_legacyVars => LegacyInv'
    <2> SUFFICES ASSUME LegacyInv, [LegacyNext]_legacyVars PROVE LegacyInv'
      OBVIOUS
    <2>1. CASE UNCHANGED legacyVars
      BY <2>1 DEF legacyVars, LegacyInv, LegacyTypeOK, AckersAreFollowed, DeliveredAreFollowed,
         FollowedIds, Followed, Ids, Runs
    <2> QED
      BY <2>1, RunStaysKeeps, RunAppendsKeeps, DeliveryKeeps, StreamKeeps DEF LegacyNext
  <1> QED
    BY <1>1, <1>2, PTL DEF LegacySpec

(* Type correctness of the legacy stream, for any tasks and deliveries *)
THEOREM LegacyTypeCorrect == LegacySpec => []LegacyTypeOK
  BY LegacyInvariant, PTL DEF LegacyInv

(* However often an entry is delivered and wherever its runs die, it leaves the
   pending list only when its task is done or a copy of it is stored *)
THEOREM AcksAreFollowed == LegacySpec => []AckedAreFollowed
  <1>1. LegacyInv => AckedAreFollowed
    BY DEF LegacyInv, DeliveredAreFollowed, FollowedIds, AckedAreFollowed
  <1> QED
    BY <1>1, LegacyInvariant, PTL
-----------------------------------------------------------------------------
(***************************************************************************)
(* The supervisor.  Until it is told to stop every pool has one carrier,   *)
(* and its process, while it runs, has the goroutine that waits for it.    *)
(***************************************************************************)

Held(s, p) == {i \in DOMAIN s : s[i] = p}

(* The places a sequence holds p at are finitely many *)
LEMMA HeldFinite ==
  ASSUME NEW S, NEW s \in Seq(S), NEW p
  PROVE  IsFiniteSet(Held(s, p)) /\ Cardinality(Held(s, p)) \in Nat
  <1>1. IsFiniteSet(1..Len(s)) /\ Held(s, p) \subseteq 1..Len(s)
    BY FS_Interval DEF Held
  <1> QED
    BY <1>1, FS_Subset, FS_CardinalityType

(* A send adds one place of the name sent *)
LEMMA HeldAppend ==
  ASSUME NEW S, NEW s \in Seq(S), NEW x \in S, NEW p
  PROVE  Cardinality(Held(Append(s, x), p)) = Cardinality(Held(s, p)) + (IF x = p THEN 1 ELSE 0)
  <1> DEFINE n == Len(s) + 1
  <1>1. IsFiniteSet(Held(s, p)) /\ Cardinality(Held(s, p)) \in Nat
    BY HeldFinite
  <1>2. n \notin Held(s, p)
    BY DEF Held
  <1>3. Held(Append(s, x), p) = IF x = p THEN Held(s, p) \union {n} ELSE Held(s, p)
    BY Appended DEF Held
  <1>4. Cardinality(Held(s, p) \union {n}) = Cardinality(Held(s, p)) + 1
    BY <1>1, <1>2, FS_AddElement
  <1> QED
    BY <1>1, <1>3, <1>4

(* A receive takes away one place of the name received *)
LEMMA HeldTail ==
  ASSUME NEW S, NEW s \in Seq(S), s # <<>>, NEW p
  PROVE  Cardinality(Held(s, p)) = Cardinality(Held(Tail(s), p)) + (IF Head(s) = p THEN 1 ELSE 0)
  <1> DEFINE T == Tail(s)
             A == Held(T, p)
             B == Held(s, p) \ {1}
             f == [i \in A |-> i + 1]
  <1>1. /\ T \in Seq(S) /\ Len(T) = Len(s) - 1 /\ \A i \in 1..Len(T) : T[i] = s[i + 1]
        /\ Len(s) \in Nat /\ Len(s) >= 1 /\ s[1] = Head(s)
        /\ DOMAIN s = 1..Len(s) /\ DOMAIN T = 1..Len(T)
    BY HeadTailProperties
  <1>2. \A i \in A : i \in 1..Len(T) /\ i + 1 \in B
    BY <1>1 DEF Held
  <1>3. \A j \in B : j - 1 \in A /\ j \in Nat
    BY <1>1 DEF Held
  <1>4. f \in Bijection(A, B)
    <2>1. f \in [A -> B]
      BY <1>2
    <2>2. \A i, j \in A : f[i] = f[j] => i = j
      BY <1>2
    <2>3. \A j \in B : \E i \in A : f[i] = j
      BY <1>3
    <2> QED
      BY <2>1, <2>2, <2>3 DEF Bijection, Injection, Surjection, IsInjective
  <1>5. IsFiniteSet(A) /\ Cardinality(A) \in Nat
    BY <1>1, HeldFinite
  <1>6. IsFiniteSet(B) /\ Cardinality(B) = Cardinality(A)
    BY <1>4, <1>5, FS_Bijection DEF ExistsBijection
  <1>7. Held(s, p) = IF Head(s) = p THEN B \union {1} ELSE B
    BY <1>1 DEF Held
  <1>8. Cardinality(B \union {1}) = Cardinality(B) + 1
    BY <1>6, FS_AddElement
  <1> HIDE DEF A, B, f
  <1>9. CASE Head(s) = p
    BY <1>5, <1>6, <1>7, <1>8, <1>9 DEF A
  <1>10. CASE Head(s) # p
    BY <1>5, <1>6, <1>7, <1>10 DEF A
  <1> QED
    BY <1>9, <1>10

Carriers(p) == waiting[p] + sending[p] + InChannel(p) + (IF cur = p THEN 1 ELSE 0)

Supervising == supAt \in {"select", "backoff"} /\ ~shutdown

(* Before the loop there are no carriers; the pools launched have a process *)
FirstLoop ==
  supAt = "starting" =>
    /\ errCh = <<>> /\ cur = Nil
    /\ \A p \in Pools : waiting[p] = 0 /\ sending[p] = 0 /\ (p \notin launched => alive[p] = 0)

CarriersKnow ==
  /\ supAt = "select" => cur = Nil
  /\ supAt = "backoff" => cur \in Pools
  /\ Supervising => \A p \in Pools : Carriers(p) = 1 /\ alive[p] <= waiting[p]
  /\ \A p \in Pools : alive[p] <= 1

SupInv == SupTypeOK /\ FirstLoop /\ CarriersKnow

(* What the types say of one pool *)
LEMMA SupFacts ==
  ASSUME SupTypeOK, NEW p \in Pools
  PROVE  waiting[p] \in Nat /\ sending[p] \in Nat /\ alive[p] \in Nat /\ InChannel(p) \in Nat
  <1>1. InChannel(p) = Cardinality(Held(errCh, p))
    BY DEF InChannel, Held
  <1> QED
    BY <1>1, HeldFinite DEF SupTypeOK

(* The channel's places after a send and after a receive *)
LEMMA ChannelFacts ==
  ASSUME SupTypeOK, NEW p \in Pools
  PROVE  /\ errCh' = errCh => InChannel(p)' = InChannel(p)
         /\ \A q \in Pools : errCh' = Append(errCh, q) =>
              InChannel(p)' = InChannel(p) + (IF q = p THEN 1 ELSE 0)
         /\ errCh # <<>> /\ errCh' = Tail(errCh) =>
              InChannel(p) = InChannel(p)' + (IF Head(errCh) = p THEN 1 ELSE 0)
  <1>1. InChannel(p) = Cardinality(Held(errCh, p)) /\ InChannel(p)' = Cardinality(Held(errCh', p))
    BY DEF InChannel, Held
  <1>2. errCh \in Seq(Pools)
    BY DEF SupTypeOK
  <1>3. ASSUME NEW q \in Pools, errCh' = Append(errCh, q)
        PROVE  InChannel(p)' = InChannel(p) + (IF q = p THEN 1 ELSE 0)
    BY <1>1, <1>2, <1>3, HeldAppend
  <1>4. ASSUME errCh # <<>>, errCh' = Tail(errCh)
        PROVE  InChannel(p) = InChannel(p)' + (IF Head(errCh) = p THEN 1 ELSE 0)
    BY <1>1, <1>2, <1>4, HeldTail
  <1> QED
    BY <1>1, <1>3, <1>4

(* The start of a pool; the last one puts the loop in its select *)
LEMMA StartKeeps ==
  ASSUME SupInv, NEW p \in Pools, Start(p)
  PROVE  SupInv'
  <1> USE SupervisorAssumption DEF SupInv, Start
  <1>1. /\ \A q \in Pools : waiting[q] = 0 /\ sending[q] = 0 /\ InChannel(q) = 0
        /\ alive[p] = 0 /\ cur = Nil /\ errCh = <<>>
    <2>1. ASSUME NEW q \in Pools PROVE InChannel(q) = 0
      <3>1. {i \in DOMAIN errCh : errCh[i] = q} = {}
        BY DEF FirstLoop
      <3> QED
        BY <3>1, FS_EmptySet DEF InChannel
    <2> QED
      BY <2>1 DEF FirstLoop
  <1>2. /\ alive'[p] = 1 /\ \A q \in Pools \ {p} : alive'[q] = alive[q]
        /\ alive' \in [Pools -> Nat]
    BY <1>1 DEF Inc, SupTypeOK
  <1>3. SupTypeOK'
    <2>1. ASSUME launched' = Pools PROVE waiting' \in [Pools -> Nat]
      BY <2>1
    <2>2. waiting' \in [Pools -> Nat]
      BY <2>1 DEF SupTypeOK
    <2>3. launched' \subseteq Pools
      BY DEF SupTypeOK
    <2>4. supAt' \in {"starting", "select"}
      OBVIOUS
    <2> QED
      BY <1>2, <2>2, <2>3, <2>4 DEF SupTypeOK
  <1>4. FirstLoop'
    BY <1>1, <1>2 DEF FirstLoop
  <1>5. \A q \in Pools : alive'[q] <= 1
    BY <1>2 DEF CarriersKnow
  <1>6. Supervising' => \A q \in Pools : Carriers(q)' = 1 /\ alive'[q] <= waiting'[q]
    <2> SUFFICES ASSUME Supervising', NEW q \in Pools
                 PROVE  Carriers(q)' = 1 /\ alive'[q] <= waiting'[q]
      OBVIOUS
    <2>1. waiting'[q] = 1 /\ sending'[q] = 0 /\ cur' # q
      BY <1>1 DEF Supervising
    <2>2. InChannel(q)' = 0
      BY <1>1, ChannelFacts
    <2> QED
      BY <1>5, <2>1, <2>2 DEF Carriers
  <1>7. CarriersKnow'
    BY <1>1, <1>5, <1>6 DEF CarriersKnow
  <1> QED
    BY <1>3, <1>4, <1>7

(* A goroutine hands the pool's name on: from Wait to the send to the channel *)
LEMMA HandOnKeeps ==
  ASSUME SupInv, NEW p \in Pools, WaitReturns(p) \/ Send(p)
  PROVE  SupInv'
  <1> USE SupervisorAssumption DEF SupInv
  <1>1. CASE WaitReturns(p)
    <2> USE <1>1 DEF WaitReturns
    <2>0. waiting[p] \in Nat /\ sending[p] \in Nat /\ waiting[p] > 0 /\ alive[p] = 0
      BY SupFacts
    <2>1. /\ waiting' \in [Pools -> Nat] /\ waiting'[p] = waiting[p] - 1
          /\ \A q \in Pools \ {p} : waiting'[q] = waiting[q]
      BY <2>0 DEF Dec, SupTypeOK
    <2>2. /\ sending' \in [Pools -> Nat] /\ (~shutdown => sending'[p] = sending[p] + 1)
          /\ \A q \in Pools \ {p} : sending'[q] = sending[q]
      BY <2>0 DEF Inc, SupTypeOK
    <2>3. SupTypeOK'
      BY <2>1, <2>2 DEF SupTypeOK
    <2>4. FirstLoop'
      BY <2>0 DEF FirstLoop
    <2>5. Supervising' => \A q \in Pools : Carriers(q)' = 1 /\ alive'[q] <= waiting'[q]
      <3> SUFFICES ASSUME Supervising', NEW q \in Pools
                   PROVE  Carriers(q)' = 1 /\ alive'[q] <= waiting'[q]
        OBVIOUS
      <3>1. Carriers(q) = 1 /\ alive[q] <= waiting[q] /\ ~shutdown
        BY DEF Supervising, CarriersKnow
      <3>2. InChannel(q)' = InChannel(q) /\ cur' = cur
        BY ChannelFacts
      <3> QED
        BY <2>0, <2>1, <2>2, <3>1, <3>2, SupFacts DEF Carriers
    <2> QED
      BY <2>3, <2>4, <2>5 DEF CarriersKnow
  <1>2. CASE Send(p)
    <2> USE <1>2 DEF Send
    <2>0. sending[p] \in Nat /\ sending[p] > 0
      BY SupFacts
    <2>1. /\ sending' \in [Pools -> Nat] /\ sending'[p] = sending[p] - 1
          /\ \A q \in Pools \ {p} : sending'[q] = sending[q]
      BY <2>0 DEF Dec, SupTypeOK
    <2>2. errCh \in Seq(Pools) /\ Cardinality(Pools) \in Nat
      BY FS_CardinalityType DEF SupTypeOK
    <2>3. errCh' \in Seq(Pools) /\ Len(errCh') <= Cardinality(Pools)
      BY <2>2, Appended
    <2>4. SupTypeOK'
      BY <2>1, <2>3 DEF SupTypeOK
    <2>5. FirstLoop'
      BY <2>0 DEF FirstLoop
    <2>6. Supervising' => \A q \in Pools : Carriers(q)' = 1 /\ alive'[q] <= waiting'[q]
      <3> SUFFICES ASSUME Supervising', NEW q \in Pools
                   PROVE  Carriers(q)' = 1 /\ alive'[q] <= waiting'[q]
        OBVIOUS
      <3>1. Carriers(q) = 1 /\ alive[q] <= waiting[q]
        BY DEF Supervising, CarriersKnow
      <3>2. InChannel(q)' = InChannel(q) + (IF p = q THEN 1 ELSE 0) /\ cur' = cur
        BY ChannelFacts
      <3>3. waiting[q] \in Nat /\ sending[q] \in Nat /\ InChannel(q) \in Nat /\ alive'[q] = alive[q] /\ waiting'[q] = waiting[q]
        BY SupFacts
      <3>4. CASE q = p
        <4>1. sending'[q] = sending[q] - 1 /\ InChannel(q)' = InChannel(q) + 1
          BY <2>1, <3>2, <3>4
        <4> HIDE SupervisorAssumption, <1>2 DEF SupInv, Send
        <4>2. waiting'[q] + sending'[q] + InChannel(q)' = waiting[q] + sending[q] + InChannel(q)
          BY <3>3, <4>1
        <4>3. (IF cur' = q THEN 1 ELSE 0) = (IF cur = q THEN 1 ELSE 0)
          BY <3>2
        <4>4. Carriers(q)' = Carriers(q)
          BY <4>2, <4>3, Zenon DEF Carriers
        <4> QED
          BY <3>1, <3>3, <4>4
      <3>5. CASE q # p
        BY <2>1, <3>1, <3>2, <3>3, <3>5 DEF Carriers
      <3> QED
        BY <3>4, <3>5
    <2> QED
      BY <2>4, <2>5, <2>6 DEF CarriersKnow
  <1> QED
    BY <1>1, <1>2

(* The loop takes a name from the channel *)
LEMMA ReceiveKeeps ==
  ASSUME SupInv, Receive
  PROVE  SupInv'
  <1> USE SupervisorAssumption DEF SupInv, Receive
  <1> DEFINE p == Head(errCh)
  <1>1. /\ errCh \in Seq(Pools) /\ p \in Pools /\ errCh' \in Seq(Pools)
        /\ Len(errCh') = Len(errCh) - 1 /\ Len(errCh) <= Cardinality(Pools)
        /\ Len(errCh) \in Nat /\ Cardinality(Pools) \in Nat /\ p # Nil
    BY HeadTailProperties, FS_CardinalityType DEF SupTypeOK
  <1> HIDE DEF p
  <1>2. restartBackoff' \in [Pools -> 0..MaxBackoff] /\ cur' \in Pools \union {Nil}
    <2>1. ~shutdown => cur' = p /\ restartBackoff' = [restartBackoff EXCEPT ![p] = NextBackoff(@)]
      BY DEF p
    <2>2. shutdown => cur' = cur /\ restartBackoff' = restartBackoff
      OBVIOUS
    <2>3. NextBackoff(restartBackoff[p]) \in 0..MaxBackoff
      <3>1. restartBackoff[p] \in 0..MaxBackoff /\ MaxBackoff \in Nat /\ MaxBackoff >= 1
        BY <1>1 DEF SupTypeOK
      <3> QED
        BY <3>1 DEF NextBackoff
    <2> QED
      BY <1>1, <2>1, <2>2, <2>3 DEF SupTypeOK
  <1>3. SupTypeOK'
    <2>1. Len(errCh') <= Cardinality(Pools) /\ supAt' \in {"starting", "select", "backoff", "stopping", "returned"}
      BY <1>1
    <2> QED
      BY <1>1, <1>2, <2>1 DEF SupTypeOK
  <1>4. FirstLoop'
    BY DEF FirstLoop
  <1>5. Supervising' => \A q \in Pools : Carriers(q)' = 1 /\ alive'[q] <= waiting'[q]
    <2> SUFFICES ASSUME Supervising', NEW q \in Pools
                 PROVE  Carriers(q)' = 1 /\ alive'[q] <= waiting'[q]
      OBVIOUS
    <2>1. Carriers(q) = 1 /\ alive[q] <= waiting[q] /\ cur = Nil /\ cur' = p
      BY DEF Supervising, CarriersKnow, p
    <2>2. InChannel(q) = InChannel(q)' + (IF p = q THEN 1 ELSE 0)
      BY ChannelFacts DEF p
    <2>3. InChannel(q)' = Cardinality(Held(errCh', q)) /\ InChannel(q)' \in Nat
      <3>1. InChannel(q)' = Cardinality(Held(errCh', q))
        BY DEF InChannel, Held
      <3> QED
        BY <1>1, <3>1, HeldFinite
    <2> QED
      BY <2>1, <2>2, <2>3, SupFacts DEF Carriers
  <1>6. CarriersKnow'
    BY <1>1, <1>5 DEF CarriersKnow, p
  <1> QED
    BY <1>3, <1>4, <1>6

(* The pool in backoff is started again, or its name is sent once more *)
LEMMA RestartKeeps ==
  ASSUME SupInv, Restart \/ RestartFails
  PROVE  SupInv'
  <1> USE SupervisorAssumption DEF SupInv
  <1>1. cur \in Pools /\ supAt = "backoff" /\ supAt' = "select" /\ cur' = Nil /\ errCh' = errCh
    BY DEF Restart, RestartFails, CarriersKnow
  <1>2. waiting[cur] \in Nat /\ sending[cur] \in Nat /\ alive[cur] \in Nat
    BY <1>1, SupFacts
  <1>3. FirstLoop'
    BY <1>1 DEF FirstLoop
  <1>4. CASE Restart
    <2> USE <1>4 DEF Restart
    <2>1. Supervising /\ Carriers(cur) = 1 /\ alive[cur] <= waiting[cur]
      BY <1>1 DEF Supervising, CarriersKnow
    <2>2. waiting[cur] = 0 /\ sending[cur] = 0 /\ InChannel(cur) = 0 /\ alive[cur] = 0
      BY <1>1, <2>1, SupFacts DEF Carriers
    <2>3. /\ alive' \in [Pools -> Nat] /\ waiting' \in [Pools -> Nat]
          /\ alive'[cur] = 1 /\ waiting'[cur] = 1
          /\ \A q \in Pools \ {cur} : alive'[q] = alive[q] /\ waiting'[q] = waiting[q]
          /\ restartBackoff' \in [Pools -> 0..MaxBackoff]
      BY <1>1, <2>2 DEF Inc, SupTypeOK
    <2>4. SupTypeOK'
      BY <2>3 DEF SupTypeOK
    <2>5. ASSUME NEW q \in Pools
          PROVE  Carriers(q)' = 1 /\ alive'[q] <= waiting'[q] /\ alive'[q] <= 1
      <3>1. Carriers(q) = 1 /\ alive[q] <= waiting[q] /\ alive[q] <= 1 /\ InChannel(q)' = InChannel(q)
        BY <1>1, <2>1, ChannelFacts DEF CarriersKnow
      <3> QED
        BY <1>1, <2>2, <2>3, <3>1, SupFacts DEF Carriers
    <2> QED
      BY <1>1, <1>3, <2>4, <2>5 DEF CarriersKnow
  <1>5. CASE RestartFails
    <2> USE <1>5 DEF RestartFails
    <2>1. /\ sending' \in [Pools -> Nat] /\ sending'[cur] = sending[cur] + 1
          /\ \A q \in Pools \ {cur} : sending'[q] = sending[q]
      BY <1>1, <1>2 DEF Inc, SupTypeOK
    <2>2. SupTypeOK'
      BY <2>1 DEF SupTypeOK
    <2>3. Supervising' => \A q \in Pools : Carriers(q)' = 1 /\ alive'[q] <= waiting'[q]
      <3> SUFFICES ASSUME Supervising', NEW q \in Pools
                   PROVE  Carriers(q)' = 1 /\ alive'[q] <= waiting'[q]
        OBVIOUS
      <3>1. Carriers(q) = 1 /\ alive[q] <= waiting[q] /\ InChannel(q)' = InChannel(q)
        BY <1>1, ChannelFacts DEF CarriersKnow, Supervising
      <3> QED
        BY <1>1, <1>2, <2>1, <3>1, SupFacts DEF Carriers
    <2> QED
      BY <1>1, <1>3, <2>2, <2>3 DEF CarriersKnow
  <1> QED
    BY <1>4, <1>5

(* A process ends; whoever carries its pool does so still *)
LEMMA ExitKeeps ==
  ASSUME SupInv, NEW p \in Pools, Exit(p)
  PROVE  SupInv'
  <1> USE SupervisorAssumption DEF SupInv, Exit
  <1>1. alive[p] \in Nat /\ alive[p] > 0
    BY SupFacts
  <1>2. /\ alive' \in [Pools -> Nat] /\ alive'[p] = alive[p] - 1
        /\ \A q \in Pools \ {p} : alive'[q] = alive[q]
    BY <1>1 DEF Dec, SupTypeOK
  <1>3. SupTypeOK'
    BY <1>2 DEF SupTypeOK
  <1>4. FirstLoop'
    BY <1>1, <1>2 DEF FirstLoop
  <1>5. ASSUME NEW q \in Pools
        PROVE  alive'[q] <= alive[q] /\ alive'[q] \in Nat /\ alive[q] \in Nat /\ waiting[q] \in Nat /\ Carriers(q)' = Carriers(q)
    BY <1>1, <1>2, SupFacts, ChannelFacts DEF Carriers
  <1>6. CarriersKnow'
    BY <1>5 DEF CarriersKnow, Supervising
  <1> QED
    BY <1>3, <1>4, <1>6

(* The ends of the loop promise nothing any more *)
LEMMA StopKeeps ==
  ASSUME SupInv, StartFails \/ Stop \/ KillAll \/ CancelSupervisor
  PROVE  SupInv'
  <1> USE SupervisorAssumption DEF SupInv
  <1>1. ~Supervising' /\ UNCHANGED <<cur, launched, waiting, sending, errCh, restartBackoff>>
    BY DEF StartFails, Stop, KillAll, CancelSupervisor, Supervising, SupTypeOK
  <1>2. alive' = alive \/ alive' = [p \in Pools |-> 0]
    BY DEF StartFails, Stop, KillAll, CancelSupervisor
  <1>3. shutdown' \in BOOLEAN
    BY DEF StartFails, Stop, KillAll, CancelSupervisor, SupTypeOK
  <1>4. supAt' \in {"starting", "select", "backoff", "stopping", "returned"} /\ startFails' \in 0..MaxStartFails
    BY DEF StartFails, Stop, KillAll, CancelSupervisor, SupTypeOK
  <1>5. supAt' \in {"starting", "select", "backoff"} => supAt' = supAt /\ alive' = alive
    BY DEF StartFails, Stop, KillAll, CancelSupervisor
  <1>6. SupTypeOK'
    BY <1>1, <1>2, <1>3, <1>4 DEF SupTypeOK
  <1>7. FirstLoop'
    BY <1>1, <1>5 DEF FirstLoop
  <1>8. CarriersKnow'
    BY <1>1, <1>2, <1>5 DEF CarriersKnow
  <1> QED
    BY <1>6, <1>7, <1>8

(* The invariant of the supervisor holds always *)
THEOREM SupInvariant == SupSpec => []SupInv
  <1>1. SupInit => SupInv
    <2> SUFFICES ASSUME SupInit PROVE SupInv
      OBVIOUS
    <2>1. shutdown \in BOOLEAN
      BY DEF SupInit
    <2>2. SupTypeOK
      <3>1. errCh \in Seq(Pools) /\ Len(errCh) = 0 /\ Cardinality(Pools) \in Nat
        BY SupervisorAssumption, FS_CardinalityType DEF SupInit
      <3> QED
        BY <2>1, <3>1, SupervisorAssumption DEF SupInit, SupTypeOK
    <2>3. FirstLoop /\ CarriersKnow
      BY DEF SupInit, FirstLoop, CarriersKnow, Supervising
    <2> QED
      BY <2>2, <2>3 DEF SupInv
  <1>2. SupInv /\ [SupNext]_supVars => SupInv'
    <2> SUFFICES ASSUME SupInv, [SupNext]_supVars PROVE SupInv'
      OBVIOUS
    <2>1. CASE UNCHANGED supVars
      BY <2>1 DEF supVars, SupInv, SupTypeOK, FirstLoop, CarriersKnow, Supervising, Carriers, InChannel
    <2> QED
      BY <2>1, StartKeeps, HandOnKeeps, ReceiveKeeps, RestartKeeps, ExitKeeps, StopKeeps DEF SupNext
  <1> QED
    BY <1>1, <1>2, PTL DEF SupSpec

(* Type correctness of the supervisor; errCh never needs more room than it has *)
THEOREM SupTypeCorrect == SupSpec => []SupTypeOK
  BY SupInvariant, PTL DEF SupInv

(* For any pools and any failures no pool has two processes, and while the
   supervisor runs none is forgotten or restarted twice *)
THEOREM PoolsHaveOneCarrier == SupSpec => []OneCarrierPerPool
  <1>1. SupInv => OneCarrierPerPool
    BY DEF SupInv, CarriersKnow, Supervising, Carriers, OneCarrierPerPool
  <1> QED
    BY <1>1, SupInvariant, PTL

-----------------------------------------------------------------------------
(***************************************************************************)
(* The channels of a pool.  What was accepted is what was started, then    *)
(* what the dispatcher has in its hand, then Jobqueue; a worker is free,   *)
(* or away with a job.                                                     *)
(***************************************************************************)

(* accepted = started \o disp.job \o jobqueue, place by place *)
InOrder ==
  /\ Len(accepted) = Len(started) + Len(disp.job) + Len(jobqueue)
  /\ \A i \in 1..Len(started) : started[i] = accepted[i]
  /\ disp.job # <<>> => disp.job[1] = accepted[Len(started) + 1]
  /\ \A i \in 1..Len(jobqueue) : jobqueue[i] = accepted[Len(started) + Len(disp.job) + i]

(* A lane's ServeJobs has accepted only numbers it has passed *)
NumbersPassed ==
  /\ \A l \in Lanes : serve[l].pc = "put" => serve[l].claimed # 0
  /\ \A i \in 1..Len(accepted) : \A l \in Lanes, n \in 1..MaxJobs :
       accepted[i] = <<l, n>> => n <= serve[l].claimed /\ (serve[l].pc = "put" => n < serve[l].claimed)

(* What the dispatcher has in its hand, by where it is *)
Hands ==
  /\ disp.pc = "select" => disp.job = <<>> /\ disp.worker = <<>>
  /\ disp.pc = "needsWorker" => disp.job # <<>> /\ disp.worker = <<>>
  /\ disp.pc = "handsOver" => disp.job # <<>> /\ disp.worker # <<>>

Away == {w \in Workers : at[w] \in {"working", "offers", "registers"}}

(* A worker counts once, and workerPoolCh lets it back on the shutdown only *)
SlotsCounted ==
  /\ Idle + Cardinality(Away) <= PoolSize
  /\ Len(workerPoolCh) = PoolSize
  /\ \A w \in Workers : at[w] = "registers" => cancelled

(* A JobChannel is in one place, and its worker at its select or gone *)
FreeOnce ==
  /\ \A i, k \in 1..Len(pool) : pool[i] = pool[k] => i = k
  /\ \A i \in 1..Len(pool) : at[pool[i]] \in {"idle", "returned"}
  /\ disp.worker # <<>> =>
       /\ \A i \in 1..Len(pool) : pool[i] # disp.worker[1]
       /\ at[disp.worker[1]] \in {"idle", "returned"}

PoolInv == PoolTypeOK /\ InOrder /\ NumbersPassed /\ Hands /\ SlotsCounted /\ FreeOnce

(* The start-up order of the workers names each of them once *)
LEMMA StartUpOrder ==
  /\ PoolSize \in Nat
  /\ SetToSeq(Workers) \in Seq(Workers) /\ Len(SetToSeq(Workers)) = PoolSize
  /\ \A i, k \in 1..PoolSize : SetToSeq(Workers)[i] = SetToSeq(Workers)[k] => i = k
  <1>1. PoolSize \in Nat /\ ExistsBijection(1..PoolSize, Workers)
    BY PoolConstants, FS_CardinalityType DEF PoolSize
  <1>2. PICK f : f \in Bijection(1..PoolSize, Workers)
    BY <1>1 DEF ExistsBijection
  <1>3. f \in [1..Cardinality(Workers) -> Workers] /\ IsInjective(f)
    BY <1>2 DEF Bijection, Injection, PoolSize
  <1> DEFINE s == SetToSeq(Workers)
  <1>4. s \in [1..PoolSize -> Workers] /\ IsInjective(s)
    BY <1>3, Zenon DEF SetToSeq, PoolSize
  <1> QED
    BY <1>1, <1>4 DEF IsInjective

LEMMA PoolStart == PoolInit => PoolInv
  <1> SUFFICES ASSUME PoolInit PROVE PoolInv
    OBVIOUS
  <1> USE DEF PoolInit
  <1>1. Away = {}
    BY DEF Away
  <1>2. Idle = PoolSize /\ Cardinality(Away) = 0
    BY <1>1, StartUpOrder, FS_EmptySet DEF Idle
  <1>3. PoolTypeOK
    <2>1. disp \in [pc : {"select", "needsWorker", "handsOver", "returned"},
                   job : Seq(JobIds), worker : Seq(Workers)]
      OBVIOUS
    <2>7. Len(disp.job) <= 1 /\ Len(disp.worker) <= 1
      OBVIOUS
    <2>2. serve \in [Lanes -> [pc : {"poll", "put", "returned"}, claimed : 0..MaxJobs]]
      BY PoolConstants
    <2>3. at \in [Workers -> {"idle", "working", "offers", "registers", "returned"}]
      OBVIOUS
    <2>4. jobqueue \in Seq(JobIds) /\ Len(jobqueue) <= QueueCap /\ accepted \in Seq(JobIds) /\ started \in Seq(JobIds)
      BY PoolConstants
    <2>5. /\ pool \in Seq(Workers) /\ Len(pool) <= PoolSize
          /\ workerPoolCh \in Seq(Workers) /\ Len(workerPoolCh) <= PoolSize
      BY StartUpOrder
    <2>6. cancelled \in BOOLEAN
      OBVIOUS
    <2> QED
      BY <2>1, <2>2, <2>3, <2>4, <2>5, <2>6, <2>7, Zenon DEF PoolTypeOK
  <1>4. InOrder /\ NumbersPassed /\ Hands
    BY DEF InOrder, NumbersPassed, Hands
  <1>5. SlotsCounted
    BY <1>2, StartUpOrder DEF SlotsCounted
  <1>6. FreeOnce
    BY StartUpOrder DEF FreeOnce
  <1> QED
    BY <1>3, <1>4, <1>5, <1>6 DEF PoolInv

(* A channel's hand is empty or holds one value *)
LEMMA AtMostOne ==
  ASSUME NEW S, NEW s \in Seq(S), Len(s) <= 1
  PROVE  s = <<>> \/ (s[1] \in S /\ Len(s) = 1)
  <1>1. CASE s # <<>>
    <2>1. Len(s) \in Nat \ {0}
      BY <1>1, EmptySeq
    <2>2. Len(s) = 1
      <3>1. \A n \in Nat \ {0} : n <= 1 => n = 1
        OBVIOUS
      <3> QED
        BY <2>1, <3>1, Zenon
    <2>3. 1 \in 1..Len(s)
      BY <2>2
    <2> QED
      BY <2>2, <2>3, ElementOfSeq
  <1> QED
    BY <1>1

(* What the types say, in the terms of sequences *)
LEMMA PoolFacts ==
  ASSUME PoolTypeOK
  PROVE  /\ PoolSize \in Nat
         /\ Len(pool) \in Nat /\ Len(workerPoolCh) \in Nat /\ Len(jobqueue) \in Nat
         /\ Len(accepted) \in Nat /\ Len(started) \in Nat
         /\ \A i \in 1..Len(pool) : pool[i] \in Workers
         /\ disp.job = <<>> \/ (disp.job[1] \in JobIds /\ Len(disp.job) = 1)
         /\ disp.worker = <<>> \/ (disp.worker[1] \in Workers /\ Len(disp.worker) = 1)
  <1>1. PoolSize \in Nat
    BY StartUpOrder
  <1>2. disp.job \in Seq(JobIds) /\ Len(disp.job) <= 1 /\ disp.worker \in Seq(Workers) /\ Len(disp.worker) <= 1
    BY DEF PoolTypeOK
  <1>3. disp.job = <<>> \/ (disp.job[1] \in JobIds /\ Len(disp.job) = 1)
    BY <1>2, AtMostOne
  <1>4. disp.worker = <<>> \/ (disp.worker[1] \in Workers /\ Len(disp.worker) = 1)
    BY <1>2, AtMostOne
  <1>5. pool \in Seq(Workers) /\ workerPoolCh \in Seq(Workers) /\ jobqueue \in Seq(JobIds) /\ accepted \in Seq(JobIds)
        /\ started \in Seq(JobIds)
    BY DEF PoolTypeOK
  <1> QED
    BY <1>1, <1>3, <1>4, <1>5

LEMMA PoolTypeStep ==
  ASSUME PoolInv, PoolNext
  PROVE  PoolTypeOK'
  <1> DEFINE D == [pc : {"select", "needsWorker", "handsOver", "returned"},
                  job : Seq(JobIds), worker : Seq(Workers)]
             A == [Workers -> {"idle", "working", "offers", "registers", "returned"}]
             S == [Lanes -> [pc : {"poll", "put", "returned"}, claimed : 0..MaxJobs]]
  <1>1. /\ jobqueue \in Seq(JobIds) /\ Len(jobqueue) <= QueueCap
        /\ pool \in Seq(Workers) /\ Len(pool) <= PoolSize
        /\ workerPoolCh \in Seq(Workers) /\ Len(workerPoolCh) <= PoolSize
        /\ disp \in D /\ Len(disp.job) <= 1 /\ Len(disp.worker) <= 1 /\ at \in A /\ serve \in S /\ cancelled \in BOOLEAN
        /\ accepted \in Seq(JobIds) /\ started \in Seq(JobIds)
    BY DEF PoolInv, PoolTypeOK
  <1>2. Hands /\ PoolSize \in Nat /\ Len(jobqueue) \in Nat /\ Len(pool) \in Nat /\ Len(workerPoolCh) \in Nat
        /\ (disp.job = <<>> \/ disp.job[1] \in JobIds)
    BY PoolFacts DEF PoolInv
  <1>3. SUFFICES
        /\ jobqueue' \in Seq(JobIds) /\ Len(jobqueue') <= QueueCap
        /\ pool' \in Seq(Workers) /\ Len(pool') <= PoolSize
        /\ workerPoolCh' \in Seq(Workers) /\ Len(workerPoolCh') <= PoolSize
        /\ disp' \in D /\ Len(disp.job)' <= 1 /\ Len(disp.worker)' <= 1 /\ at' \in A /\ serve' \in S /\ cancelled' \in BOOLEAN
        /\ accepted' \in Seq(JobIds) /\ started' \in Seq(JobIds)
    BY Zenon DEF PoolTypeOK, PoolSize
  <1>4. ASSUME NEW l \in Lanes, Serve(l) PROVE
          /\ serve' \in S /\ jobqueue' \in Seq(JobIds) /\ Len(jobqueue') <= QueueCap /\ accepted' \in Seq(JobIds)
          /\ UNCHANGED <<pool, workerPoolCh, disp, at, cancelled, started>>
    <2>1. CASE Claim(l)
      <3>1. serve[l].claimed + 1 \in 0..MaxJobs
        BY <1>1, <2>1, PoolConstants DEF Claim
      <3>2. [pc |-> "put", claimed |-> serve[l].claimed + 1] \in [pc : {"poll", "put", "returned"}, claimed : 0..MaxJobs]
        BY <3>1
      <3>3. serve' = [serve EXCEPT ![l] = [pc |-> "put", claimed |-> serve[l].claimed + 1]]
        BY <2>1 DEF Claim
      <3>4. serve' \in S
        BY <1>1, <3>2, <3>3
      <3> QED
        BY <1>1, <2>1, <3>4 DEF Claim
    <2>2. CASE Put(l)
      <3>1. serve[l].claimed \in 0..MaxJobs
        BY <1>1
      <3>2. <<l, serve[l].claimed>> \in JobIds
        BY <1>4, <2>2, <3>1 DEF PoolInv, NumbersPassed, Put, JobIds
      <3>3. CASE Len(jobqueue) < QueueCap /\ jobqueue' = Append(jobqueue, <<l, serve[l].claimed>>)
                 /\ accepted' = Append(accepted, <<l, serve[l].claimed>>)
        <4> DEFINE job == <<l, serve[l].claimed>>
        <4>1. job \in JobIds
          BY <3>2
        <4> HIDE DEF job
        <4>2. /\ Append(jobqueue, job) \in Seq(JobIds) /\ Len(Append(jobqueue, job)) = Len(jobqueue) + 1
              /\ Append(accepted, job) \in Seq(JobIds)
          BY <1>1, <4>1, AppendProperties
        <4>3. Len(jobqueue) < QueueCap /\ jobqueue' = Append(jobqueue, job) /\ accepted' = Append(accepted, job)
          BY <3>3 DEF job
        <4>4. Len(jobqueue') <= QueueCap
          BY <1>2, <4>2, <4>3, PoolConstants
        <4>5. serve' \in S /\ UNCHANGED <<pool, workerPoolCh, disp, at, cancelled, started>>
          BY <1>1, <2>2 DEF Put
        <4> QED
          BY <4>2, <4>3, <4>4, <4>5
      <3>4. CASE UNCHANGED <<jobqueue, accepted>>
        BY <1>1, <2>2, <3>4 DEF Put
      <3> QED
        BY <2>2, <3>3, <3>4 DEF Put
    <2>3. CASE ServeReturns(l)
      BY <1>1, <2>3 DEF ServeReturns
    <2> QED
      BY <1>4, <2>1, <2>2, <2>3 DEF Serve
  <1>5. CASE TakeJob
    <2>1. Head(jobqueue) \in JobIds /\ Tail(jobqueue) \in Seq(JobIds) /\ Len(Tail(jobqueue)) <= QueueCap
      BY <1>1, <1>2, <1>5, HeadTailProperties, PoolConstants DEF TakeJob
    <2>2. disp' = [pc |-> "needsWorker", job |-> <<Head(jobqueue)>>, worker |-> disp.worker]
      BY <1>1, <1>5 DEF TakeJob
    <2>3. disp' \in D /\ Len(disp.job)' <= 1 /\ Len(disp.worker)' <= 1
      BY <1>1, <2>1, <2>2
    <2> QED
      BY <1>1, <1>5, <2>1, <2>3 DEF TakeJob
  <1>6. CASE TakeWorker
    <2>1. Head(pool) \in Workers /\ Tail(pool) \in Seq(Workers) /\ Len(Tail(pool)) <= PoolSize
      BY <1>1, <1>2, <1>6, HeadTailProperties DEF TakeWorker
    <2>2. disp' = [pc |-> "handsOver", job |-> disp.job, worker |-> <<Head(pool)>>]
      BY <1>1, <1>6 DEF TakeWorker
    <2>3. disp' \in D /\ Len(disp.job)' <= 1 /\ Len(disp.worker)' <= 1
      BY <1>1, <2>1, <2>2
    <2> QED
      BY <1>1, <1>6, <2>1, <2>3 DEF TakeWorker
  <1>7. CASE HandOver
    <2>1. disp.job[1] \in JobIds
      BY <1>2, <1>7 DEF HandOver, Hands
    <2>2. disp' \in D /\ Len(disp.job)' <= 1 /\ Len(disp.worker)' <= 1
      BY <1>7 DEF HandOver
    <2>3. started' \in Seq(JobIds) /\ at' \in A
      BY <1>1, <1>7, <2>1, AppendProperties DEF HandOver
    <2> QED
      BY <1>1, <1>7, <2>2, <2>3 DEF HandOver
  <1>8. CASE DispatcherReturns
    <2>1. disp' = [pc |-> "returned", job |-> disp.job, worker |-> disp.worker]
      BY <1>1, <1>8 DEF DispatcherReturns
    <2>2. disp' \in D /\ Len(disp.job)' <= 1 /\ Len(disp.worker)' <= 1
      BY <1>1, <2>1
    <2> QED
      BY <1>1, <1>8, <2>2 DEF DispatcherReturns
  <1>9. ASSUME NEW w \in Workers, WorkerLoop(w) PROVE
          /\ at' \in A /\ pool' \in Seq(Workers) /\ Len(pool') <= PoolSize
          /\ workerPoolCh' \in Seq(Workers) /\ Len(workerPoolCh') <= PoolSize
          /\ UNCHANGED <<jobqueue, disp, serve, cancelled, accepted, started>>
    <2>1. CASE HandlerDone(w)
      BY <1>1, <2>1 DEF HandlerDone
    <2>2. CASE Offer(w)
      <3>1. Append(workerPoolCh, w) \in Seq(Workers) /\ Len(Append(workerPoolCh, w)) = Len(workerPoolCh) + 1
        BY <1>1, AppendProperties
      <3>2. at' \in A /\ UNCHANGED <<pool, jobqueue, disp, serve, cancelled, accepted, started>>
        BY <1>1, <2>2 DEF Offer
      <3>3. workerPoolCh' = workerPoolCh \/ (Len(workerPoolCh) < PoolSize /\ workerPoolCh' = Append(workerPoolCh, w))
        BY <2>2 DEF Offer
      <3>4. Len(workerPoolCh) < PoolSize => Len(workerPoolCh) + 1 <= PoolSize
        BY <1>2
      <3> QED
        BY <1>1, <3>1, <3>2, <3>3, <3>4, Zenon
    <2>3. CASE Register(w)
      <3>1. Append(pool, w) \in Seq(Workers) /\ Len(Append(pool, w)) = Len(pool) + 1
        BY <1>1, AppendProperties
      <3>2. at' \in A /\ UNCHANGED <<workerPoolCh, jobqueue, disp, serve, cancelled, accepted, started>>
        BY <1>1, <2>3 DEF Register
      <3>3. pool' = pool \/ (Len(pool) < PoolSize /\ pool' = Append(pool, w))
        BY <2>3 DEF Register
      <3>4. Len(pool) < PoolSize => Len(pool) + 1 <= PoolSize
        BY <1>2
      <3> QED
        BY <1>1, <3>1, <3>2, <3>3, <3>4, Zenon
    <2>4. CASE WorkerReturns(w)
      BY <1>1, <2>4 DEF WorkerReturns
    <2> QED
      BY <1>9, <2>1, <2>2, <2>3, <2>4 DEF WorkerLoop
  <1>10. CASE CancelContext
    BY <1>1, <1>10 DEF CancelContext
  <1> QED
    BY <1>1, <1>4, <1>5, <1>6, <1>7, <1>8, <1>9, <1>10 DEF PoolNext, Dispatcher

(* What happens in the channels leaves the order of the jobs, one by one *)
LEMMA InOrderStep ==
  ASSUME PoolInv, PoolNext
  PROVE  InOrder'
  <1>1. /\ jobqueue \in Seq(JobIds) /\ accepted \in Seq(JobIds) /\ started \in Seq(JobIds)
        /\ disp = [pc |-> disp.pc, job |-> disp.job, worker |-> disp.worker]
    BY DEF PoolInv, PoolTypeOK
  <1>2. /\ InOrder /\ Hands
        /\ Len(jobqueue) \in Nat /\ Len(accepted) \in Nat /\ Len(started) \in Nat
        /\ disp.job = <<>> \/ (disp.job[1] \in JobIds /\ Len(disp.job) = 1)
    BY PoolFacts DEF PoolInv
  <1>3. Len(<<>>) = 0 /\ Len(disp.job) \in {0, 1}
    BY <1>2
  <1>4. CASE UNCHANGED <<accepted, started, jobqueue, disp.job>>
    BY <1>2, <1>4 DEF InOrder
  <1>5. ASSUME NEW l \in Lanes, Put(l) PROVE InOrder'
    <2> DEFINE job == <<l, serve[l].claimed>>
    <2>1. CASE UNCHANGED <<accepted, jobqueue>>
      BY <1>4, <1>5, <2>1 DEF Put
    <2>2. CASE jobqueue' = Append(jobqueue, job) /\ accepted' = Append(accepted, job)
      <3>1. job \in JobIds
        <4>1. serve[l].claimed \in 0..MaxJobs
          BY DEF PoolInv, PoolTypeOK
        <4> QED
          BY <1>5, <4>1 DEF PoolInv, NumbersPassed, Put, JobIds
      <3> HIDE DEF job
      <3>2. /\ Len(jobqueue') = Len(jobqueue) + 1 /\ jobqueue'[Len(jobqueue) + 1] = job
            /\ \A i \in 1..Len(jobqueue) : jobqueue'[i] = jobqueue[i]
            /\ Len(accepted') = Len(accepted) + 1 /\ accepted'[Len(accepted) + 1] = job
            /\ \A i \in 1..Len(accepted) : accepted'[i] = accepted[i]
        BY <1>1, <2>2, <3>1, AppendProperties
      <3>3. UNCHANGED <<started, disp>>
        BY <1>5 DEF Put
      <3> DEFINE before == Len(started) + Len(disp.job)
      <3>8. /\ Len(accepted) = before + Len(jobqueue) /\ before \in Nat /\ Len(jobqueue) \in Nat
            /\ \A i \in 1..Len(jobqueue) : jobqueue[i] = accepted[before + i] /\ before + i \in 1..Len(accepted)
        BY <1>2, <1>3 DEF InOrder
      <3> HIDE DEF before
      <3>4. Len(accepted') = before + Len(jobqueue')
        BY <3>2, <3>8
      <3>5. \A i \in 1..Len(started) : started[i] = accepted'[i]
        BY <1>2, <1>3, <3>2 DEF InOrder
      <3>6. disp.job # <<>> => disp.job[1] = accepted'[Len(started) + 1]
        BY <1>2, <1>3, <3>2 DEF InOrder
      <3>7. ASSUME NEW i \in 1..Len(jobqueue') PROVE jobqueue'[i] = accepted'[before + i]
        <4>1. CASE i \in 1..Len(jobqueue)
          BY <3>2, <3>8, <4>1
        <4>2. CASE i = Len(jobqueue) + 1
          <5>1. before + i = Len(accepted) + 1
            BY <3>8, <4>2
          <5> QED
            BY <3>2, <4>2, <5>1
        <4> QED
          BY <1>2, <3>2, <4>1, <4>2
      <3> QED
        BY <3>3, <3>4, <3>5, <3>6, <3>7, Zenon DEF InOrder, before
    <2> QED
      BY <1>5, <2>1, <2>2 DEF Put
  <1>6. CASE TakeJob
    <2>1. /\ Len(jobqueue') = Len(jobqueue) - 1 /\ \A i \in 1..Len(jobqueue') : jobqueue'[i] = jobqueue[i + 1]
          /\ Len(jobqueue) # 0
      BY <1>1, <1>6, HeadTailProperties, EmptySeq DEF TakeJob
    <2>2. disp'.job = <<jobqueue[1]>> /\ disp.job = <<>> /\ UNCHANGED <<accepted, started>>
      BY <1>1, <1>2, <1>6 DEF TakeJob, Hands
    <2>3. disp'.job # <<>> /\ disp'.job[1] = jobqueue[1] /\ Len(disp'.job) = 1
      BY <2>2
    <2>4. Len(accepted) = Len(started) + Len(disp'.job) + Len(jobqueue')
      BY <1>2, <1>3, <2>1, <2>2, <2>3 DEF InOrder
    <2>5. disp'.job[1] = accepted[Len(started) + 1]
      BY <1>2, <1>3, <2>1, <2>2, <2>3 DEF InOrder
    <2>6. \A i \in 1..Len(jobqueue') : jobqueue'[i] = accepted[Len(started) + Len(disp'.job) + i]
      BY <1>2, <1>3, <2>1, <2>2, <2>3 DEF InOrder
    <2> QED
      BY <1>2, <2>2, <2>4, <2>5, <2>6, Zenon DEF InOrder
  <1>7. CASE HandOver
    <2>1. /\ Len(started') = Len(started) + 1 /\ started'[Len(started) + 1] = disp.job[1]
          /\ \A i \in 1..Len(started) : started'[i] = started[i]
      BY <1>1, <1>2, <1>7, AppendProperties DEF HandOver, Hands
    <2>2. disp'.job = <<>> /\ UNCHANGED <<accepted, jobqueue>> /\ disp.job # <<>>
      BY <1>2, <1>7 DEF HandOver, Hands
    <2>3. Len(disp.job) = 1
      BY <1>2, <2>2
    <2>4. Len(accepted) = Len(started') + Len(disp'.job) + Len(jobqueue)
      BY <1>2, <1>3, <2>1, <2>2, <2>3 DEF InOrder
    <2>5. \A i \in 1..Len(started') : started'[i] = accepted[i]
      BY <1>2, <1>3, <2>1, <2>2, <2>3 DEF InOrder
    <2>6. \A i \in 1..Len(jobqueue) : jobqueue[i] = accepted[Len(started') + Len(disp'.job) + i]
      BY <1>2, <1>3, <2>1, <2>2, <2>3 DEF InOrder
    <2> QED
      BY <2>2, <2>4, <2>5, <2>6, Zenon DEF InOrder
  <1>8. ASSUME NEW l \in Lanes, Claim(l) \/ ServeReturns(l) PROVE InOrder'
    BY <1>4, <1>8 DEF Claim, ServeReturns
  <1>9. ASSUME TakeWorker \/ DispatcherReturns PROVE InOrder'
    BY <1>1, <1>4, <1>9 DEF TakeWorker, DispatcherReturns
  <1>10. ASSUME NEW w \in Workers, WorkerLoop(w) PROVE InOrder'
    BY <1>4, <1>10 DEF WorkerLoop, HandlerDone, Offer, Register, WorkerReturns
  <1>11. CASE CancelContext
    BY <1>4, <1>11 DEF CancelContext
  <1> QED
    BY <1>5, <1>6, <1>7, <1>8, <1>9, <1>10, <1>11 DEF PoolNext, Serve, Dispatcher

LEMMA NumbersStep ==
  ASSUME PoolInv, PoolNext
  PROVE  NumbersPassed'
  <1>1. /\ serve \in [Lanes -> [pc : {"poll", "put", "returned"}, claimed : 0..MaxJobs]]
        /\ accepted \in Seq(JobIds) /\ Len(accepted) \in Nat /\ NumbersPassed
    BY PoolFacts DEF PoolInv, PoolTypeOK
  <1>2. CASE UNCHANGED <<accepted, serve>>
    BY <1>1, <1>2 DEF NumbersPassed
  <1>3. ASSUME NEW l \in Lanes, Claim(l) PROVE NumbersPassed'
    <2>1. /\ serve'[l].pc = "put" /\ serve'[l].claimed = serve[l].claimed + 1 /\ serve[l].claimed \in Nat
          /\ \A m \in Lanes \ {l} : serve'[m] = serve[m]
          /\ UNCHANGED accepted
      BY <1>1, <1>3 DEF Claim
    <2>2. ASSUME NEW i \in 1..Len(accepted), NEW m \in Lanes, NEW n \in 1..MaxJobs, accepted[i] = <<m, n>>
          PROVE  n <= serve'[m].claimed /\ (serve'[m].pc = "put" => n < serve'[m].claimed)
      <3>1. n <= serve[m].claimed /\ (serve[m].pc = "put" => n < serve[m].claimed)
        BY <1>1, <2>2 DEF NumbersPassed
      <3>2. CASE m = l
        BY <2>1, <3>1, <3>2
      <3>3. CASE m # l
        BY <2>1, <3>1, <3>3
      <3> QED
        BY <3>2, <3>3
    <2>3. \A m \in Lanes : serve'[m].pc = "put" => serve'[m].claimed # 0
      BY <1>1, <2>1 DEF NumbersPassed
    <2> QED
      BY <2>1, <2>2, <2>3, Zenon DEF NumbersPassed
  <1>4. ASSUME NEW l \in Lanes, Put(l) PROVE NumbersPassed'
    <2> DEFINE job == <<l, serve[l].claimed>>
    <2>1. /\ serve'[l].pc = "poll" /\ serve'[l].claimed = serve[l].claimed /\ serve[l].claimed \in 0..MaxJobs
          /\ \A m \in Lanes \ {l} : serve'[m] = serve[m]
          /\ serve[l].pc = "put"
      BY <1>1, <1>4 DEF Put
    <2>2. CASE UNCHANGED accepted
      BY <1>1, <2>1, <2>2 DEF NumbersPassed
    <2>3. CASE accepted' = Append(accepted, job)
      <3>1. job \in JobIds
        BY <1>1, <2>1 DEF NumbersPassed, JobIds
      <3>2. \A m \in Lanes, n \in 1..MaxJobs : job = <<m, n>> => m = l /\ n = serve[l].claimed
        OBVIOUS
      <3> HIDE DEF job
      <3>3. /\ Len(accepted') = Len(accepted) + 1 /\ accepted'[Len(accepted) + 1] = job
            /\ \A i \in 1..Len(accepted) : accepted'[i] = accepted[i]
        BY <1>1, <2>3, <3>1, AppendProperties
      <3>4. ASSUME NEW i \in 1..Len(accepted'), NEW m \in Lanes, NEW n \in 1..MaxJobs, accepted'[i] = <<m, n>>
            PROVE  n <= serve'[m].claimed /\ (serve'[m].pc = "put" => n < serve'[m].claimed)
        <4>1. CASE i \in 1..Len(accepted)
          BY <1>1, <2>1, <3>3, <3>4, <4>1 DEF NumbersPassed
        <4>2. CASE i = Len(accepted) + 1
          <5>1. m = l /\ n = serve[l].claimed
            BY <3>2, <3>3, <3>4, <4>2
          <5> QED
            BY <2>1, <5>1
        <4> QED
          BY <1>1, <3>3, <4>1, <4>2
      <3>5. \A m \in Lanes : serve'[m].pc = "put" => serve'[m].claimed # 0
        BY <1>1, <2>1 DEF NumbersPassed
      <3> QED
        BY <3>4, <3>5 DEF NumbersPassed
    <2> QED
      BY <1>4, <2>2, <2>3 DEF Put
  <1>5. ASSUME NEW l \in Lanes, ServeReturns(l) PROVE NumbersPassed'
    <2>1. /\ serve'[l].pc = "returned" /\ serve'[l].claimed = serve[l].claimed
          /\ \A m \in Lanes \ {l} : serve'[m] = serve[m]
          /\ serve[l].pc = "poll" /\ UNCHANGED accepted
      BY <1>1, <1>5 DEF ServeReturns
    <2> QED
      BY <1>1, <2>1 DEF NumbersPassed
  <1>6. CASE Dispatcher
    BY <1>2, <1>6 DEF Dispatcher, TakeJob, TakeWorker, HandOver, DispatcherReturns
  <1>7. ASSUME NEW w \in Workers, WorkerLoop(w) PROVE NumbersPassed'
    BY <1>2, <1>7 DEF WorkerLoop, HandlerDone, Offer, Register, WorkerReturns
  <1>8. CASE CancelContext
    BY <1>2, <1>8 DEF CancelContext
  <1> QED
    BY <1>3, <1>4, <1>5, <1>6, <1>7, <1>8 DEF PoolNext, Serve

LEMMA HandsStep ==
  ASSUME PoolInv, PoolNext
  PROVE  Hands'
  <1>1. disp = [pc |-> disp.pc, job |-> disp.job, worker |-> disp.worker] /\ Hands
    BY DEF PoolInv, PoolTypeOK
  <1>2. CASE UNCHANGED disp
    BY <1>1, <1>2 DEF Hands
  <1>3. CASE TakeJob
    <2>1. disp' = [pc |-> "needsWorker", job |-> <<Head(jobqueue)>>, worker |-> disp.worker] /\ disp.worker = <<>>
      BY <1>1, <1>3 DEF TakeJob, Hands
    <2> QED
      BY <2>1 DEF Hands
  <1>4. CASE TakeWorker
    <2>1. disp' = [pc |-> "handsOver", job |-> disp.job, worker |-> <<Head(pool)>>] /\ disp.job # <<>>
      BY <1>1, <1>4 DEF TakeWorker, Hands
    <2> QED
      BY <2>1 DEF Hands
  <1>5. CASE HandOver
    BY <1>5 DEF HandOver, Hands
  <1>6. CASE DispatcherReturns
    BY <1>1, <1>6 DEF DispatcherReturns, Hands
  <1>7. ASSUME NEW l \in Lanes, Serve(l) PROVE Hands'
    BY <1>2, <1>7 DEF Serve, Claim, Put, ServeReturns
  <1>8. ASSUME NEW w \in Workers, WorkerLoop(w) PROVE Hands'
    BY <1>2, <1>8 DEF WorkerLoop, HandlerDone, Offer, Register, WorkerReturns
  <1>9. CASE CancelContext
    BY <1>2, <1>9 DEF CancelContext
  <1> QED
    BY <1>3, <1>4, <1>5, <1>6, <1>7, <1>8, <1>9 DEF PoolNext, Dispatcher

(* One worker leaves with a job, or comes back *)
LEMMA AwayCounts ==
  ASSUME PoolTypeOK, NEW w \in Workers, NEW place \in {"idle", "working", "offers", "registers", "returned"},
         at' = [at EXCEPT ![w] = place]
  PROVE  /\ Cardinality(Away) \in Nat /\ Cardinality(Away') \in Nat
         /\ w \in Away /\ place \notin {"idle", "returned"} => Cardinality(Away') = Cardinality(Away)
         /\ w \notin Away /\ place \in {"idle", "returned"} => Cardinality(Away') = Cardinality(Away)
         /\ w \in Away /\ place \in {"idle", "returned"} => Cardinality(Away') = Cardinality(Away) - 1
         /\ w \notin Away /\ place \notin {"idle", "returned"} => Cardinality(Away') = Cardinality(Away) + 1
  <1>1. at \in [Workers -> {"idle", "working", "offers", "registers", "returned"}]
    BY DEF PoolTypeOK
  <1>2. IsFiniteSet(Away) /\ Cardinality(Away) \in Nat
    BY PoolConstants, FS_Subset, FS_CardinalityType DEF Away
  <1>3. Away' = IF place \in {"idle", "returned"} THEN Away \ {w} ELSE Away \union {w}
    BY <1>1 DEF Away
  <1>4. /\ Cardinality(Away \ {w}) = IF w \in Away THEN Cardinality(Away) - 1 ELSE Cardinality(Away)
        /\ Cardinality(Away \union {w}) = IF w \in Away THEN Cardinality(Away) ELSE Cardinality(Away) + 1
        /\ Cardinality(Away \ {w}) \in Nat
    BY <1>2, FS_AddElement, FS_RemoveElement, FS_CardinalityType
  <1> QED
    BY <1>2, <1>3, <1>4

(* The counts that a step of the pool needs *)
LEMMA SlotFacts ==
  ASSUME PoolInv
  PROVE  /\ at \in [Workers -> {"idle", "working", "offers", "registers", "returned"}]
         /\ pool \in Seq(Workers) /\ Len(pool) \in Nat
         /\ Len(disp.worker) \in Nat /\ Len(<<>>) = 0
         /\ disp = [pc |-> disp.pc, job |-> disp.job, worker |-> disp.worker]
         /\ disp.worker # <<>> => disp.worker[1] \in Workers /\ Len(disp.worker) = 1
         /\ Len(pool) + Len(disp.worker) + Cardinality(Away) <= PoolSize
         /\ Cardinality(Away) \in Nat /\ PoolSize \in Nat
  <1>1. disp.worker \in Seq(Workers)
    BY DEF PoolInv, PoolTypeOK
  <1>2. Len(disp.worker) \in Nat
    BY <1>1, LenProperties
  <1>3. IsFiniteSet(Away) /\ Cardinality(Away) \in Nat
    BY PoolConstants, FS_Subset, FS_CardinalityType DEF Away
  <1>4. Len(pool) + Len(disp.worker) + Cardinality(Away) <= PoolSize
    BY DEF PoolInv, SlotsCounted, Idle
  <1>5. /\ at \in [Workers -> {"idle", "working", "offers", "registers", "returned"}]
        /\ pool \in Seq(Workers)
        /\ disp = [pc |-> disp.pc, job |-> disp.job, worker |-> disp.worker]
    BY DEF PoolInv, PoolTypeOK
  <1> QED
    BY <1>2, <1>3, <1>4, <1>5, PoolFacts DEF PoolInv

LEMMA SlotsStep ==
  ASSUME PoolInv, PoolNext
  PROVE  SlotsCounted'
  <1>1. SlotsCounted
    BY DEF PoolInv
  <1>2. CASE UNCHANGED <<pool, workerPoolCh, at, disp.worker>> /\ (cancelled => cancelled')
    <2>1. Away' = Away
      BY <1>2 DEF Away
    <2> QED
      BY <1>1, <1>2, <2>1 DEF SlotsCounted, Idle, PoolSize
  <1>3. CASE TakeWorker
    <2>1. disp'.worker = <<Head(pool)>> /\ disp.worker = <<>> /\ UNCHANGED <<workerPoolCh, at, cancelled>>
      BY <1>3, SlotFacts DEF TakeWorker, PoolInv, Hands
    <2>2. Len(pool') = Len(pool) - 1
      BY <1>3, SlotFacts, HeadTailProperties DEF TakeWorker
    <2>3. Away' = Away /\ Len(disp'.worker) = 1 /\ Len(disp.worker) = 0
      BY <2>1 DEF Away
    <2>4. Idle' = Idle
      BY <2>2, <2>3, SlotFacts DEF Idle
    <2> QED
      BY <1>1, <2>1, <2>3, <2>4 DEF SlotsCounted, PoolSize
  <1>4. CASE HandOver
    <2>1. disp'.worker = <<>> /\ disp.worker # <<>> /\ UNCHANGED <<pool, workerPoolCh, cancelled>>
          /\ at' = [at EXCEPT ![disp.worker[1]] = "working"] /\ at[disp.worker[1]] = "idle"
      BY <1>4 DEF HandOver, PoolInv, Hands
    <2>2. Cardinality(Away') = Cardinality(Away) + 1
      <3>1. disp.worker[1] \notin Away
        BY <2>1 DEF Away
      <3> QED
        BY <2>1, <3>1, AwayCounts, SlotFacts DEF PoolInv
    <2>3. Idle' = Idle - 1 /\ Idle \in Int
      <3>1. Len(disp'.worker) = 0 /\ Len(disp.worker) = 1 /\ Len(pool') = Len(pool) /\ Len(pool) \in Nat
        BY <2>1, SlotFacts
      <3> QED
        BY <3>1 DEF Idle
    <2>4. \A v \in Workers : at'[v] = "registers" => at[v] = "registers"
      BY <2>1, SlotFacts
    <2> QED
      BY <1>1, <2>1, <2>2, <2>3, <2>4, SlotFacts DEF SlotsCounted, PoolSize
  <1>5. ASSUME NEW w \in Workers, HandlerDone(w) \/ WorkerReturns(w) PROVE SlotsCounted'
    <2>1. UNCHANGED <<pool, workerPoolCh, disp, cancelled>> /\ Cardinality(Away') = Cardinality(Away)
      BY <1>5, AwayCounts, SlotFacts DEF HandlerDone, WorkerReturns, Away, PoolInv
    <2>2. \A v \in Workers : at'[v] = "registers" => at[v] = "registers"
      BY <1>5, SlotFacts DEF HandlerDone, WorkerReturns
    <2> QED
      BY <1>1, <2>1, <2>2 DEF SlotsCounted, Idle, PoolSize
  <1>6. ASSUME NEW w \in Workers, Offer(w) PROVE SlotsCounted'
    <2>1. cancelled /\ UNCHANGED <<pool, workerPoolCh, disp, cancelled>>
      BY <1>1, <1>6, SlotFacts DEF Offer, SlotsCounted
    <2>2. Cardinality(Away') = Cardinality(Away)
      BY <1>6, AwayCounts DEF Offer, Away, PoolInv
    <2> QED
      BY <1>1, <2>1, <2>2 DEF SlotsCounted, Idle, PoolSize
  <1>7. ASSUME NEW w \in Workers, Register(w) PROVE SlotsCounted'
    <2>1. cancelled /\ UNCHANGED <<workerPoolCh, disp, cancelled>> /\ at' = [at EXCEPT ![w] = "idle"]
      BY <1>1, <1>7 DEF Register, SlotsCounted
    <2>2. Cardinality(Away') = Cardinality(Away) - 1
      BY <1>7, AwayCounts DEF Register, Away, PoolInv
    <2>3. Len(pool') \in {Len(pool), Len(pool) + 1}
      BY <1>7, SlotFacts, AppendProperties DEF Register
    <2>4. Idle' + Cardinality(Away') <= PoolSize
      BY <2>1, <2>2, <2>3, SlotFacts DEF Idle
    <2>5. \A v \in Workers : at'[v] = "registers" => at[v] = "registers"
      BY <2>1, SlotFacts
    <2> QED
      BY <1>1, <2>1, <2>4, <2>5 DEF SlotsCounted, PoolSize
  <1>8. ASSUME NEW l \in Lanes, Serve(l) PROVE SlotsCounted'
    BY <1>2, <1>8 DEF Serve, Claim, Put, ServeReturns
  <1>9. ASSUME TakeJob \/ DispatcherReturns PROVE SlotsCounted'
    BY <1>2, <1>9, SlotFacts DEF TakeJob, DispatcherReturns
  <1>10. CASE CancelContext
    BY <1>2, <1>10 DEF CancelContext
  <1> QED
    BY <1>3, <1>4, <1>5, <1>6, <1>7, <1>8, <1>9, <1>10 DEF PoolNext, Dispatcher, WorkerLoop

LEMMA FreeStep ==
  ASSUME PoolInv, PoolNext
  PROVE  FreeOnce'
  <1>1. FreeOnce
    BY DEF PoolInv
  <1>2. ASSUME UNCHANGED <<pool, disp.worker>>,
               \A v \in Workers : at[v] \in {"idle", "returned"} => at'[v] \in {"idle", "returned"}
        PROVE  FreeOnce'
    BY <1>1, <1>2, PoolFacts DEF PoolInv, FreeOnce
  <1>3. CASE TakeWorker
    <2>1. /\ Len(pool') = Len(pool) - 1 /\ pool[1] \in Workers /\ Len(pool) # 0
          /\ \A i \in 1..Len(pool') : pool'[i] = pool[i + 1]
      BY <1>3, SlotFacts, HeadTailProperties, EmptySeq DEF TakeWorker
    <2>2. disp'.worker = <<pool[1]>> /\ disp'.pc = "handsOver" /\ at' = at
      BY <1>3, SlotFacts DEF TakeWorker
    <2>3. disp'.worker[1] = pool[1]
      BY <2>2
    <2>4. \A i, k \in 1..Len(pool') : pool'[i] = pool'[k] => i = k
      <3> SUFFICES ASSUME NEW i \in 1..Len(pool'), NEW k \in 1..Len(pool'), pool'[i] = pool'[k] PROVE i = k
        OBVIOUS
      <3>1. i + 1 \in 1..Len(pool) /\ k + 1 \in 1..Len(pool) /\ pool[i + 1] = pool[k + 1]
        BY <2>1, SlotFacts
      <3>2. i + 1 = k + 1
        BY <1>1, <3>1 DEF FreeOnce
      <3> QED
        BY <3>2
    <2>5. ASSUME NEW i \in 1..Len(pool') PROVE at[pool'[i]] \in {"idle", "returned"} /\ pool'[i] # pool[1]
      <3>1. i + 1 \in 1..Len(pool) /\ 1 \in 1..Len(pool) /\ i + 1 # 1 /\ pool'[i] = pool[i + 1]
        BY <2>1, SlotFacts
      <3> QED
        BY <1>1, <3>1 DEF FreeOnce
    <2>6. at[pool[1]] \in {"idle", "returned"}
      BY <1>1, <2>1, SlotFacts DEF FreeOnce
    <2> QED
      BY <2>2, <2>3, <2>4, <2>5, <2>6 DEF FreeOnce
  <1>4. CASE HandOver
    <2>1. /\ disp'.worker = <<>> /\ disp'.pc = "select" /\ pool' = pool /\ disp.worker # <<>>
          /\ at' = [at EXCEPT ![disp.worker[1]] = "working"]
      BY <1>4 DEF HandOver, PoolInv, Hands
    <2>2. \A i \in 1..Len(pool) : at'[pool[i]] = at[pool[i]]
      BY <1>1, <2>1, PoolFacts, SlotFacts DEF FreeOnce, PoolInv
    <2> QED
      BY <1>1, <2>1, <2>2 DEF FreeOnce
  <1>5. ASSUME NEW w \in Workers, Register(w) PROVE FreeOnce'
    <2>1. /\ at[w] = "registers" /\ disp' = disp
          /\ \A v \in Workers : at'[v] = IF v = w THEN "idle" ELSE at[v]
      BY <1>5, SlotFacts DEF Register
    <2>2. CASE UNCHANGED pool
      BY <1>2, <2>1, <2>2
    <2>3. CASE pool' = Append(pool, w)
      <3>1. /\ Len(pool') = Len(pool) + 1 /\ pool'[Len(pool) + 1] = w
            /\ \A i \in 1..Len(pool) : pool'[i] = pool[i] /\ pool[i] \in Workers
        BY <2>3, SlotFacts, AppendProperties, ElementOfSeq
      <3>2. /\ \A i \in 1..Len(pool) : pool[i] # w
            /\ disp.worker # <<>> => disp.worker[1] # w
        BY <1>1, <2>1 DEF FreeOnce
      <3>3. \A i, k \in 1..Len(pool') : pool'[i] = pool'[k] => i = k
        BY <1>1, <3>1, <3>2, SlotFacts DEF FreeOnce
      <3>4. \A i \in 1..Len(pool') : at'[pool'[i]] \in {"idle", "returned"}
        BY <1>1, <2>1, <3>1, SlotFacts DEF FreeOnce
      <3>5. disp.worker # <<>> =>
              /\ \A i \in 1..Len(pool') : pool'[i] # disp.worker[1]
              /\ at'[disp.worker[1]] \in {"idle", "returned"}
        BY <1>1, <2>1, <3>1, <3>2, SlotFacts DEF FreeOnce
      <3> QED
        BY <2>1, <3>3, <3>4, <3>5 DEF FreeOnce
    <2> QED
      BY <1>5, <2>2, <2>3 DEF Register
  <1>6. ASSUME NEW w \in Workers, HandlerDone(w) \/ Offer(w) \/ WorkerReturns(w) PROVE FreeOnce'
    <2>1. /\ UNCHANGED <<pool, disp>>
          /\ \A v \in Workers : at[v] \in {"idle", "returned"} => at'[v] \in {"idle", "returned"}
      BY <1>6, SlotFacts DEF HandlerDone, Offer, WorkerReturns
    <2> QED
      BY <1>2, <2>1
  <1>7. ASSUME NEW l \in Lanes, Serve(l) PROVE FreeOnce'
    BY <1>2, <1>7 DEF Serve, Claim, Put, ServeReturns
  <1>8. ASSUME TakeJob \/ DispatcherReturns PROVE FreeOnce'
    BY <1>2, <1>8, SlotFacts DEF TakeJob, DispatcherReturns
  <1>9. CASE CancelContext
    BY <1>2, <1>9 DEF CancelContext
  <1> QED
    BY <1>3, <1>4, <1>5, <1>6, <1>7, <1>8, <1>9 DEF PoolNext, Dispatcher, WorkerLoop

LEMMA PoolInvariant == PoolSpec => []PoolInv
  <1>1. PoolInit => PoolInv
    BY PoolStart
  <1>2. PoolInv /\ [PoolNext]_poolVars => PoolInv'
    <2> SUFFICES ASSUME PoolInv, [PoolNext]_poolVars PROVE PoolInv'
      OBVIOUS
    <2>1. CASE PoolNext
      BY <2>1, PoolTypeStep, InOrderStep, NumbersStep, HandsStep, SlotsStep, FreeStep DEF PoolInv
    <2>2. CASE UNCHANGED poolVars
      BY <2>2 DEF poolVars, PoolInv, PoolTypeOK, InOrder, NumbersPassed, Hands, SlotsCounted, FreeOnce, Idle, Away, PoolSize
    <2> QED
      BY <2>1, <2>2
  <1> QED
    BY <1>1, <1>2, PTL DEF PoolSpec

(* The goroutines and channels of a pool stay typed, for any workers, lanes *)
(* and capacity: no channel holds more than it has room for.                *)
THEOREM PoolTypeCorrect == PoolSpec => []PoolTypeOK
  <1>1. PoolInv => PoolTypeOK
    BY DEF PoolInv
  <1> QED
    BY <1>1, PoolInvariant, PTL

(* A worker whose JobChannel the dispatcher has received is at its select,  *)
(* or has returned from it: no job waits in the dispatcher's hand for one   *)
(* that is busy (Dispatcher.Run, workerLoop's deferred function).           *)
THEOREM HandoffsAreToFree == PoolSpec => []HandoffIsToFree
  <1>1. PoolInv => HandoffIsToFree
    BY DEF PoolInv, Hands, FreeOnce, HandoffIsToFree
  <1> QED
    BY <1>1, PoolInvariant, PTL

(* The pool implements what Delivery takes it for, for any workers, lanes   *)
(* and capacity of Jobqueue: jobs are started in the order they were        *)
(* accepted, each once, through any shutdown, and a worker that had a job   *)
(* is not free again before (DispatchTask, Dispatcher.Run, workerLoop).     *)
THEOREM PoolKeepsOrder == PoolSpec => KeepsOrder
  <1>1. PoolInit => Contract!Init
    BY StartUpOrder DEF PoolInit, Contract!Init, Idle
  <1>2. PoolInv /\ [PoolNext]_poolVars => [Contract!Next]_<<accepted, started, Idle, cancelled>>
    <2> SUFFICES ASSUME PoolInv, [PoolNext]_poolVars
                 PROVE  Contract!Next \/ UNCHANGED <<accepted, started, Idle, cancelled>>
      OBVIOUS
    <2>1. ASSUME NEW l \in Lanes, Serve(l) PROVE Contract!Next \/ UNCHANGED <<accepted, started, Idle, cancelled>>
      <3> DEFINE job == <<l, serve[l].claimed>>
      <3>1. CASE UNCHANGED accepted
        BY <2>1, <3>1 DEF Serve, Claim, Put, ServeReturns, Idle
      <3>2. CASE Put(l) /\ accepted' = Append(accepted, job)
        <4>1. serve[l].claimed \in 1..MaxJobs /\ serve[l].pc = "put"
          BY <3>2 DEF PoolInv, PoolTypeOK, NumbersPassed, Put
        <4>2. job \in JobIds
          BY <4>1 DEF JobIds
        <4>3. \A i \in 1..Len(accepted) : accepted[i] # job
          <5>1. ASSUME NEW i \in 1..Len(accepted), accepted[i] = <<l, serve[l].claimed>> PROVE FALSE
            <6>1. serve[l].claimed < serve[l].claimed
              BY <4>1, <5>1, Zenon DEF PoolInv, NumbersPassed
            <6> QED
              BY <4>1, <6>1
          <5> QED
            BY <5>1
        <4>4. UNCHANGED <<started, Idle, cancelled>>
          BY <3>2 DEF Put, Idle
        <4> QED
          BY <3>2, <4>2, <4>3, <4>4, Zenon DEF Contract!Next, Contract!Accept
      <3> QED
        BY <2>1, <3>1, <3>2 DEF Serve, Claim, Put, ServeReturns
    <2>2. CASE TakeJob \/ DispatcherReturns
      BY <2>2, SlotFacts DEF TakeJob, DispatcherReturns, Idle
    <2>3. CASE TakeWorker
      <3>1. disp'.worker = <<Head(pool)>> /\ disp.worker = <<>> /\ Len(pool') = Len(pool) - 1
        BY <2>3, SlotFacts, HeadTailProperties DEF TakeWorker, PoolInv, Hands
      <3>2. Len(disp'.worker) = 1 /\ Len(disp.worker) = 0
        BY <3>1
      <3>3. Idle' = Idle
        BY <3>1, <3>2, SlotFacts DEF Idle
      <3> QED
        BY <2>3, <3>3 DEF TakeWorker
    <2>4. CASE HandOver
      <3>1. disp'.worker = <<>> /\ disp.worker # <<>> /\ disp.job # <<>> /\ UNCHANGED <<pool, accepted, cancelled>>
        BY <2>4 DEF HandOver, PoolInv, Hands
      <3>2. Len(disp'.worker) = 0 /\ Len(disp.worker) = 1 /\ Len(pool) \in Nat
        BY <3>1, SlotFacts
      <3>3. Idle > 0 /\ Idle' = Idle - 1
        BY <3>1, <3>2 DEF Idle
      <3>4. Len(disp.job) = 1 /\ Len(started) \in Nat /\ Len(jobqueue) \in Nat
        BY <3>1, PoolFacts DEF PoolInv
      <3>5. Len(started) < Len(accepted)
        BY <3>4 DEF PoolInv, InOrder
      <3>6. started' = Append(started, accepted[Len(started) + 1])
        BY <2>4, <3>1 DEF HandOver, PoolInv, InOrder
      <3> QED
        BY <3>1, <3>3, <3>5, <3>6, Zenon DEF Contract!Next, Contract!Start
    <2>5. ASSUME NEW w \in Workers, HandlerDone(w) \/ Offer(w) \/ WorkerReturns(w)
          PROVE  UNCHANGED <<accepted, started, Idle, cancelled>>
      BY <2>5 DEF HandlerDone, Offer, WorkerReturns, Idle
    <2>6. ASSUME NEW w \in Workers, Register(w)
          PROVE  Contract!Next \/ UNCHANGED <<accepted, started, Idle, cancelled>>
      <3>1. cancelled /\ UNCHANGED <<accepted, started, disp, cancelled>>
        BY <2>6 DEF Register, PoolInv, SlotsCounted
      <3>2. CASE UNCHANGED pool
        BY <3>1, <3>2 DEF Idle
      <3>3. CASE pool' = Append(pool, w)
        <4>1. Len(pool') = Len(pool) + 1
          BY <3>3, SlotFacts, AppendProperties
        <4>2. Idle' = Idle + 1
          BY <3>1, <4>1, SlotFacts DEF Idle
        <4>3. Cardinality(Away) # 0
          <5>1. w \in Away
            BY <2>6 DEF Register, Away
          <5>2. IsFiniteSet(Away)
            BY PoolConstants, FS_Subset DEF Away
          <5> QED
            BY <5>1, <5>2, FS_EmptySet
        <4>4. Idle < PoolSize
          BY <4>3, SlotFacts DEF Idle
        <4> QED
          BY <3>1, <4>2, <4>4, Zenon DEF Contract!Next, Contract!Release
      <3> QED
        BY <2>6, <3>2, <3>3 DEF Register
    <2>7. CASE CancelContext
      BY <2>7 DEF CancelContext, Contract!Next, Contract!Stop, Idle
    <2>8. CASE UNCHANGED poolVars
      BY <2>8 DEF poolVars, Idle
    <2> QED
      BY <2>1, <2>2, <2>3, <2>4, <2>5, <2>6, <2>7, <2>8 DEF PoolNext, Dispatcher, WorkerLoop
  <1> QED
    BY <1>1, <1>2, PoolInvariant, PTL DEF PoolSpec, KeepsOrder, Contract!Spec

-----------------------------------------------------------------------------
(***************************************************************************)
(* The reading of a stream.  Its progress is checked by TLC; what is       *)
(* proved is that the entries are in one place and the backoff in range.   *)
(***************************************************************************)

(* ServeTypeOK in three parts *)
Flags == up \in BOOLEAN /\ group \in BOOLEAN /\ tick \in BOOLEAN /\ ctxDone \in BOOLEAN

Entries ==
  /\ unread \in 0..MaxEntries /\ pending \in 0..MaxEntries
  /\ unread + pending <= MaxEntries
  /\ readBackoff \in Backoffs
  /\ outages \in 0..MaxOutages /\ losses \in 0..MaxLosses

Places ==
  /\ reading \in {"select", "wait", "process", "put", "returned"}
  /\ inHand \in 0..Batch
  /\ inHand = 0 <=> reading \notin {"process", "put"}
  /\ queued \in 0..JobqueueCap /\ handovers \in 0..Handovers

(* The backoff doubles within its bounds (nextReadBackoff) *)
LEMMA BackoffInRange ==
  ASSUME NEW current \in Backoffs
  PROVE  NextReadBackoff(current) \in Backoffs
  BY ServeAssumption DEF NextReadBackoff, Backoffs

(* A batch is what there is, up to Count *)
LEMMA BatchInRange ==
  ASSUME NEW n \in Nat
  PROVE  UpTo(n) \in 0..Batch /\ UpTo(n) <= n
  BY ServeAssumption DEF UpTo

(* The loop is at its select with nothing in hand, or at the next entry
   (ProcessJobs) *)
LEMMA ProcessesInPlace ==
  ASSUME Places, NEW n \in 0..Batch, Processes(n),
         queued' \in 0..JobqueueCap, handovers' \in 0..Handovers
  PROVE  Places'
  BY ServeAssumption DEF Places, Processes

(* Type correctness of the loop and its stream: reads, acks and losses leave
   no more entries than were added, a wait is between the bounds of the backoff,
   and the loop reads again only with nothing left in hand (ServeJobs,
   waitBackoff, ProcessJobs) *)
THEOREM ServeTypeCorrect == ServeSpec => []ServeTypeOK
  <1>1. ServeInit => Flags /\ Entries /\ Places
    <2>1. ServeInit => Flags
      BY Zenon DEF ServeInit, Flags
    <2>2. ServeInit => Entries /\ Places
      BY ServeAssumption DEF ServeInit, Entries, Places, Backoffs
    <2> QED
      BY <2>1, <2>2
  <1>2. Flags /\ [ServeNext]_serveVars => Flags'
    BY Zenon DEF Flags, ServeNext, serveVars, redisVars, queueVars, AutoClaim, Read, Process, DispatchTask,
       DispatcherTakes, OtherLanePuts, WaitEnds, Return, Ticks, CancelServe, Add, Acked, Outage, Recovery,
       DataLoss, InitStreams
  <1>3. Entries /\ [ServeNext]_serveVars => Entries'
    <2> SUFFICES ASSUME Entries, [ServeNext]_serveVars
                 PROVE  Entries'
      OBVIOUS
    <2> USE ServeAssumption DEF Entries, redisVars
    <2>1. CASE AutoClaim
      BY <2>1, BackoffInRange DEF AutoClaim, WaitBackoff
    <2>2. CASE Read
      <3>1. 0 \in Backoffs
        BY DEF Backoffs
      <3>2. PICK n \in Nat : n <= unread /\ unread' = unread - n /\ pending' = pending + n
        <4>1. UpTo(unread) \in Nat /\ UpTo(unread) <= unread
          BY BatchInRange
        <4> QED
          BY <2>2, <4>1 DEF Read
      <3> QED
        BY <2>2, <3>1, <3>2 DEF Read
    <2>3. CASE Process \/ DispatchTask
      <3>1. pending' = pending \/ (pending > 0 /\ pending' = pending - 1)
        BY <2>3 DEF Process, DispatchTask, MayAck
      <3>2. UNCHANGED <<unread, readBackoff, outages, losses>>
        BY <2>3 DEF Process, DispatchTask
      <3> QED
        BY <3>1, <3>2
    <2>4. CASE WaitEnds \/ Return \/ Ticks \/ CancelServe \/ DispatcherTakes \/ OtherLanePuts
      BY <2>4 DEF WaitEnds, Return, Ticks, CancelServe, DispatcherTakes, OtherLanePuts
    <2>5. CASE Add \/ Acked
      BY <2>5 DEF Add, Acked
    <2>6. CASE Outage \/ Recovery \/ DataLoss \/ InitStreams
      BY <2>6 DEF Outage, Recovery, DataLoss, InitStreams
    <2>7. CASE UNCHANGED serveVars
      BY <2>7 DEF serveVars
    <2> QED
      BY <2>1, <2>2, <2>3, <2>4, <2>5, <2>6, <2>7 DEF ServeNext
  <1>4. Entries /\ Places /\ [ServeNext]_serveVars => Places'
    <2> SUFFICES ASSUME Entries, Places, [ServeNext]_serveVars
                 PROVE  Places'
      OBVIOUS
    <2>1. queued \in 0..JobqueueCap /\ handovers \in 0..Handovers
      BY DEF Places
    <2>2. CASE AutoClaim
      <3>1. UNCHANGED queueVars
        BY <2>2 DEF AutoClaim
      <3>2. CASE Reachable
        <4>1. PICK n \in 0..UpTo(pending) : Processes(n)
          BY <2>2, <3>2 DEF AutoClaim
        <4>2. n \in 0..Batch
          BY BatchInRange, ServeAssumption DEF Entries
        <4> QED
          BY <2>1, <3>1, <4>1, <4>2, ProcessesInPlace DEF queueVars
      <3>3. CASE ~Reachable
        BY <2>2, <3>1, <3>3 DEF AutoClaim, WaitBackoff, Places, queueVars
      <3> QED
        BY <3>2, <3>3
    <2>3. CASE Read
      <3>1. PICK n \in 0..Batch : Processes(n)
        <4>1. 0 \in 0..Batch /\ UpTo(unread) \in 0..Batch
          BY BatchInRange, ServeAssumption DEF Entries
        <4> QED
          BY <2>3, <4>1 DEF Read
      <3>2. UNCHANGED queueVars
        BY <2>3 DEF Read
      <3> QED
        BY <2>1, <3>1, <3>2, ProcessesInPlace DEF queueVars
    <2>4. CASE Process \/ DispatchTask
      <3>1. inHand - 1 \in 0..Batch
        BY <2>4, ServeAssumption DEF Process, DispatchTask, Places
      <3>2. queued' \in 0..JobqueueCap /\ handovers' \in 0..Handovers
        BY <2>1, <2>4, ServeAssumption DEF Process, DispatchTask, queueVars
      <3>3. CASE Processes(inHand - 1)
        BY <3>1, <3>2, <3>3, ProcessesInPlace
      <3>4. CASE Process /\ reading' = "put" /\ UNCHANGED inHand
        BY <3>2, <3>4 DEF Process, Places
      <3> QED
        BY <2>4, <3>3, <3>4 DEF Process, DispatchTask
    <2>5. CASE WaitEnds \/ Return \/ Ticks \/ CancelServe
      BY <2>5 DEF WaitEnds, Return, Ticks, CancelServe, Places, queueVars
    <2>6. CASE DispatcherTakes \/ OtherLanePuts
      BY <2>6, ServeAssumption DEF DispatcherTakes, OtherLanePuts, Places
    <2>7. CASE UNCHANGED <<reading, inHand, queued, handovers>>
      BY <2>7 DEF Places
    <2> QED
      BY <2>2, <2>3, <2>4, <2>5, <2>6, <2>7
         DEF ServeNext, serveVars, queueVars, Add, Acked, Outage, Recovery, DataLoss, InitStreams
  <1>5. Flags /\ Entries /\ Places => ServeTypeOK
    <2>1. Flags => {up, group, tick, ctxDone} \subseteq BOOLEAN
      BY Zenon DEF Flags
    <2> QED
      BY <2>1 DEF Entries, Places, ServeTypeOK
  <1> QED
    BY <1>1, <1>2, <1>3, <1>4, <1>5, PTL DEF ServeSpec
=============================================================================
