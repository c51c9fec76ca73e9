--------------------------- MODULE DeliveryProofs ---------------------------
(***************************************************************************)
(* What the composed system does to the jobs table, for all constants.     *)
(*                                                                         *)
(* The theorems of JobStoreProofs are about StoreSpec, which asks of its   *)
(* callers that no scheduled row is ever claimed.  Here every step of the  *)
(* system is shown to be a step of StoreNext or to leave the table alone,  *)
(* so that those theorems hold of the system too.  The argument needs that *)
(* nothing in memory or in a stream refers to a row before its promotion,  *)
(* and TokenDiscipline, by which a token that passes Owns was minted.      *)
(***************************************************************************)
EXTENDS Delivery, JobStoreProofs

Early == {"absent", "scheduled"}

(* No sender, entry, consumer or worker knows of job j *)
Unsent(j) ==
  /\ j \notin toSend
  /\ \A k \in EntryIds : entry[j][k] = "none"
  /\ \A p \in Procs, k \in EntryIds : <<j, k>> \notin inbox[p]
  /\ \A c \in held : c.job # j

(* NoScheduledEntry is inductive once it covers rows still to be inserted:  *)
(* the follow-up of a recurring job is scheduled the moment it exists.      *)
NoEarlyEntry == \A j \in Jobs : status[j] \in Early => Unsent(j)

DeliveryInv == TypeOK /\ StoreInv /\ NoEarlyEntry

-----------------------------------------------------------------------------
LEMMA DeliveryInvInit == Init => DeliveryInv
  <1> SUFFICES ASSUME Init PROVE DeliveryInv
    OBVIOUS
  <1>1. StoreInv
    BY StoreInvInit DEF Init
  <1>2. TypeOK
    BY <1>1, DeliveryConstants DEF Init, TypeOK, StoreInv, Copies, Refs
  <1>3. NoEarlyEntry
    BY DEF Init, NoEarlyEntry, Unsent
  <1> QED BY <1>1, <1>2, <1>3 DEF DeliveryInv

(* A worker's settlement or heartbeat that passes Owns carries the token of *)
(* the row's latest claim                                                   *)
LEMMA OwnersAreLatest ==
  ASSUME StoreInv, NEW j \in Jobs, NEW t, Owns(j, t)
  PROVE  t = claims[j] /\ t \in 1..claims[j]
  BY DEF StoreInv, StoreTypeOK, TokenDiscipline, Owns

-----------------------------------------------------------------------------
(* Every step of the system is a step of the table or none *)
LEMMA StoreSteps == DeliveryInv /\ [Next]_vars => [StoreNext]_storeVars
  <1> SUFFICES ASSUME DeliveryInv, [Next]_vars PROVE [StoreNext]_storeVars
    OBVIOUS
  <1>0. TypeOK /\ StoreInv /\ NoEarlyEntry /\ StoreTypeOK
    BY DEF DeliveryInv, TypeOK
  <1>1. CASE Client
    <2> SUFFICES ASSUME NEW j \in Jobs,
                        \/ \E s \in {"pending", "scheduled"}, r \in Series \cup {NoSeries} :
                             Enqueue(j, s, r)
                        \/ Retry(j)
                        \/ Cancel(j)
                 PROVE  StoreNext
      BY <1>1 DEF Client
    <2>1. CASE \E s \in {"pending", "scheduled"}, r \in Series \cup {NoSeries} : Enqueue(j, s, r)
      BY <2>1 DEF Enqueue, StoreNext
    <2>2. CASE Retry(j)
      BY <2>2 DEF Retry, StoreNext
    <2>3. CASE Cancel(j)
      <3>1. CASE CancelJob(j)
        BY <3>1 DEF StoreNext
      <3>2. CASE series[j] # NoSeries /\ \E S \in SUBSET Occurrences(series[j]) :
                                           CancelSeries(series[j], S)
        <4>1. series[j] \in Series /\ SUBSET Occurrences(series[j]) \subseteq SUBSET Jobs
          BY <1>0, <3>2 DEF StoreTypeOK, Occurrences
        <4> QED BY <3>2, <4>1 DEF StoreNext
      <3> QED BY <2>3, <3>1, <3>2 DEF Cancel
    <2> QED BY <2>1, <2>2, <2>3
  <1>2. CASE Senders
    <2>1. CASE \E j \in Jobs : Dispatch(j)
      BY <2>1 DEF Dispatch
    <2>2. ASSUME NEW S \in SUBSET Jobs, SchedulerPromotes(S) \/ SchedulerRetries(S)
                                        \/ ReaperReclaims(S) \/ Retention(S)
          PROVE  StoreNext
      BY <2>2 DEF SchedulerPromotes, SchedulerRetries, ReaperReclaims, Retention, StoreNext
    <2>3. ASSUME NEW S \in SUBSET Jobs, DispatchFails(S) \/ ReaperSweeps(S)
          PROVE  UNCHANGED storeVars
      BY <2>3 DEF DispatchFails, ReaperSweeps
    <2> QED BY <1>2, <2>1, <2>2, <2>3 DEF Senders
  <1>3. CASE Pool
    <2>1. ASSUME NEW p \in Procs, NEW j \in Jobs, NEW k \in EntryIds,
                 ProcessRef(p, j, k) \/ ClaimErrs(p, j, k)
          PROVE  StoreNext \/ UNCHANGED storeVars
      <3>1. status[j] # "scheduled"
        BY <1>0, <2>1 DEF NoEarlyEntry, Early, Unsent, ProcessRef, ClaimErrs, Takes
      <3> QED BY <2>1, <3>1 DEF ProcessRef, ClaimErrs, StoreNext
    <2>2. ASSUME NEW p \in Procs, NEW j \in Jobs, NEW k \in EntryIds,
                 Read(p, j, k) \/ AutoClaim(p, j, k) \/ Crash(p)
          PROVE  UNCHANGED storeVars
      BY <2>2 DEF Read, AutoClaim, Crash
    <2>3. ASSUME NEW c \in held, Beat(c) \/ Settle(c)
          PROVE  StoreNext \/ UNCHANGED storeVars
      <3>1. c.job \in Jobs
        BY <1>0 DEF TypeOK, Copies
      <3>2. \/ UNCHANGED storeVars
            \/ Heartbeat(c.job, c.token) \/ Complete(c.job, c.token) \/ FailOrRetry(c.job, c.token)
        BY <2>3 DEF Beat, Settle
      <3>3. Owns(c.job, c.token) => c.token \in 1..claims[c.job]
        BY <1>0, <3>1, OwnersAreLatest
      <3>4. Heartbeat(c.job, c.token) \/ Complete(c.job, c.token) \/ FailOrRetry(c.job, c.token)
              => Owns(c.job, c.token)
        BY DEF Heartbeat, Complete, SetCompleted, FailOrRetry, SetFailed
      <3> QED BY <3>1, <3>2, <3>3, <3>4 DEF StoreNext
    <2>4. ASSUME NEW c \in held, \/ StartJob(c) \/ Ack(c)
                                 \/ \E outcome \in {"ok", "err"} : HandlerReturns(c, outcome)
          PROVE  UNCHANGED storeVars
      BY <2>4 DEF StartJob, Ack, HandlerReturns
    <2>5. ASSUME NEW p \in Procs, Crash(p) PROVE UNCHANGED storeVars
      BY <2>5 DEF Crash
    <2> QED BY <1>3, <2>1, <2>2, <2>3, <2>4, <2>5 DEF Pool
  <1>4. CASE \E j \in Jobs : TimePasses(j)
    BY <1>4 DEF TimePasses, StoreNext
  <1>5. CASE \E j \in Jobs, k \in EntryIds : LoseEntry(j, k)
    BY <1>5 DEF LoseEntry
  <1>6. CASE UNCHANGED vars
    BY <1>6 DEF vars
  <1> QED BY <1>1, <1>2, <1>3, <1>4, <1>5, <1>6 DEF Next

-----------------------------------------------------------------------------
(* Nothing ever becomes early again: rows start early and leave that state  *)
(* when they are inserted as pending, promoted or cancelled.                *)
LEMMA EarlyWasEarly ==
  ASSUME StoreTypeOK, [StoreNext]_storeVars, NEW j \in Jobs, status'[j] \in Early
  PROVE  status[j] \in Early
  <1> USE DEF StoreTypeOK, JobStatus, Early
  <1>1. ASSUME NEW i \in Jobs, NEW s, NEW r, CreateJob(i, s, r) PROVE status[j] \in Early
    BY <1>1 DEF CreateJob
  <1>2. ASSUME NEW i \in Jobs, RetryJob(i) \/ CancelJob(i) \/ ClaimRunning(i)
        PROVE  status[j] \in Early
    BY <1>2 DEF RetryJob, SetRetried, CancelJob, SetCancelled, SetAll, ClaimRunning, SetRunning
  <1>3. ASSUME NEW i \in Jobs, NEW t, Heartbeat(i, t) \/ Complete(i, t) \/ FailOrRetry(i, t)
        PROVE  status[j] \in Early
    BY <1>3 DEF Heartbeat, Complete, SetCompleted, FailOrRetry, SetFailed
  <1>4. ASSUME NEW i \in Jobs, NotBeforePasses(i) \/ HeartbeatAges(i)
        PROVE  status[j] \in Early
    BY <1>4 DEF NotBeforePasses, HeartbeatAges
  <1>5. ASSUME NEW S \in SUBSET Jobs, NEW r, CancelSeries(r, S) PROVE status[j] \in Early
    BY <1>5 DEF CancelSeries, SetCancelled, SetAll
  <1>6. ASSUME NEW S \in SUBSET Jobs, ClaimStaleRunning(S) \/ DeleteOldJobs(S)
        PROVE  status[j] \in Early
    BY <1>6 DEF ClaimStaleRunning, SetReclaimed, DeleteOldJobs, SetDeleted, Purgeable, SetAll
  <1>7. ASSUME NEW S \in SUBSET Jobs, ClaimDueScheduled(S) PROVE status[j] \in Early
    BY <1>7 DEF ClaimDueScheduled, SetPromoted, Range
  <1>8. ASSUME NEW S \in SUBSET Jobs, ClaimDueRetries(S) PROVE status[j] \in Early
    BY <1>8 DEF ClaimDueRetries, SetDue
  <1>9. CASE UNCHANGED storeVars
    BY <1>9 DEF storeVars
  <1> QED BY <1>1, <1>2, <1>3, <1>4, <1>5, <1>6, <1>7, <1>8, <1>9 DEF StoreNext

(* A member of Copies in a new phase is a member of Copies, of the same job *)
LEMMA ProceedsIs ==
  ASSUME held \subseteq Copies, NEW c \in held,
         NEW phase \in {"queued", "handler", "ok", "err", "ack"}, Proceeds(c, phase)
  PROVE  /\ held' \subseteq Copies
         /\ \A d \in held' : \E e \in held : d.job = e.job
  <1>1. [c EXCEPT !.phase = phase] \in Copies /\ [c EXCEPT !.phase = phase].job = c.job
    BY DEF Copies
  <1> QED BY <1>1 DEF Proceeds

(* A delivered reference is added to the references of its process *)
LEMMA InboxGrows ==
  ASSUME inbox \in [Procs -> SUBSET Refs], NEW p \in Procs, NEW j \in Jobs, NEW k \in EntryIds,
         inbox' = [inbox EXCEPT ![p] = inbox[p] \cup {<<j, k>>}]
  PROVE  inbox' \in [Procs -> SUBSET Refs]
  <1>1. <<j, k>> \in Refs
    BY DEF Refs
  <1> QED BY <1>1

(* An acked entry leaves its slot of the stream empty *)
LEMMA EntryAcked ==
  ASSUME entry \in [Jobs -> [EntryIds -> {"none", "stream", "pel"}]],
         NEW j \in Jobs, NEW k \in EntryIds,
         entry' = [entry EXCEPT ![j][k] = IF @ = "pel" THEN "none" ELSE @]
  PROVE  entry' \in [Jobs -> [EntryIds -> {"none", "stream", "pel"}]]
  OBVIOUS

(* A delivered entry is pending *)
LEMMA EntryDelivered ==
  ASSUME entry \in [Jobs -> [EntryIds -> {"none", "stream", "pel"}]],
         NEW j \in Jobs, NEW k \in EntryIds,
         entry' = [entry EXCEPT ![j][k] = "pel"]
  PROVE  entry' \in [Jobs -> [EntryIds -> {"none", "stream", "pel"}]]
  OBVIOUS

LEMMA TypeNext == DeliveryInv /\ [Next]_vars => TypeOK'
  <1> SUFFICES ASSUME DeliveryInv, [Next]_vars PROVE TypeOK'
    OBVIOUS
  <1>0. StoreTypeOK'
    BY StoreSteps, StoreInvNext DEF DeliveryInv, StoreInv
  <1>t. TypeOK
    BY DEF DeliveryInv
  <1> USE <1>0, <1>t, DeliveryConstants DEF TypeOK, Sends
  <1>1. ASSUME NEW j \in Jobs, NEW s, NEW r, Enqueue(j, s, r) \/ Retry(j) \/ Cancel(j)
        PROVE  TypeOK'
    BY <1>1 DEF Enqueue, Retry, Cancel, queueVars
  <1>2. ASSUME NEW j \in Jobs, Dispatch(j) PROVE TypeOK'
    BY <1>2 DEF Dispatch, storeVars
  <1>3. ASSUME NEW S \in SUBSET Jobs, DispatchFails(S) PROVE TypeOK'
    BY <1>3 DEF DispatchFails, Fault, queueVars
  <1>4. ASSUME NEW S \in SUBSET Jobs, SchedulerPromotes(S) \/ SchedulerRetries(S)
                 \/ ReaperReclaims(S) \/ Retention(S) \/ ReaperSweeps(S)
        PROVE  TypeOK'
    BY <1>4 DEF SchedulerPromotes, SchedulerRetries, ReaperReclaims, Retention,
                ReaperSweeps, queueVars
  <1>5. ASSUME NEW p \in Procs, NEW j \in Jobs, NEW k \in EntryIds, Read(p, j, k) \/ AutoClaim(p, j, k)
        PROVE  TypeOK'
    <2>1. inbox' = [inbox EXCEPT ![p] = inbox[p] \cup {<<j, k>>}]
      BY <1>5 DEF Read, AutoClaim
    <2>2. inbox' \in [Procs -> SUBSET Refs]
      BY <1>5, <1>t, <2>1, InboxGrows
    <2>3. entry \in [Jobs -> [EntryIds -> {"none", "stream", "pel"}]]
      OBVIOUS
    <2>4. entry' = entry \/ entry' = [entry EXCEPT ![j][k] = "pel"]
      BY <1>5 DEF Read, AutoClaim
    <2>5. entry' \in [Jobs -> [EntryIds -> {"none", "stream", "pel"}]]
      BY <2>3, <2>4, EntryDelivered
    <2> QED BY <1>5, <2>2, <2>5 DEF Read, AutoClaim
  <1>6. ASSUME NEW p \in Procs, NEW j \in Jobs, NEW k \in EntryIds, ProcessRef(p, j, k)
        PROVE  TypeOK'
    <2>1. inbox' \in [Procs -> SUBSET Refs]
      BY <1>6 DEF ProcessRef, Takes
    <2>2. CASE ClaimRunning(j)
      <3>1. claims[j] + 1 \in 0..MaxClaims
        BY <2>2, StoreConstants DEF ClaimRunning, SetRunning, StoreTypeOK
      <3>2. [job |-> j, token |-> claims[j] + 1, proc |-> p, entry |-> k, phase |-> "queued"] \in Copies
        BY <3>1 DEF Copies
      <3>3. 0 \in 0..MaxClaims
        BY StoreConstants
      <3>4. [job |-> j, token |-> 0, proc |-> p, entry |-> k, phase |-> "ack"] \in Copies
        BY <3>3 DEF Copies
      <3>5. held' \subseteq Copies
        BY <1>6, <3>2, <3>4 DEF ProcessRef
      <3> QED BY <1>6, <2>1, <3>5 DEF ProcessRef
    <2>3. CASE ~ClaimRunning(j)
      <3>1. 0 \in 0..MaxClaims
        BY StoreConstants
      <3>2. [job |-> j, token |-> 0, proc |-> p, entry |-> k, phase |-> "ack"] \in Copies
        BY <3>1 DEF Copies
      <3>3. held' \subseteq Copies
        BY <1>6, <2>3, <3>2 DEF ProcessRef
      <3> QED BY <1>6, <2>1, <3>3 DEF ProcessRef
    <2> QED BY <2>2, <2>3
  <1>7. ASSUME NEW p \in Procs, NEW j \in Jobs, NEW k \in EntryIds, ClaimErrs(p, j, k)
        PROVE  TypeOK'
    BY <1>7 DEF ClaimErrs, Takes, Fault
  <1>8. ASSUME NEW c \in held, StartJob(c) PROVE TypeOK'
    <2>1. held' \subseteq Copies
      BY <1>8, ProceedsIs DEF StartJob
    <2>2. c.proc \in Procs
      BY DEF Copies
    <2> QED BY <1>8, <2>1, <2>2 DEF StartJob
  <1>9. ASSUME NEW c \in held, Beat(c) PROVE TypeOK'
    BY <1>9 DEF Beat, queueVars
  <1>10. ASSUME NEW c \in held, NEW outcome \in {"ok", "err"}, HandlerReturns(c, outcome)
         PROVE  TypeOK'
    <2>1. held' \subseteq Copies
      BY <1>10, ProceedsIs DEF HandlerReturns
    <2>2. worked' \in [Jobs -> BOOLEAN]
      BY <1>10 DEF HandlerReturns
    <2> QED BY <1>10, <2>1, <2>2 DEF HandlerReturns
  <1>11. ASSUME NEW c \in held, Settle(c) PROVE TypeOK'
    <2>1. held' \subseteq Copies
      BY <1>11, ProceedsIs DEF Settle
    <2> QED BY <1>11, <2>1 DEF Settle, Fault
  <1>12. ASSUME NEW c \in held, Ack(c) PROVE TypeOK'
    <2>1. c.job \in Jobs /\ c.entry \in EntryIds
      BY DEF Copies
    <2>2. entry' \in [Jobs -> [EntryIds -> {"none", "stream", "pel"}]]
      <3>1. CASE entry' = [entry EXCEPT ![c.job][c.entry] = IF @ = "pel" THEN "none" ELSE @]
        BY <2>1, <3>1, EntryAcked
      <3> QED BY <1>12, <3>1 DEF Ack
    <2>3. faults' \in 0..MaxFaults
      BY <1>12 DEF Ack, Fault
    <2>4. held' \subseteq Copies /\ UNCHANGED <<inbox, idle, toSend, worked>>
      BY <1>12 DEF Ack
    <2> QED BY <2>2, <2>3, <2>4
  <1>13. ASSUME NEW p \in Procs, Crash(p) PROVE TypeOK'
    BY <1>13 DEF Crash, Fault
  <1>14. ASSUME NEW j \in Jobs, TimePasses(j) PROVE TypeOK'
    BY <1>14 DEF TimePasses, Fault, queueVars
  <1>15. ASSUME NEW j \in Jobs, NEW k \in EntryIds, LoseEntry(j, k) PROVE TypeOK'
    BY <1>15 DEF LoseEntry, Fault
  <1>16. CASE UNCHANGED vars
    BY <1>16 DEF vars, queueVars
  <1> QED BY <1>1, <1>2, <1>3, <1>4, <1>5, <1>6, <1>7, <1>8, <1>9, <1>10, <1>11, <1>12,
             <1>13, <1>14, <1>15, <1>16 DEF Next, Client, Senders, Pool

-----------------------------------------------------------------------------
(* Nobody refers to a row that is early after the step: it was early before *)
(* (EarlyWasEarly), so nobody referred to it then, and whoever is given a   *)
(* reference in this step is given one to a row that is not early.          *)
LEMMA EarlyNext == DeliveryInv /\ [Next]_vars => NoEarlyEntry'
  <1> SUFFICES ASSUME DeliveryInv, [Next]_vars, NEW j \in Jobs, status'[j] \in Early
               PROVE  Unsent(j)'
    BY DEF NoEarlyEntry
  <1>t. TypeOK /\ StoreTypeOK
    BY DEF DeliveryInv, TypeOK
  <1>e. status[j] \in Early
    BY <1>t, StoreSteps, EarlyWasEarly
  <1>u. Unsent(j)
    BY <1>e DEF DeliveryInv, NoEarlyEntry
  <1> USE <1>t, <1>e, <1>u DEF Unsent, Early, Sends
  <1>1. ASSUME NEW i \in Jobs, NEW s, NEW r, Enqueue(i, s, r) PROVE Unsent(j)'
    BY <1>1 DEF Enqueue, CreateJob, queueVars, StoreTypeOK
  <1>2. ASSUME NEW i \in Jobs, Retry(i) \/ Cancel(i) PROVE Unsent(j)'
    BY <1>2 DEF Retry, RetryJob, SetRetried, Cancel, queueVars
  <1>3. ASSUME NEW i \in Jobs, Dispatch(i) PROVE Unsent(j)'
    BY <1>3 DEF Dispatch, TypeOK
  <1>4. ASSUME NEW S \in SUBSET Jobs, DispatchFails(S) PROVE Unsent(j)'
    BY <1>4 DEF DispatchFails, queueVars
  <1>5. ASSUME NEW S \in SUBSET Jobs, SchedulerPromotes(S) PROVE Unsent(j)'
    <2>1. j \notin S
      BY <1>5 DEF SchedulerPromotes, ClaimDueScheduled, SetPromoted, StoreTypeOK
    <2> QED BY <1>5, <2>1 DEF SchedulerPromotes, queueVars
  <1>6. ASSUME NEW S \in SUBSET Jobs, SchedulerRetries(S) PROVE Unsent(j)'
    BY <1>6 DEF SchedulerRetries, ClaimDueRetries, SetDue, DueRetries, Waiting, queueVars
  <1>7. ASSUME NEW S \in SUBSET Jobs, ReaperReclaims(S) PROVE Unsent(j)'
    BY <1>7 DEF ReaperReclaims, ClaimStaleRunning, SetReclaimed, StaleRunning, queueVars
  <1>8. ASSUME NEW S \in SUBSET Jobs, ReaperSweeps(S) PROVE Unsent(j)'
    BY <1>8 DEF ReaperSweeps, MayBeListed, Waiting, queueVars
  <1>9. ASSUME NEW S \in SUBSET Jobs, Retention(S) PROVE Unsent(j)'
    BY <1>9 DEF Retention, queueVars
  <1>10. ASSUME NEW p \in Procs, NEW i \in Jobs, NEW k \in EntryIds, Read(p, i, k) \/ AutoClaim(p, i, k)
         PROVE  Unsent(j)'
    BY <1>10 DEF Read, AutoClaim, TypeOK
  <1>11. ASSUME NEW p \in Procs, NEW i \in Jobs, NEW k \in EntryIds,
                ProcessRef(p, i, k) \/ ClaimErrs(p, i, k)
         PROVE  Unsent(j)'
    <2>1. i # j
      BY <1>11 DEF ProcessRef, ClaimErrs, Takes
    <2>2. \A q \in Procs, k2 \in EntryIds : <<j, k2>> \notin inbox'[q]
      BY <1>11 DEF ProcessRef, ClaimErrs, Takes, TypeOK
    <2> QED BY <1>11, <2>1, <2>2 DEF ProcessRef, ClaimErrs
  <1>12. ASSUME NEW c \in held, NEW phase \in {"queued", "handler", "ok", "err", "ack"},
                Proceeds(c, phase), UNCHANGED <<entry, inbox, toSend>>
         PROVE  Unsent(j)'
    <2>1. \A d \in held' : \E e \in held : d.job = e.job
      BY <1>12, ProceedsIs DEF TypeOK
    <2> QED BY <1>12, <2>1
  <1>13. ASSUME NEW c \in held, StartJob(c) PROVE Unsent(j)'
    BY <1>12, <1>13 DEF StartJob
  <1>14. ASSUME NEW c \in held, NEW outcome \in {"ok", "err"}, HandlerReturns(c, outcome)
         PROVE  Unsent(j)'
    BY <1>12, <1>14 DEF HandlerReturns
  <1>15. ASSUME NEW c \in held, Settle(c) PROVE Unsent(j)'
    BY <1>12, <1>15 DEF Settle
  <1>16. ASSUME NEW c \in held, Beat(c) PROVE Unsent(j)'
    BY <1>16 DEF Beat, queueVars
  <1>17. ASSUME NEW c \in held, Ack(c) PROVE Unsent(j)'
    BY <1>17 DEF Ack, TypeOK, Copies
  <1>18. ASSUME NEW p \in Procs, Crash(p) PROVE Unsent(j)'
    BY <1>18 DEF Crash, TypeOK
  <1>19. ASSUME NEW i \in Jobs, TimePasses(i) PROVE Unsent(j)'
    BY <1>19 DEF TimePasses, queueVars
  <1>20. ASSUME NEW i \in Jobs, NEW k \in EntryIds, LoseEntry(i, k) PROVE Unsent(j)'
    BY <1>20 DEF LoseEntry, TypeOK
  <1>21. CASE UNCHANGED vars
    BY <1>21 DEF vars, queueVars
  <1> QED BY <1>1, <1>2, <1>3, <1>4, <1>5, <1>6, <1>7, <1>8, <1>9, <1>10, <1>11, <1>13,
             <1>14, <1>15, <1>16, <1>17, <1>18, <1>19, <1>20, <1>21
          DEF Next, Client, Senders, Pool

LEMMA DeliveryInvAlways == Spec => []DeliveryInv
  <1>1. DeliveryInv /\ [Next]_vars => StoreInv'
    BY StoreSteps, StoreInvNext DEF DeliveryInv
  <1>2. DeliveryInv /\ [Next]_vars => DeliveryInv'
    BY <1>1, TypeNext, EarlyNext DEF DeliveryInv
  <1> QED BY <1>2, DeliveryInvInit, PTL DEF Spec

(* Type correctness of the composed system; in particular a pool process    *)
(* never has more free goroutines than it started, nor fewer than none.     *)
THEOREM DeliveryTypeCorrect == Spec => []TypeOK
  BY DeliveryInvAlways, PTL DEF DeliveryInv

(* No entry, delivery, sender or worker ever names a scheduled job          *)
(* (NewEnqueueHandler, ListStalePending, the two ticks).                    *)
THEOREM ScheduledIsUnsent == Spec => []NoScheduledEntry
  <1>1. NoEarlyEntry => NoScheduledEntry
    BY DEF NoEarlyEntry, NoScheduledEntry, Early, Unsent
  <1> QED BY <1>1, DeliveryInvAlways, PTL DEF DeliveryInv

(* The system uses the table only through the operations of JobStore and    *)
(* meets its demand on callers: Spec implements StoreSpec.                  *)
THEOREM ImplementsStore == Spec => KeepsStore
  <1>1. Init => StoreInit
    BY DEF Init
  <1> QED BY <1>1, StoreSteps, DeliveryInvAlways, PTL DEF Spec, KeepsStore, StoreSpec

(* Hence the theorems about the table hold of the running system: tokens,   *)
(* retry budgets, recurring series and settled rows.                        *)
THEOREM SystemKeepsTable ==
  Spec => [](TokenDiscipline /\ RetryBudget /\ OneNextOccurrence) /\ SettledIsFinal
  BY ImplementsStore, TokensDisciplined, BudgetKept, SeriesGoesOn, SettledStaysSettled, PTL
     DEF KeepsStore

-----------------------------------------------------------------------------
(* How rows leave and enter the statuses the next two theorems are about.   *)
(* Only ClaimStaleRunning and the two settlements take a row out of         *)
(* running, and only Complete makes one completed.                          *)
LEMMA RunningRowLeaves ==
  ASSUME StoreTypeOK, [StoreNext]_storeVars, NEW j \in Jobs,
         status[j] = "running", status'[j] # "running"
  PROVE  \/ \E S \in SUBSET Jobs : ClaimStaleRunning(S) /\ j \in S
         \/ \E t \in 1..claims[j] : Complete(j, t) \/ FailOrRetry(j, t)
  <1> USE DEF StoreTypeOK, JobStatus
  <1>1. ASSUME NEW i \in Jobs, NEW s, NEW r, CreateJob(i, s, r) PROVE FALSE
    BY <1>1 DEF CreateJob
  <1>2. ASSUME NEW i \in Jobs, RetryJob(i) \/ CancelJob(i) \/ ClaimRunning(i) PROVE FALSE
    BY <1>2 DEF RetryJob, SetRetried, CancelJob, SetCancelled, SetAll, Cancellable, ClaimRunning, SetRunning
  <1>3. ASSUME NEW i \in Jobs, NEW t \in 1..claims[i],
               Heartbeat(i, t) \/ Complete(i, t) \/ FailOrRetry(i, t)
        PROVE  i = j /\ (Complete(j, t) \/ FailOrRetry(j, t))
    BY <1>3 DEF Heartbeat, Complete, SetCompleted, FailOrRetry, SetFailed
  <1>4. ASSUME NEW i \in Jobs, NotBeforePasses(i) \/ HeartbeatAges(i) PROVE FALSE
    BY <1>4 DEF NotBeforePasses, HeartbeatAges
  <1>5. ASSUME NEW S \in SUBSET Jobs, NEW r, CancelSeries(r, S) PROVE FALSE
    BY <1>5 DEF CancelSeries, SetCancelled, Cancellable, SetAll
  <1>6. ASSUME NEW S \in SUBSET Jobs, ClaimStaleRunning(S) PROVE j \in S
    BY <1>6 DEF ClaimStaleRunning, SetReclaimed, SetAll
  <1>7. ASSUME NEW S \in SUBSET Jobs, DeleteOldJobs(S) \/ ClaimDueRetries(S) PROVE FALSE
    BY <1>7 DEF DeleteOldJobs, SetDeleted, Purgeable, ClaimDueRetries, SetDue, SetAll
  <1>8. ASSUME NEW S \in SUBSET Jobs, ClaimDueScheduled(S) PROVE FALSE
    BY <1>8 DEF ClaimDueScheduled, SetPromoted, Scheduled, Range
  <1>9. CASE UNCHANGED storeVars
    BY <1>9 DEF storeVars
  <1> QED BY <1>1, <1>2, <1>3, <1>4, <1>5, <1>6, <1>7, <1>8, <1>9 DEF StoreNext

LEMMA CompletedWasRunning ==
  ASSUME StoreTypeOK, [StoreNext]_storeVars, NEW j \in Jobs,
         status[j] # "completed", status'[j] = "completed"
  PROVE  status[j] = "running"
  <1> USE DEF StoreTypeOK, JobStatus
  <1>1. ASSUME NEW i \in Jobs, NEW s \in {"pending", "scheduled"}, NEW r, CreateJob(i, s, r)
        PROVE  FALSE
    BY <1>1 DEF CreateJob
  <1>2. ASSUME NEW i \in Jobs, RetryJob(i) \/ CancelJob(i) \/ ClaimRunning(i) PROVE FALSE
    BY <1>2 DEF RetryJob, SetRetried, CancelJob, SetCancelled, SetAll, ClaimRunning, SetRunning
  <1>3. ASSUME NEW i \in Jobs, NEW t, Heartbeat(i, t) \/ Complete(i, t) \/ FailOrRetry(i, t)
        PROVE  status[j] = "running"
    BY <1>3 DEF Heartbeat, Complete, SetCompleted, FailOrRetry, SetFailed, Owns
  <1>4. ASSUME NEW i \in Jobs, NotBeforePasses(i) \/ HeartbeatAges(i) PROVE FALSE
    BY <1>4 DEF NotBeforePasses, HeartbeatAges
  <1>5. ASSUME NEW S \in SUBSET Jobs, NEW r, CancelSeries(r, S) PROVE FALSE
    BY <1>5 DEF CancelSeries, SetCancelled, SetAll
  <1>6. ASSUME NEW S \in SUBSET Jobs,
               ClaimStaleRunning(S) \/ DeleteOldJobs(S) \/ ClaimDueRetries(S)
        PROVE  FALSE
    BY <1>6 DEF ClaimStaleRunning, SetReclaimed, DeleteOldJobs, SetDeleted, Purgeable, ClaimDueRetries, SetDue, SetAll
  <1>7. ASSUME NEW S \in SUBSET Jobs, ClaimDueScheduled(S) PROVE FALSE
    BY <1>7 DEF ClaimDueScheduled, SetPromoted, Range
  <1>8. CASE UNCHANGED storeVars
    BY <1>8 DEF storeVars
  <1> QED BY <1>1, <1>2, <1>3, <1>4, <1>5, <1>6, <1>7, <1>8 DEF StoreNext

-----------------------------------------------------------------------------
(* Which step of the system it was: a reclaim, or the settlement of a copy  *)
(* that holds the row's latest claim.                                       *)
SettledBy(j, c) ==
  /\ c.job = j /\ c.token = claims[j]
  /\ \/ c.phase = "ok" /\ status'[j] = "completed"
     \/ c.phase = "err" /\ status'[j] \in {"pending", "failed"}

LEMMA WhoSettles ==
  ASSUME DeliveryInv, [Next]_vars, NEW j \in Jobs, status[j] = "running", status'[j] # "running"
  PROVE  \/ status'[j] = "pending" /\ heartbeat[j] = "stale"
         \/ \E c \in held : SettledBy(j, c)
  <1>0. TypeOK /\ StoreInv /\ NoEarlyEntry /\ StoreTypeOK
    BY DEF DeliveryInv, TypeOK
  <1> USE <1>0
  <1>1. \/ \E S \in SUBSET Jobs : ClaimStaleRunning(S) /\ j \in S
        \/ \E t \in 1..claims[j] : Complete(j, t) \/ FailOrRetry(j, t)
    BY StoreSteps, RunningRowLeaves
  <1>2. ASSUME NEW S \in SUBSET Jobs, ClaimStaleRunning(S), j \in S
        PROVE  status'[j] = "pending" /\ heartbeat[j] = "stale"
    BY <1>2 DEF ClaimStaleRunning, SetReclaimed, StaleRunning, SetAll, StoreTypeOK
  <1>3. ASSUME NEW t \in 1..claims[j], Complete(j, t) \/ FailOrRetry(j, t)
        PROVE  \/ status'[j] = "pending" /\ heartbeat[j] = "stale"
               \/ \E c \in held : SettledBy(j, c)
    <2> USE DEF StoreTypeOK, JobStatus
    <2>1. ASSUME NEW i \in Jobs, NEW s, NEW r, Enqueue(i, s, r) PROVE FALSE
      BY <2>1 DEF Enqueue, CreateJob
    <2>2. ASSUME NEW i \in Jobs, Retry(i) \/ Cancel(i) PROVE FALSE
      BY <2>2 DEF Retry, RetryJob, SetRetried, Cancel, CancelJob, SetCancelled, SetAll, CancelSeries, SetCancelled, Cancellable, SetAll
    <2>3. ASSUME NEW S \in SUBSET Jobs, ReaperReclaims(S) PROVE ClaimStaleRunning(S) /\ j \in S
      BY <2>3 DEF ReaperReclaims, ClaimStaleRunning, SetReclaimed, SetAll
    <2>4. ASSUME NEW S \in SUBSET Jobs, SchedulerPromotes(S) PROVE FALSE
      BY <2>4 DEF SchedulerPromotes, ClaimDueScheduled, SetPromoted, Scheduled, Range
    <2>5. ASSUME NEW S \in SUBSET Jobs, SchedulerRetries(S) \/ Retention(S) PROVE FALSE
      BY <2>5 DEF SchedulerRetries, ClaimDueRetries, SetDue, Retention, DeleteOldJobs, SetDeleted, Purgeable, SetAll
    <2>6. ASSUME UNCHANGED storeVars PROVE FALSE
      BY <2>6 DEF storeVars
    <2>7. ASSUME NEW i \in Jobs, ClaimRunning(i) \/ NotBeforePasses(i) \/ HeartbeatAges(i) PROVE FALSE
      BY <2>7 DEF ClaimRunning, SetRunning, NotBeforePasses, HeartbeatAges
    <2>8. ASSUME NEW c \in held, Beat(c) PROVE FALSE
      BY <2>8 DEF Beat, Heartbeat
    <2>9. ASSUME NEW c \in held, Settle(c) PROVE SettledBy(j, c)
      <3>1. c.job \in Jobs /\ c.phase \in {"ok", "err"}
        BY <2>9 DEF Settle, TypeOK, Copies
      <3>2. Owns(c.job, c.token)
        BY <2>6, <2>9 DEF Settle
      <3>3. c.token = claims[c.job]
        BY <3>1, <3>2, OwnersAreLatest
      <3>4. IF c.phase = "ok" THEN Complete(c.job, c.token) ELSE FailOrRetry(c.job, c.token)
        BY <2>6, <2>9, <3>2 DEF Settle
      <3>5. CASE c.phase = "ok"
        <4>1. Complete(c.job, c.token)
          BY <3>4, <3>5
        <4>2. c.job = j /\ status'[j] = "completed"
          BY <3>1, <4>1 DEF Complete, SetCompleted
        <4> QED BY <3>3, <3>5, <4>2 DEF SettledBy
      <3>6. CASE c.phase = "err"
        <4>1. FailOrRetry(c.job, c.token)
          BY <3>4, <3>6
        <4>2. c.job = j /\ status'[j] \in {"pending", "failed"}
          BY <3>1, <4>1 DEF FailOrRetry, SetFailed
        <4> QED BY <3>3, <3>6, <4>2 DEF SettledBy
      <3> QED BY <3>1, <3>5, <3>6
    <2>10. ASSUME Client PROVE FALSE
      BY <2>1, <2>2, <2>10 DEF Client
    <2>11. ASSUME Senders PROVE \E S \in SUBSET Jobs : ClaimStaleRunning(S) /\ j \in S
      <3>1. ASSUME NEW S \in SUBSET Jobs, DispatchFails(S) \/ ReaperSweeps(S) PROVE FALSE
        BY <2>6, <3>1 DEF DispatchFails, ReaperSweeps
      <3>2. ASSUME NEW i \in Jobs, Dispatch(i) PROVE FALSE
        BY <2>6, <3>2 DEF Dispatch
      <3> QED BY <2>3, <2>4, <2>5, <2>11, <3>1, <3>2 DEF Senders
    <2>12. ASSUME Pool PROVE \E c \in held : SettledBy(j, c)
      <3>1. ASSUME NEW p \in Procs, NEW i \in Jobs, NEW k \in EntryIds,
                   Read(p, i, k) \/ AutoClaim(p, i, k) \/ ProcessRef(p, i, k) \/ ClaimErrs(p, i, k)
            PROVE  FALSE
        BY <2>6, <2>7, <3>1 DEF Read, AutoClaim, ProcessRef, ClaimErrs
      <3>2. ASSUME NEW c \in held, \/ StartJob(c) \/ Ack(c)
                                   \/ \E outcome \in {"ok", "err"} : HandlerReturns(c, outcome)
            PROVE  FALSE
        BY <2>6, <3>2 DEF StartJob, Ack, HandlerReturns
      <3>3. ASSUME NEW p \in Procs, Crash(p) PROVE FALSE
        BY <2>6, <3>3 DEF Crash
      <3> QED BY <2>8, <2>9, <2>12, <3>1, <3>2, <3>3 DEF Pool
    <2>13. ASSUME NEW i \in Jobs, TimePasses(i) PROVE FALSE
      BY <2>7, <2>13 DEF TimePasses
    <2>14. ASSUME NEW i \in Jobs, NEW k \in EntryIds, LoseEntry(i, k) PROVE FALSE
      BY <2>6, <2>14 DEF LoseEntry
    <2>15. ASSUME UNCHANGED vars PROVE FALSE
      BY <2>6, <2>15 DEF vars
    <2> QED BY <1>2, <2>10, <2>11, <2>12, <2>13, <2>14, <2>15 DEF Next
  <1> QED BY <1>1, <1>2, <1>3

(* A running row is settled by the worker of its latest claim according to  *)
(* what its handler returned, or reclaimed when stale: a worker that lost   *)
(* its claim is fenced off (Complete, FailOrRetry, ClaimStaleRunning).      *)
THEOREM LatestClaimSettles == Spec => OnlyLatestClaimSettles
  <1>1. ASSUME DeliveryInv, [Next]_vars
        PROVE  [\A j \in Jobs : status[j] = "running" /\ status'[j] # "running" =>
                  \/ status'[j] = "pending" /\ heartbeat[j] = "stale"
                  \/ \E c \in held :
                       /\ c.job = j /\ c.token = claims[j]
                       /\ c.phase = IF status'[j] = "completed" THEN "ok" ELSE "err"]_vars
    BY <1>1, WhoSettles DEF SettledBy
  <1> QED BY <1>1, DeliveryInvAlways, PTL DEF Spec, OnlyLatestClaimSettles

-----------------------------------------------------------------------------
(* CompletedWasWorked is inductive together with what "ok" means *)
WorkedInv ==
  /\ \A c \in held : c.phase = "ok" => worked[c.job]
  /\ CompletedWasWorked

(* The history of work is never rewritten, and a copy becomes "ok" only     *)
(* when its handler returned nil                                            *)
LEMMA WorkIsRecorded ==
  ASSUME TypeOK, WorkedInv, [Next]_vars
  PROVE  /\ \A j \in Jobs : worked[j] => worked'[j]
         /\ \A c \in held' : c.phase = "ok" => worked'[c.job]
  <1> DEFINE Recorded == /\ \A j \in Jobs : worked[j] => worked'[j]
                         /\ \A c \in held' : c.phase = "ok" => worked'[c.job]
  <1> SUFFICES Recorded
    OBVIOUS
  <1> USE DEF TypeOK, WorkedInv
  <1>1. ASSUME held' \subseteq held, UNCHANGED worked PROVE Recorded
    BY <1>1
  <1>2. ASSUME NEW c \in held, NEW phase \in {"handler", "ack"}, Proceeds(c, phase), UNCHANGED worked
        PROVE  Recorded
    <2>1. [c EXCEPT !.phase = phase].phase = phase
      BY DEF Copies
    <2> QED BY <1>2, <2>1 DEF Proceeds
  <1>3. ASSUME NEW c \in held, NEW outcome \in {"ok", "err"}, HandlerReturns(c, outcome)
        PROVE  Recorded
    <2>1. /\ [c EXCEPT !.phase = outcome].phase = outcome
          /\ [c EXCEPT !.phase = outcome].job = c.job
          /\ c.job \in Jobs
      BY DEF Copies
    <2>2. \A j \in Jobs : worked[j] => worked'[j]
      BY <1>3 DEF HandlerReturns
    <2>3. outcome = "ok" => worked'[c.job]
      BY <1>3, <2>1 DEF HandlerReturns
    <2>4. \A d \in held : d.job \in Jobs
      BY DEF Copies
    <2> QED BY <1>3, <2>1, <2>2, <2>3, <2>4 DEF HandlerReturns, Proceeds
  <1>4. ASSUME NEW p \in Procs, NEW j \in Jobs, NEW k \in EntryIds, ProcessRef(p, j, k)
        PROVE  Recorded
    BY <1>4 DEF ProcessRef
  <1>5. ASSUME NEW p \in Procs, NEW j \in Jobs, NEW k \in EntryIds,
               Read(p, j, k) \/ AutoClaim(p, j, k) \/ ClaimErrs(p, j, k)
        PROVE  Recorded
    BY <1>1, <1>5 DEF Read, AutoClaim, ClaimErrs
  <1>6. ASSUME NEW c \in held, StartJob(c) \/ Settle(c) PROVE Recorded
    BY <1>2, <1>6 DEF StartJob, Settle
  <1>7. ASSUME NEW c \in held, Beat(c) \/ Ack(c) PROVE Recorded
    BY <1>1, <1>7 DEF Beat, Ack, queueVars
  <1>8. ASSUME NEW p \in Procs, Crash(p) PROVE Recorded
    BY <1>1, <1>8 DEF Crash
  <1>9. CASE Client
    BY <1>1, <1>9 DEF Client, Enqueue, Retry, Cancel, queueVars
  <1>10. CASE Senders
    BY <1>1, <1>10 DEF Senders, Dispatch, DispatchFails, SchedulerPromotes, SchedulerRetries,
                       ReaperReclaims, ReaperSweeps, Retention, queueVars
  <1>11. CASE \/ \E j \in Jobs : TimePasses(j)
              \/ \E j \in Jobs, k \in EntryIds : LoseEntry(j, k)
              \/ UNCHANGED vars
    BY <1>1, <1>11 DEF TimePasses, LoseEntry, vars, queueVars
  <1> HIDE DEF Recorded
  <1> QED BY <1>3, <1>4, <1>5, <1>6, <1>7, <1>8, <1>9, <1>10, <1>11 DEF Next, Pool

LEMMA WorkedNext == DeliveryInv /\ WorkedInv /\ [Next]_vars => WorkedInv'
  <1> SUFFICES ASSUME DeliveryInv, WorkedInv, [Next]_vars PROVE WorkedInv'
    OBVIOUS
  <1>1. TypeOK /\ StoreTypeOK
    BY DEF DeliveryInv, TypeOK
  <1>2. /\ \A j \in Jobs : worked[j] => worked'[j]
        /\ \A c \in held' : c.phase = "ok" => worked'[c.job]
    BY <1>1, WorkIsRecorded
  <1>3. ASSUME NEW j \in Jobs, status'[j] = "completed" PROVE worked'[j]
    <2>1. CASE status[j] = "completed"
      BY <1>2, <2>1 DEF WorkedInv, CompletedWasWorked
    <2>2. CASE status[j] # "completed"
      <3>1. status[j] = "running"
        BY <1>1, <1>3, <2>2, StoreSteps, CompletedWasRunning
      <3>2. PICK c \in held : SettledBy(j, c)
        BY <1>3, <3>1, WhoSettles
      <3>3. c.job = j /\ c.phase = "ok"
        BY <1>3, <3>2 DEF SettledBy
      <3> QED BY <1>2, <3>3 DEF WorkedInv
    <2> QED BY <2>1, <2>2
  <1> QED BY <1>2, <1>3 DEF WorkedInv, CompletedWasWorked

LEMMA WorkedInvAlways == Spec => []WorkedInv
  <1>1. Init => WorkedInv
    BY DEF Init, StoreInit, WorkedInv, CompletedWasWorked
  <1> QED BY <1>1, WorkedNext, DeliveryInvAlways, PTL DEF Spec

(* A job is completed only if a handler returned nil for it (Settle, which  *)
(* is workerLoop's choice between Complete and failJob).                    *)
THEOREM CompletedIsTrue == Spec => []CompletedWasWorked
  BY WorkedInvAlways, PTL DEF WorkedInv

-----------------------------------------------------------------------------
(* The statuses a row can move to from each status *)
Successors(st) ==
  CASE st = "absent" -> {"pending", "scheduled"}
    [] st = "scheduled" -> {"pending", "cancelled"}
    [] st \in Waiting -> {"running", "cancelled"}
    [] st = "running" -> {"pending", "completed", "failed"}
    [] st = "failed" -> {"pending"}
    [] st \in {"completed", "cancelled"} -> {"deleted"}
    [] OTHER -> {}

LEMMA StatusMoves ==
  ASSUME StoreTypeOK, [StoreNext]_storeVars, NEW j \in Jobs
  PROVE  status'[j] = status[j] \/ status'[j] \in Successors(status[j])
  <1> DEFINE Moves == status'[j] = status[j] \/ status'[j] \in Successors(status[j])
  <1> SUFFICES Moves
    OBVIOUS
  <1> USE DEF StoreTypeOK, JobStatus, Successors, Waiting
  <1>1. ASSUME NEW i \in Jobs, NEW s, NEW r, CreateJob(i, s, r) PROVE Moves
    BY <1>1 DEF CreateJob
  <1>2. ASSUME NEW i \in Jobs, RetryJob(i) \/ CancelJob(i) PROVE Moves
    BY <1>2 DEF RetryJob, SetRetried, CancelJob, SetCancelled, SetAll, Cancellable
  <1>3. ASSUME NEW i \in Jobs, status[i] # "scheduled" /\ ClaimRunning(i) PROVE Moves
    BY <1>3 DEF ClaimRunning, SetRunning, CanClaim, Claimable
  <1>4. ASSUME NEW i \in Jobs, NEW t, Heartbeat(i, t) \/ Complete(i, t) \/ FailOrRetry(i, t)
        PROVE  Moves
    BY <1>4 DEF Heartbeat, Complete, SetCompleted, FailOrRetry, SetFailed, Owns
  <1>5. ASSUME NEW i \in Jobs, NotBeforePasses(i) \/ HeartbeatAges(i) PROVE Moves
    BY <1>5 DEF NotBeforePasses, HeartbeatAges
  <1>6. ASSUME NEW S \in SUBSET Jobs, NEW r, CancelSeries(r, S) PROVE Moves
    BY <1>6 DEF CancelSeries, SetCancelled, Cancellable, SetAll
  <1>7. ASSUME NEW S \in SUBSET Jobs, ClaimStaleRunning(S) PROVE Moves
    BY <1>7 DEF ClaimStaleRunning, SetReclaimed, StaleRunning, SetAll
  <1>8. ASSUME NEW S \in SUBSET Jobs, DeleteOldJobs(S) \/ ClaimDueRetries(S) PROVE Moves
    BY <1>8 DEF DeleteOldJobs, SetDeleted, Purgeable, ClaimDueRetries, SetDue, SetAll
  <1>9. ASSUME NEW S \in SUBSET Jobs, ClaimDueScheduled(S) PROVE Moves
    BY <1>9 DEF ClaimDueScheduled, SetPromoted, Scheduled, Range
  <1>10. CASE UNCHANGED storeVars
    BY <1>10 DEF storeVars
  <1> HIDE DEF Moves
  <1> QED BY <1>1, <1>2, <1>3, <1>4, <1>5, <1>6, <1>7, <1>8, <1>9, <1>10 DEF StoreNext

(* Work is only ever recorded for a job that was submitted *)
LEMMA WorkNeedsAJob ==
  ASSUME DeliveryInv, WorkedInv, [Next]_vars, NEW j \in Jobs, worked'[j] # worked[j]
  PROVE  status[j] # "absent" /\ worked'[j]
  <1>1. TypeOK /\ NoEarlyEntry
    BY DEF DeliveryInv
  <1>2. worked[j] => worked'[j]
    BY <1>1, WorkIsRecorded
  <1>3. worked[j] \in BOOLEAN /\ worked'[j] \in BOOLEAN
    BY <1>1, TypeNext DEF TypeOK
  <1>4. \E c \in held : c.job = j
    <2>1. \E c \in held, outcome \in {"ok", "err"} : HandlerReturns(c, outcome)
      BY DEF Next, vars, queueVars, Client, Enqueue, Retry, Cancel, Senders, Dispatch,
             DispatchFails, SchedulerPromotes, SchedulerRetries, ReaperReclaims, ReaperSweeps,
             Retention, Pool, Read, AutoClaim, ProcessRef, ClaimErrs, StartJob, Beat, Settle,
             Ack, Crash, TimePasses, LoseEntry
    <2> QED BY <1>1, <2>1 DEF HandlerReturns, TypeOK
  <1> QED BY <1>1, <1>2, <1>3, <1>4 DEF NoEarlyEntry, Early, Unsent

(* The system implements the contract with the owners of the jobs: every    *)
(* step of API, scheduler, reaper, worker, crash or loss moves each job as  *)
(* JobContract allows, or not at all.                                       *)
THEOREM ImplementsContract == Spec => KeepsContract
  <1> DEFINE view == [j \in Jobs |-> OwnersView(status[j])]
  <1>1. Init => Contract!Init
    <2>1. OwnersView("absent") = "new"
      BY DEF OwnersView, Claimable
    <2> QED BY <2>1 DEF Init, StoreInit, Contract!Init
  <1>2. ASSUME DeliveryInv, WorkedInv, WorkedInv', DeliveryInv', [Next]_vars
        PROVE  Contract!Next
    <2>1. /\ status \in [Jobs -> JobStatus] /\ status' \in [Jobs -> JobStatus]
          /\ worked' \in [Jobs -> BOOLEAN] /\ worked \in [Jobs -> BOOLEAN]
          /\ StoreTypeOK
      BY <1>2 DEF DeliveryInv, TypeOK, StoreTypeOK
    <2>2. view' \in [Jobs -> Contract!States]
      BY <2>1 DEF OwnersView, Contract!States, JobStatus, Claimable
    <2>3. ASSUME NEW j \in Jobs PROVE Contract!JobStep(j)
      <3>1. status'[j] = status[j] \/ status'[j] \in Successors(status[j])
        BY <1>2, <2>1, StoreSteps, StatusMoves
      <3>2. status[j] = "running" /\ status'[j] = "completed" => worked[j]
        BY <1>2, WhoSettles DEF SettledBy, WorkedInv
      <3>3. worked'[j] # worked[j] => status[j] # "absent" /\ worked'[j]
        BY <1>2, WorkNeedsAJob
      <3>4. worked[j] => worked'[j]
        BY <1>2, WorkIsRecorded DEF DeliveryInv
      <3>5. view[j] = OwnersView(status[j]) /\ view'[j] = OwnersView(status'[j])
        OBVIOUS
      <3>6. \/ view'[j] = view[j]
            \/ Contract!Submit(j) \/ Contract!Begin(j) \/ Contract!GiveBack(j) \/ Contract!Done(j)
            \/ Contract!GiveUp(j) \/ Contract!Replay(j) \/ Contract!Cancel(j) \/ Contract!Purge(j)
        BY <2>1, <3>1, <3>2, <3>5
           DEF Successors, OwnersView, JobStatus, Claimable, Waiting, Contract!Moves,
               Contract!Submit, Contract!Begin, Contract!GiveBack, Contract!Done,
               Contract!GiveUp, Contract!Replay, Contract!Cancel, Contract!Purge
      <3>7. worked'[j] = worked[j] \/ Contract!Work(j)
        BY <2>1, <3>3, <3>5 DEF Contract!Work, OwnersView, JobStatus, Claimable
      <3> QED BY <3>6, <3>7 DEF Contract!JobStep
    <2> QED BY <2>1, <2>2, <2>3 DEF Contract!Next
  <1> QED BY <1>1, <1>2, WorkedInvAlways, DeliveryInvAlways, PTL DEF Spec, KeepsContract, Contract!Spec

-----------------------------------------------------------------------------
(***************************************************************************)
(* Workers side by side.  Whatever happens, no two workers have a job by   *)
(* the same claim, so of all that work at it one at most can settle it.    *)
(* Until the first fault each of them holds its row, with a heartbeat that *)
(* is refreshed, and then there is only one.                               *)
(***************************************************************************)
Works(c) == c.phase # "ack"

(* The claim of a worker was made, and by it alone *)
ClaimsApart ==
  /\ \A c \in held : Works(c) => c.token \in 1..claims[c.job]
  /\ \A c, d \in held : c.job = d.job /\ c.token = d.token /\ Works(c) /\ Works(d) => c = d

(* A row that a worker holds and the reaper leaves alone *)
Kept(j, t) == Owns(j, t) /\ heartbeat[j] = "fresh"

FaultlessKeep == faults = MaxFaults => \A c \in held : Works(c) => Kept(c.job, c.token)

(* No step takes claims back *)
LEMMA ClaimsGrow ==
  ASSUME StoreTypeOK, [StoreNext]_storeVars, NEW j \in Jobs
  PROVE  claims[j] \in Nat /\ claims'[j] \in Nat /\ claims[j] <= claims'[j]
  <1> DEFINE Grows == claims'[j] \in {claims[j], claims[j] + 1}
  <1> USE DEF StoreTypeOK
  <1>1. ASSUME NEW i \in Jobs, NEW s, NEW r, CreateJob(i, s, r) PROVE Grows
    BY <1>1 DEF CreateJob
  <1>2. ASSUME NEW i \in Jobs, RetryJob(i) \/ CancelJob(i) PROVE Grows
    BY <1>2 DEF RetryJob, SetRetried, CancelJob, SetCancelled
  <1>3. ASSUME NEW i \in Jobs, status[i] # "scheduled" /\ ClaimRunning(i) PROVE Grows
    BY <1>3 DEF ClaimRunning, SetRunning
  <1>4. ASSUME NEW i \in Jobs, NEW t, Heartbeat(i, t) \/ Complete(i, t) \/ FailOrRetry(i, t)
        PROVE  Grows
    BY <1>4 DEF Heartbeat, Complete, SetCompleted, FailOrRetry, SetFailed
  <1>5. ASSUME NEW i \in Jobs, NotBeforePasses(i) \/ HeartbeatAges(i) PROVE Grows
    BY <1>5 DEF NotBeforePasses, HeartbeatAges
  <1>6. ASSUME NEW S \in SUBSET Jobs, NEW r, CancelSeries(r, S) PROVE Grows
    BY <1>6 DEF CancelSeries, SetCancelled
  <1>7. ASSUME NEW S \in SUBSET Jobs, ClaimStaleRunning(S) \/ ClaimDueScheduled(S) PROVE Grows
    BY <1>7 DEF ClaimStaleRunning, SetReclaimed, ClaimDueScheduled, SetPromoted
  <1>8. ASSUME NEW S \in SUBSET Jobs, DeleteOldJobs(S) \/ ClaimDueRetries(S) PROVE Grows
    BY <1>8 DEF DeleteOldJobs, SetDeleted, ClaimDueRetries, SetDue
  <1>9. ASSUME UNCHANGED storeVars PROVE Grows
    BY <1>9 DEF storeVars
  <1>10. claims[j] \in Nat
    OBVIOUS
  <1> HIDE DEF Grows, StoreTypeOK
  <1>11. Grows
    BY <1>1, <1>2, <1>3, <1>4, <1>5, <1>6, <1>7, <1>8, <1>9 DEF StoreNext
  <1> QED BY <1>10, <1>11 DEF Grows

(* No operation but a settlement and the clock moves a running row whose    *)
(* heartbeat is fresh                                                       *)
Untouched(j) == status'[j] = "running" /\ claimToken'[j] = claimToken[j] /\ heartbeat'[j] = "fresh"

LEMMA RunningIsLeft ==
  ASSUME StoreTypeOK, NEW j \in Jobs, status[j] = "running", heartbeat[j] = "fresh",
         \/ UNCHANGED storeVars
         \/ \E i \in Jobs : \/ \E s \in {"pending", "scheduled"}, r \in Series \cup {NoSeries} : CreateJob(i, s, r)
                           \/ RetryJob(i) \/ CancelJob(i) \/ ClaimRunning(i) \/ NotBeforePasses(i)
                           \/ \E t \in Nat : Heartbeat(i, t)
         \/ \E S \in SUBSET Jobs : \/ \E r : CancelSeries(r, S)
                                  \/ ClaimStaleRunning(S) \/ ClaimDueScheduled(S) \/ ClaimDueRetries(S)
                                  \/ DeleteOldJobs(S)
  PROVE  Untouched(j)
  <1> USE DEF StoreTypeOK, JobStatus, Untouched
  <1>1. CASE UNCHANGED storeVars
    BY <1>1 DEF storeVars
  <1>2. ASSUME NEW i \in Jobs, NEW s, NEW r, CreateJob(i, s, r) PROVE Untouched(j)
    BY <1>2 DEF CreateJob
  <1>3. ASSUME NEW i \in Jobs, RetryJob(i) \/ CancelJob(i) \/ ClaimRunning(i) PROVE Untouched(j)
    BY <1>3 DEF RetryJob, SetRetried, CancelJob, SetCancelled, SetAll, Cancellable, ClaimRunning, CanClaim,
                Claimable, SetRunning
  <1>4. ASSUME NEW i \in Jobs, NEW t, NotBeforePasses(i) \/ Heartbeat(i, t) PROVE Untouched(j)
    BY <1>4 DEF NotBeforePasses, Heartbeat
  <1>5. ASSUME NEW S \in SUBSET Jobs, NEW r, CancelSeries(r, S) PROVE Untouched(j)
    BY <1>5 DEF CancelSeries, SetCancelled, Cancellable, SetAll
  <1>6. ASSUME NEW S \in SUBSET Jobs, ClaimStaleRunning(S) PROVE Untouched(j)
    BY <1>6 DEF ClaimStaleRunning, StaleRunning, SetReclaimed, SetAll
  <1>7. ASSUME NEW S \in SUBSET Jobs, ClaimDueRetries(S) \/ DeleteOldJobs(S) PROVE Untouched(j)
    BY <1>7 DEF ClaimDueRetries, SetDue, DeleteOldJobs, SetDeleted, Purgeable, SetAll
  <1>8. ASSUME NEW S \in SUBSET Jobs, ClaimDueScheduled(S) PROVE Untouched(j)
    BY <1>8 DEF ClaimDueScheduled, SetPromoted, Scheduled, Range
  <1> QED BY <1>1, <1>2, <1>3, <1>4, <1>5, <1>6, <1>7, <1>8

(* A copy that changes its phase keeps its job and its claim *)
LEMMA ProceedsKeeps ==
  ASSUME held \subseteq Copies, NEW c \in held, NEW phase, Works(c), Proceeds(c, phase),
         NEW d \in held', d \notin held \/ d = c
  PROVE  d = [c EXCEPT !.phase = phase] /\ d.job = c.job /\ d.token = c.token
  BY DEF Proceeds, Copies

LEMMA ApartNext ==
  ASSUME DeliveryInv, ClaimsApart, [Next]_vars
  PROVE  ClaimsApart'
  <1>1. TypeOK /\ StoreTypeOK /\ [StoreNext]_storeVars
    BY StoreSteps DEF DeliveryInv, TypeOK
  <1>2. \A c \in held : c.job \in Jobs /\ c.token \in Nat
    BY <1>1 DEF TypeOK, Copies
  <1>3. \A c \in held : Works(c) => c.token \in 1..claims'[c.job]
    <2> SUFFICES ASSUME NEW c \in held, Works(c) PROVE c.token \in 1..claims'[c.job]
      OBVIOUS
    <2>1. /\ claims[c.job] \in Nat /\ claims'[c.job] \in Nat
          /\ claims[c.job] <= claims'[c.job]
      BY <1>1, <1>2, ClaimsGrow
    <2> QED BY <1>2, <2>1 DEF ClaimsApart
  <1>4. ASSUME held' \subseteq held PROVE ClaimsApart'
    BY <1>3, <1>4 DEF ClaimsApart, Works
  <1>5. ASSUME NEW c \in held, NEW phase, Works(c), Proceeds(c, phase) PROVE ClaimsApart'
    <2>1. \A d \in held' : \/ d \in held /\ d # c
                           \/ d = [c EXCEPT !.phase = phase] /\ d.job = c.job /\ d.token = c.token
      <3>1. \A d \in held' : d \notin held \/ d = c \/ (d \in held /\ d # c)
        OBVIOUS
      <3> QED BY <1>1, <1>5, <3>1, ProceedsKeeps DEF TypeOK
    <2>2. \A d \in held' : Works(d) => d.token \in 1..claims'[d.job]
      BY <1>3, <1>5, <2>1
    <2>3. ASSUME NEW d \in held', NEW e \in held', d.job = e.job, d.token = e.token, Works(d), Works(e)
          PROVE  d = e
      BY <1>5, <2>1, <2>3 DEF ClaimsApart
    <2> QED BY <2>2, <2>3 DEF ClaimsApart, Works
  <1>6. ASSUME NEW p \in Procs, NEW j \in Jobs, NEW k \in EntryIds, ProcessRef(p, j, k)
        PROVE  ClaimsApart'
    <2>1. CASE /\ ClaimRunning(j)
               /\ held' = held \cup {[job |-> j, token |-> claims[j] + 1, proc |-> p,
                                     entry |-> k, phase |-> "queued"]}
      <3> DEFINE new == [job |-> j, token |-> claims[j] + 1, proc |-> p, entry |-> k, phase |-> "queued"]
      <3>1. claims[j] \in Nat /\ claims'[j] = claims[j] + 1
        BY <1>1, <2>1 DEF ClaimRunning, SetRunning, StoreTypeOK
      <3>2. new.job = j /\ new.token = claims[j] + 1
        OBVIOUS
      <3>3. \A c \in held : Works(c) /\ c.job = j => c.token # claims[j] + 1
        BY <1>2, <3>1 DEF ClaimsApart
      <3>4. held' = held \cup {new}
        BY <2>1
      <3> HIDE DEF new
      <3>5. \A d \in held' : Works(d) => d.token \in 1..claims'[d.job]
        BY <1>3, <3>1, <3>2, <3>4
      <3>6. \A d, e \in held' : d.job = e.job /\ d.token = e.token /\ Works(d) /\ Works(e) => d = e
        BY <3>2, <3>3, <3>4 DEF ClaimsApart
      <3> QED BY <3>5, <3>6 DEF ClaimsApart, Works
    <2>2. CASE held' = held \cup {[job |-> j, token |-> 0, proc |-> p, entry |-> k, phase |-> "ack"]}
      <3>1. \A d \in held' : Works(d) => d \in held
        BY <2>2 DEF Works
      <3> QED BY <1>3, <3>1 DEF ClaimsApart, Works
    <2> QED BY <1>6, <2>1, <2>2 DEF ProcessRef
  <1>7. ASSUME NEW p \in Procs, NEW j \in Jobs, NEW k \in EntryIds,
               Read(p, j, k) \/ AutoClaim(p, j, k) \/ ClaimErrs(p, j, k)
        PROVE  ClaimsApart'
    BY <1>4, <1>7 DEF Read, AutoClaim, ClaimErrs
  <1>8. ASSUME NEW c \in held, StartJob(c) \/ Settle(c) PROVE ClaimsApart'
    BY <1>5, <1>8 DEF StartJob, Settle, Works
  <1>9. ASSUME NEW c \in held, NEW outcome \in {"ok", "err"}, HandlerReturns(c, outcome)
        PROVE  ClaimsApart'
    BY <1>5, <1>9 DEF HandlerReturns, Works
  <1>10. ASSUME NEW c \in held, Beat(c) \/ Ack(c) PROVE ClaimsApart'
    BY <1>4, <1>10 DEF Beat, Ack, queueVars
  <1>11. ASSUME NEW p \in Procs, Crash(p) PROVE ClaimsApart'
    BY <1>4, <1>11 DEF Crash
  <1>12. ASSUME Client PROVE ClaimsApart'
    BY <1>4, <1>12 DEF Client, Enqueue, Retry, Cancel, queueVars
  <1>13. ASSUME Senders PROVE ClaimsApart'
    BY <1>4, <1>13 DEF Senders, Dispatch, DispatchFails, SchedulerPromotes, SchedulerRetries,
                       ReaperReclaims, ReaperSweeps, Retention, queueVars
  <1>14. ASSUME \/ \E j \in Jobs : TimePasses(j)
                \/ \E j \in Jobs, k \in EntryIds : LoseEntry(j, k)
                \/ UNCHANGED vars
         PROVE  ClaimsApart'
    BY <1>4, <1>14 DEF TimePasses, LoseEntry, vars, queueVars
  <1> QED BY <1>6, <1>7, <1>8, <1>9, <1>10, <1>11, <1>12, <1>13, <1>14 DEF Next, Pool

(* Faults only grow fewer, and a step with a fault is not faultless *)
LEMMA FaultsRunOut ==
  ASSUME TypeOK, [Next]_vars, faults' = MaxFaults
  PROVE  faults = MaxFaults /\ ~Fault
  <1>1. faults \in Nat /\ faults <= MaxFaults
    BY DeliveryConstants DEF TypeOK
  <1>2. faults' = faults \/ Fault
    BY DEF Next, vars, queueVars, Client, Enqueue, Retry, Cancel, Senders, Dispatch, DispatchFails,
           SchedulerPromotes, SchedulerRetries, ReaperReclaims, ReaperSweeps, Retention, Pool, Read,
           AutoClaim, ProcessRef, ClaimErrs, StartJob, Beat, HandlerReturns, Settle, Ack, Crash,
           TimePasses, LoseEntry
  <1> QED BY <1>1, <1>2, DeliveryConstants DEF Fault

LEMMA FaultlessNext ==
  ASSUME ~SlowQueue, DeliveryInv, ClaimsApart, FaultlessKeep, [Next]_vars
  PROVE  FaultlessKeep'
  <1> DEFINE Safe(c) == Kept(c.job, c.token)'
  <1> SUFFICES ASSUME faults' = MaxFaults
               PROVE  \A d \in held' : Works(d) => Safe(d)
    BY DEF FaultlessKeep, Works
  <1>1. TypeOK /\ StoreTypeOK /\ StoreInv
    BY DEF DeliveryInv, TypeOK
  <1>2. faults = MaxFaults /\ ~Fault
    BY <1>1, FaultsRunOut
  <1>3. \A c \in held : Works(c) => Kept(c.job, c.token)
    BY <1>2 DEF FaultlessKeep
  <1>4. \A c \in held : c \in Copies /\ c.job \in Jobs /\ c.token \in Nat
    BY <1>1 DEF TypeOK, Copies
  <1>5. ASSUME NEW c \in held, Works(c), Untouched(c.job) PROVE Safe(c)
    BY <1>3, <1>5 DEF Kept, Owns, Untouched
  <1> DEFINE Kind == 
         \/ UNCHANGED storeVars
         \/ \E i \in Jobs : \/ \E s \in {"pending", "scheduled"}, r \in Series \cup {NoSeries} : CreateJob(i, s, r)
                           \/ RetryJob(i) \/ CancelJob(i) \/ ClaimRunning(i) \/ NotBeforePasses(i)
                           \/ \E t \in Nat : Heartbeat(i, t)
         \/ \E S \in SUBSET Jobs : \/ \E r : CancelSeries(r, S)
                                  \/ ClaimStaleRunning(S) \/ ClaimDueScheduled(S) \/ ClaimDueRetries(S)
                                  \/ DeleteOldJobs(S)
  <1>6. ASSUME Kind, NEW c \in held, Works(c) PROVE Safe(c)
    <2>1. status[c.job] = "running" /\ heartbeat[c.job] = "fresh"
      BY <1>3, <1>6 DEF Kept, Owns
    <2>2. Untouched(c.job)
      BY <1>1, <1>4, <1>6, <2>1, RunningIsLeft
    <2> QED BY <1>5, <1>6, <2>2
  <1> HIDE DEF Safe
  <1>7. ASSUME Kind, held' \subseteq held PROVE \A d \in held' : Works(d) => Safe(d)
    BY <1>6, <1>7
  <1>8. ASSUME UNCHANGED storeVars, NEW c \in held, NEW phase, Works(c), Proceeds(c, phase)
        PROVE  \A d \in held' : Works(d) => Safe(d)
    <2>1. \A d \in held : Works(d) => Safe(d)
      BY <1>6, <1>8
    <2>2. \A d \in held' : d \in held \/ (d.job = c.job /\ d.token = c.token)
      BY <1>1, <1>8, ProceedsKeeps DEF TypeOK
    <2> QED BY <1>8, <2>1, <2>2 DEF Safe
  <1>9. ASSUME NEW p \in Procs, NEW j \in Jobs, NEW k \in EntryIds, ProcessRef(p, j, k)
        PROVE  \A d \in held' : Works(d) => Safe(d)
    <2>1. CASE /\ ClaimRunning(j)
               /\ held' = held \cup {[job |-> j, token |-> claims[j] + 1, proc |-> p,
                                     entry |-> k, phase |-> "queued"]}
      <3> DEFINE new == [job |-> j, token |-> claims[j] + 1, proc |-> p, entry |-> k, phase |-> "queued"]
      <3>1. /\ status'[j] = "running" /\ heartbeat'[j] = "fresh"
            /\ claimToken'[j] = claims[j] + 1
        BY <1>1, <2>1 DEF ClaimRunning, SetRunning, StoreTypeOK
      <3>2. \A d \in held : Works(d) => Safe(d)
        BY <1>6, <2>1
      <3>3. new.job = j /\ new.token = claims[j] + 1 /\ held' = held \cup {new}
        BY <2>1
      <3> HIDE DEF new
      <3> QED BY <3>1, <3>2, <3>3 DEF Safe, Kept, Owns
    <2>2. CASE /\ UNCHANGED storeVars
               /\ held' = held \cup {[job |-> j, token |-> 0, proc |-> p, entry |-> k, phase |-> "ack"]}
      <3>1. \A d \in held' : Works(d) => d \in held
        BY <2>2 DEF Works
      <3> QED BY <1>6, <2>2, <3>1
    <2> QED BY <1>9, <2>1, <2>2 DEF ProcessRef
  <1>10. ASSUME NEW c \in held, Settle(c) PROVE \A d \in held' : Works(d) => Safe(d)
    <2>1. Works(c) /\ Proceeds(c, "ack")
      BY <1>10 DEF Settle, Works
    <2>2. Owns(c.job, c.token) /\ c.token = claims[c.job]
      BY <1>1, <1>3, <1>4, <2>1, OwnersAreLatest DEF Kept
    <2>3. ASSUME NEW d \in held', Works(d) PROVE d \in held /\ d # c
      <3>1. [c EXCEPT !.phase = "ack"].phase = "ack"
        BY <1>4 DEF Copies
      <3> QED BY <2>1, <2>3, <3>1 DEF Proceeds, Works
    <2>4. ASSUME NEW d \in held, d # c, Works(d) PROVE d.job # c.job
      <3>1. Owns(d.job, d.token) /\ d.token = claims[d.job]
        BY <1>1, <1>3, <1>4, <2>4, OwnersAreLatest DEF Kept
      <3> QED BY <2>1, <2>2, <2>4, <3>1 DEF ClaimsApart
    <2>5. Complete(c.job, c.token) \/ FailOrRetry(c.job, c.token)
      BY <1>2, <1>10, <2>2 DEF Settle
    <2>6. \A j \in Jobs : j # c.job => UNCHANGED <<status[j], claimToken[j], heartbeat[j]>>
      BY <1>1, <1>4, <2>5 DEF Complete, SetCompleted, FailOrRetry, SetFailed, StoreTypeOK
    <2>7. ASSUME NEW d \in held, d # c, Works(d) PROVE Safe(d)
      BY <1>3, <1>4, <2>4, <2>6, <2>7 DEF Safe, Kept, Owns
    <2> QED BY <2>3, <2>7
  <1>11. ASSUME NEW j \in Jobs, TimePasses(j) PROVE \A d \in held' : Works(d) => Safe(d)
    <2>1. CASE NotBeforePasses(j)
      BY <1>7, <1>11, <2>1 DEF TimePasses, queueVars
    <2>2. CASE HeartbeatAges(j)
      <3>1. ~Refreshed(j)
        <4>1. ~NotBeforePasses(j)
          BY <1>1, <2>2 DEF NotBeforePasses, HeartbeatAges, StoreTypeOK
        <4> QED BY <1>2, <1>11, <4>1 DEF TimePasses
      <3>2. \A c \in held : Works(c) => c.job # j
        BY <1>3, <3>1 DEF Refreshed, Holds, Kept
      <3>3. \A i \in Jobs : i # j => UNCHANGED <<status[i], claimToken[i], heartbeat[i]>>
        BY <1>1, <2>2 DEF HeartbeatAges, StoreTypeOK
      <3>4. held' = held
        BY <1>11 DEF TimePasses, queueVars
      <3> QED BY <1>3, <1>4, <3>2, <3>3, <3>4 DEF Safe, Kept, Owns
    <2> QED BY <1>11, <2>1, <2>2 DEF TimePasses
  <1>12. ASSUME NEW p \in Procs, NEW j \in Jobs, NEW k \in EntryIds,
                Read(p, j, k) \/ AutoClaim(p, j, k) \/ ClaimErrs(p, j, k)
         PROVE  \A d \in held' : Works(d) => Safe(d)
    BY <1>2, <1>7, <1>12 DEF Read, AutoClaim, ClaimErrs
  <1>13. ASSUME NEW c \in held, StartJob(c) PROVE \A d \in held' : Works(d) => Safe(d)
    BY <1>8, <1>13 DEF StartJob, Works
  <1>14. ASSUME NEW c \in held, NEW outcome \in {"ok", "err"}, HandlerReturns(c, outcome)
         PROVE  \A d \in held' : Works(d) => Safe(d)
    BY <1>8, <1>14 DEF HandlerReturns, Works
  <1>15. ASSUME NEW c \in held, Beat(c) \/ Ack(c) PROVE \A d \in held' : Works(d) => Safe(d)
    BY <1>4, <1>7, <1>15 DEF Beat, Ack, queueVars
  <1>16. ASSUME Client PROVE \A d \in held' : Works(d) => Safe(d)
    <2>1. Kind /\ held' = held
      <3>1. ASSUME NEW j \in Jobs, Cancel(j) PROVE Kind /\ held' = held
        BY <1>1, <3>1 DEF Cancel, Occurrences, queueVars
      <3> QED BY <1>16, <3>1 DEF Client, Enqueue, Retry, queueVars
    <2> QED BY <1>7, <2>1
  <1>17. ASSUME Senders PROVE \A d \in held' : Works(d) => Safe(d)
    <2>1. Kind /\ held' = held
      BY <1>17 DEF Senders, Dispatch, DispatchFails, SchedulerPromotes, SchedulerRetries,
                   ReaperReclaims, ReaperSweeps, Retention, queueVars
    <2> QED BY <1>7, <2>1
  <1>18. ASSUME \/ \E p \in Procs : Crash(p)
                \/ \E j \in Jobs, k \in EntryIds : LoseEntry(j, k)
                \/ UNCHANGED vars
         PROVE  \A d \in held' : Works(d) => Safe(d)
    BY <1>2, <1>7, <1>18 DEF Crash, LoseEntry, vars, queueVars
  <1> HIDE DEF Kind
  <1> QED BY <1>9, <1>10, <1>11, <1>12, <1>13, <1>14, <1>15, <1>16, <1>17, <1>18 DEF Next, Pool

LEMMA WorkersAlways == Spec => [](ClaimsApart /\ (~SlowQueue => FaultlessKeep))
  <1>1. Init => ClaimsApart /\ (~SlowQueue => FaultlessKeep)
    BY DEF Init, ClaimsApart, FaultlessKeep
  <1>2. DeliveryInv /\ ClaimsApart /\ (~SlowQueue => FaultlessKeep) /\ [Next]_vars
          => (ClaimsApart /\ (~SlowQueue => FaultlessKeep))'
    BY ApartNext, FaultlessNext
  <1> QED BY <1>1, <1>2, DeliveryInvAlways, PTL DEF Spec

(* Whatever faults occur and however long jobs wait in Jobqueue: of the     *)
(* workers that have a job at a time, at most one passes the Owns guard of  *)
(* Heartbeat, Complete and FailOrRetry (ClaimRunning mints the tokens).     *)
THEOREM OneOwnerAtATime ==
  Spec => [](\A c, d \in held : /\ c.job = d.job /\ c.phase # "ack" /\ d.phase # "ack"
                                /\ Owns(c.job, c.token) /\ Owns(d.job, d.token)
                               => c = d)
  <1>1. ClaimsApart => \A c, d \in held : /\ c.job = d.job /\ c.phase # "ack" /\ d.phase # "ack"
                                          /\ Owns(c.job, c.token) /\ Owns(d.job, d.token)
                                         => c = d
    BY DEF ClaimsApart, Works, Owns
  <1> QED BY <1>1, WorkersAlways, PTL

(* Until the first fault no two workers have the same job, provided that a  *)
(* claimed job waits in Jobqueue for less than StaleAfter (DispatchTask,    *)
(* heartbeatJob): duplicates of an entry are absorbed by ClaimRunning.      *)
THEOREM FaultlessOneWorker ==
  ASSUME ~SlowQueue
  PROVE  Spec => [](faults = MaxFaults => OneWorkerAtATime)
  <1>1. DeliveryInv /\ ClaimsApart /\ FaultlessKeep => (faults = MaxFaults => OneWorkerAtATime)
    <2> SUFFICES ASSUME DeliveryInv, ClaimsApart, FaultlessKeep, faults = MaxFaults,
                        NEW c \in held, NEW d \in held, c.job = d.job, Works(c), Works(d)
                 PROVE  c = d
      BY DEF OneWorkerAtATime, Works
    <2>1. Owns(c.job, c.token) /\ Owns(d.job, d.token)
      BY DEF FaultlessKeep, Kept
    <2> QED BY <2>1 DEF Owns, ClaimsApart
  <1>2. ClaimsApart /\ (~SlowQueue => FaultlessKeep) => ClaimsApart /\ FaultlessKeep
    OBVIOUS
  <1> QED BY <1>1, <1>2, WorkersAlways, DeliveryInvAlways, PTL

=============================================================================
