-------------------------- MODULE BackgroundProofs --------------------------
(***************************************************************************)
(* A claimed job's goroutines, a command's output and the reaper's tick,   *)
(* for any number of claims, any cap and any sizes of writes, any jobs and *)
(* any size of a batch.                                                    *)
(***************************************************************************)
EXTENDS HandlerRun, ExecRun, ReaperTick, FiniteSetTheorems, SequenceTheorems, TLAPS

-----------------------------------------------------------------------------
(***************************************************************************)
(* A run's outcome travels from the handler to the channel and from there  *)
(* to the worker; the invariant follows it along the way.                  *)
(***************************************************************************)

(* A run that was not begun, or whose handler works, has no outcome *)
NoneBefore ==
  /\ \A r \in Claims : r > claims => handler[r] = "none" /\ stage[r] = "none"
  /\ \A r \in Claims : handler[r] \in {"none", "working"} => returned[r] = "none" /\ ch[r] = "empty"
  /\ \A r \in Claims : stage[r] \in {"none", "running"} => out[r] = "none"

(* What the goroutines hold and what the worker got is what was returned *)
OutcomeIsReturned ==
  /\ \A r \in Claims : handler[r] \in {"ok", "err"} => returned[r] = handler[r]
  /\ \A r \in Claims : ch[r] # "empty" => returned[r] = ch[r]
  /\ \A r \in Claims : out[r] = "ok" => returned[r] = "ok"

(* The row is completed on behalf of a run *)
CompletedByRun == status = "completed" => \E r \in Claims : out[r] = "ok"

RunInv == RunTypeOK /\ NoneBefore /\ OutcomeIsReturned /\ CompletedByRun

(* The invariant holds before the first claim *)
LEMMA RunStart == RunInit => RunInv
  <1> SUFFICES ASSUME RunInit PROVE RunInv
    OBVIOUS
  <1>1. RunTypeOK
    <2>1. lives \in BOOLEAN /\ stop \in BOOLEAN /\ panics \in BOOLEAN
      BY DEF RunInit
    <2> QED
      BY <2>1, RunAssumption DEF RunInit, RunTypeOK
  <1>2. NoneBefore /\ OutcomeIsReturned /\ CompletedByRun
    BY DEF RunInit, NoneBefore, OutcomeIsReturned, CompletedByRun
  <1> QED
    BY <1>1, <1>2 DEF RunInv

(* A claim begins the next run *)
LEMMA BeginRunKeeps == RunInv /\ BeginRun => RunInv'
  <1> SUFFICES ASSUME RunInv, BeginRun PROVE RunInv'
    OBVIOUS
  <1> DEFINE r == claims + 1
  <1> USE RunAssumption DEF RunInv, BeginRun, processVars
  <1>1. r \in Claims /\ r > claims /\ claims \in Nat
    BY DEF RunTypeOK, Claims
  <1>2. RunTypeOK'
    BY <1>1 DEF RunTypeOK, Claims
  <1>3. \A q \in Claims \ {r} : handler'[q] = handler[q] /\ stage'[q] = stage[q]
    BY DEF RunTypeOK
  <1>4. handler'[r] = "working" /\ stage'[r] = "running"
    BY <1>1 DEF RunTypeOK
  <1>5. NoneBefore'
    BY <1>1, <1>3, <1>4 DEF NoneBefore, Claims
  <1>6. OutcomeIsReturned' /\ CompletedByRun'
    BY <1>1, <1>3, <1>4 DEF OutcomeIsReturned, CompletedByRun
  <1> QED
    BY <1>2, <1>5, <1>6

(* The handler's goroutine: it returns once, and sends what it returned *)
LEMMA HandlerKeeps ==
  ASSUME RunInv, NEW r \in Claims,
         HandlerReturns(r, "ok") \/ HandlerReturns(r, "err") \/ HandlerSends(r)
  PROVE  RunInv'
  <1> USE DEF RunInv, rowVars, processVars
  <1>1. ASSUME NEW o \in {"ok", "err"}, HandlerReturns(r, o)
        PROVE  RunInv'
    <2> USE <1>1 DEF HandlerReturns
    <2>1. RunTypeOK'
      BY DEF RunTypeOK
    <2>2. NoneBefore' /\ OutcomeIsReturned' /\ CompletedByRun'
      BY DEF RunTypeOK, NoneBefore, OutcomeIsReturned, CompletedByRun
    <2> QED
      BY <2>1, <2>2
  <1>2. CASE HandlerSends(r)
    <2> USE <1>2 DEF HandlerSends
    <2>1. RunTypeOK'
      BY DEF RunTypeOK
    <2>2. NoneBefore' /\ OutcomeIsReturned' /\ CompletedByRun'
      BY DEF RunTypeOK, NoneBefore, OutcomeIsReturned, CompletedByRun
    <2> QED
      BY <2>1, <2>2
  <1> QED
    BY <1>1, <1>2

(* The process dies with all its goroutines; what was returned stays known *)
LEMMA ProcessDiesKeeps ==
  ASSUME RunInv, ProcessDies, panics' \in BOOLEAN, runFaults' \in 0..MaxRunFaults
  PROVE  RunInv'
  <1> USE DEF RunInv, ProcessDies, rowVars
  <1>1. RunTypeOK'
    BY DEF RunTypeOK
  <1>2. NoneBefore' /\ OutcomeIsReturned' /\ CompletedByRun'
    BY DEF RunTypeOK, NoneBefore, OutcomeIsReturned, CompletedByRun
  <1> QED
    BY <1>1, <1>2

(* runWithTimeout takes an outcome from the channel, or reports an error *)
LEMMA RunWithTimeoutKeeps ==
  ASSUME RunInv, NEW r \in Claims, RunWithTimeout(r)
  PROVE  RunInv'
  <1> USE DEF RunInv, RunWithTimeout, rowVars, processVars
  <1>1. PICK o \in Outcomes(r) : out' = [out EXCEPT ![r] = o]
    OBVIOUS
  <1>2. o \in {"ok", "err"} /\ (o = "ok" => ch[r] = "ok")
    BY DEF Outcomes, RunTypeOK
  <1>3. RunTypeOK'
    BY <1>1, <1>2 DEF RunTypeOK
  <1>4. NoneBefore' /\ OutcomeIsReturned'
    BY <1>1, <1>2 DEF RunTypeOK, NoneBefore, OutcomeIsReturned
  <1>5. \A q \in Claims \ {r} : out'[q] = out[q]
    BY <1>1 DEF RunTypeOK
  <1>6. CompletedByRun'
    BY <1>5 DEF CompletedByRun, NoneBefore
  <1> QED
    BY <1>3, <1>4, <1>6

(* A settlement completes the row only for the run that holds it *)
LEMMA SettleRunKeeps ==
  ASSUME RunInv, NEW r \in Claims, SettleRun(r)
  PROVE  RunInv'
  <1> USE RunAssumption DEF RunInv, SettleRun, RunFault, processVars
  <1>1. RunTypeOK'
    BY DEF RunTypeOK
  <1>2. NoneBefore' /\ OutcomeIsReturned' /\ CompletedByRun'
    BY DEF RunTypeOK, NoneBefore, OutcomeIsReturned, CompletedByRun
  <1> QED
    BY <1>1, <1>2

(* The reaper, the heartbeats and the clocks touch no outcome *)
LEMMA OthersKeep ==
  ASSUME RunInv,
         \/ ReclaimRun \/ ReclaimLive \/ RunStops \/ ProcessRestarts
         \/ \E r \in Claims : TimesOut(r) \/ Ack(r) \/ BeatStarts(r) \/ BeatEnds(r) \/ BeatStops(r)
  PROVE  RunInv'
  <1> USE RunAssumption DEF RunInv, rowVars, processVars
  <1>1. CASE ReclaimRun \/ ReclaimLive
    BY <1>1 DEF ReclaimRun, ReclaimLive, GivesBack, RunFault, RunTypeOK, NoneBefore, OutcomeIsReturned, CompletedByRun
  <1>2. CASE RunStops \/ ProcessRestarts
    <2>1. RunTypeOK'
      BY <1>2 DEF RunStops, ProcessRestarts, RunTypeOK
    <2>2. NoneBefore' /\ OutcomeIsReturned' /\ CompletedByRun'
      BY <1>2 DEF RunStops, ProcessRestarts, NoneBefore, OutcomeIsReturned, CompletedByRun
    <2> QED
      BY <2>1, <2>2
  <1>3. ASSUME NEW r \in Claims, TimesOut(r) \/ BeatStarts(r) \/ BeatEnds(r) \/ BeatStops(r)
        PROVE  RunInv'
    BY <1>3 DEF TimesOut, BeatStarts, BeatEnds, BeatStops, RunTypeOK, NoneBefore, OutcomeIsReturned, CompletedByRun
  <1>4. ASSUME NEW r \in Claims, Ack(r)
        PROVE  RunInv'
    BY <1>4 DEF Ack, RunTypeOK, NoneBefore, OutcomeIsReturned, CompletedByRun
  <1> QED
    BY <1>1, <1>2, <1>3, <1>4

(* Every step keeps the invariant of a run *)
LEMMA RunStep == RunInv /\ [RunNext]_runVars => RunInv'
  <1> SUFFICES ASSUME RunInv, [RunNext]_runVars PROVE RunInv'
    OBVIOUS
  <1>1. CASE BeginRun
    BY <1>1, BeginRunKeeps
  <1>2. CASE ReclaimRun \/ ReclaimLive \/ RunStops \/ ProcessRestarts
    BY <1>2, OthersKeep
  <1>3. CASE RunExits
    BY <1>3, ProcessDiesKeeps DEF RunExits, RunInv, RunTypeOK
  <1>4. ASSUME NEW r \in Claims, HandlerReturns(r, "ok") \/ HandlerReturns(r, "err") \/ HandlerSends(r)
        PROVE  RunInv'
    BY <1>4, HandlerKeeps
  <1>5. ASSUME NEW r \in Claims, HandlerPanics(r)
        PROVE  RunInv'
    BY <1>5, ProcessDiesKeeps, RunAssumption DEF HandlerPanics, RunFault, RunInv, RunTypeOK
  <1>6. ASSUME NEW r \in Claims, RunWithTimeout(r)
        PROVE  RunInv'
    BY <1>6, RunWithTimeoutKeeps
  <1>7. ASSUME NEW r \in Claims, SettleRun(r)
        PROVE  RunInv'
    BY <1>7, SettleRunKeeps
  <1>8. ASSUME NEW r \in Claims, TimesOut(r) \/ Ack(r) \/ BeatStarts(r) \/ BeatEnds(r) \/ BeatStops(r)
        PROVE  RunInv'
    BY <1>8, OthersKeep
  <1>9. CASE UNCHANGED runVars
    BY <1>9 DEF runVars, RunInv, RunTypeOK, NoneBefore, OutcomeIsReturned, CompletedByRun
  <1> QED
    BY <1>1, <1>2, <1>3, <1>4, <1>5, <1>6, <1>7, <1>8, <1>9 DEF RunNext

(* The invariant of HandlerRun holds always *)
THEOREM RunInvariant == RunSpec => []RunInv
  BY RunStart, RunStep, PTL DEF RunSpec

(* Type correctness of a claimed job's goroutines, for any number of claims
   and faults *)
THEOREM RunTypeCorrect == RunSpec => []RunTypeOK
  BY RunInvariant, PTL DEF RunInv

(* A job is completed only by a run whose handler returned nil, however its
   answer, its deadline, a shutdown and the reaper race *)
THEOREM CompletionsReturned == RunSpec => []CompletedWasReturned
  <1>1. RunInv => CompletedWasReturned
    BY DEF RunInv, OutcomeIsReturned, CompletedByRun, CompletedWasReturned
  <1> QED
    BY <1>1, RunInvariant, PTL

(* The contract of a run: what its steps do to the row, the answers and the
   runs that have ended *)

(* A claim is the contract's: the new run has neither answered nor ended *)
LEMMA BeginIsClaim == RunInv /\ BeginRun => Contract!Claim
  <1> SUFFICES ASSUME RunInv, BeginRun PROVE Contract!Claim
    OBVIOUS
  <1>1. \A q \in Claims : stage'[q] \in {"acking", "over"} <=> stage[q] \in {"acking", "over"}
    BY DEF RunInv, RunTypeOK, NoneBefore, BeginRun
  <1>2. EndedRuns' = EndedRuns
    BY <1>1 DEF EndedRuns
  <1> QED
    BY <1>2 DEF BeginRun, Contract!Claim

(* A handler that works was claimed for and has not answered *)
LEMMA ReturnIsAnswer ==
  ASSUME RunInv, NEW r \in Claims, NEW o \in {"ok", "err"}, HandlerReturns(r, o)
  PROVE  r \in 1..claims /\ Contract!Answer(r, o)
  <1>1. r \in Nat /\ 1 <= r /\ claims \in Nat
    BY RunAssumption DEF Claims, RunInv, RunTypeOK
  <1>2. ~(r > claims) /\ returned[r] = "none"
    BY DEF HandlerReturns, RunInv, NoneBefore
  <1>3. EndedRuns' = EndedRuns
    BY DEF EndedRuns, HandlerReturns
  <1> QED
    BY <1>1, <1>2, <1>3 DEF HandlerReturns, rowVars, Contract!Answer

(* A run that is being worked on was claimed, and has not ended *)
LEMMA BegunRuns ==
  ASSUME RunInv, NEW r \in Claims, stage[r] # "none"
  PROVE  r \in 1..claims
  BY RunAssumption DEF Claims, RunInv, RunTypeOK, NoneBefore

(* A settlement is the owner's, with its own handler's answer, or none *)
LEMMA SettleIsContract ==
  ASSUME RunInv, NEW r \in Claims, SettleRun(r)
  PROVE  r \in 1..claims
         /\ (Contract!Settle(r, "completed") \/ Contract!Settle(r, "pending") \/ Contract!EndUnsettled({r}))
  <1>1. r \in 1..claims
    BY BegunRuns DEF SettleRun
  <1>2. r \notin EndedRuns
    BY DEF EndedRuns, SettleRun
  <1>3. EndedRuns' = EndedRuns \union {r}
    BY DEF EndedRuns, SettleRun, RunInv, RunTypeOK
  <1>4. UNCHANGED <<claims, returned>>
    BY DEF SettleRun
  <1>5. CASE status' = status /\ holder' = holder
    BY <1>1, <1>3, <1>4, <1>5 DEF Contract!EndUnsettled
  <1>6. CASE /\ holder = r /\ holder' = 0
             /\ status' = IF out[r] = "ok" THEN "completed" ELSE "pending"
    <2>1. CASE out[r] = "ok"
      <3>1. returned[r] = "ok"
        BY <2>1 DEF RunInv, OutcomeIsReturned
      <3> QED
        BY <1>1, <1>2, <1>3, <1>4, <1>6, <2>1, <3>1 DEF Contract!Settle
    <2>2. CASE out[r] # "ok"
      BY <1>1, <1>2, <1>3, <1>4, <1>6, <2>2 DEF Contract!Settle
    <2> QED
      BY <2>1, <2>2
  <1>7. \/ status' = status /\ holder' = holder
        \/ /\ holder = r /\ holder' = 0
           /\ status' = IF out[r] = "ok" THEN "completed" ELSE "pending"
    BY DEF SettleRun
  <1> QED
    BY <1>1, <1>5, <1>6, <1>7

(* The runs of a process that dies end with it, and the row waits *)
LEMMA DeathEndsRuns ==
  ASSUME RunInv, ProcessDies
  PROVE  \E R \in SUBSET (1..claims) : Contract!EndUnsettled(R)
  <1> DEFINE R == {r \in Claims : stage[r] # "none"}
  <1>1. R \in SUBSET (1..claims)
    BY BegunRuns
  <1>2. EndedRuns' = EndedRuns \union R
    BY DEF EndedRuns, ProcessDies
  <1>3. Contract!EndUnsettled(R)
    BY <1>2 DEF ProcessDies, rowVars, Contract!EndUnsettled
  <1> QED
    BY <1>1, <1>3

(* The rest of the goroutines' steps are none of the contract's *)
LEMMA RunStutters ==
  ASSUME \/ RunStops \/ ProcessRestarts \/ UNCHANGED runVars
         \/ \E r \in Claims : \/ HandlerSends(r) \/ TimesOut(r) \/ Ack(r) \/ RunWithTimeout(r)
                             \/ BeatStarts(r) \/ BeatEnds(r) \/ BeatStops(r),
         RunInv
  PROVE  UNCHANGED <<status, holder, claims, returned, EndedRuns>>
  <1>1. CASE RunStops \/ ProcessRestarts \/ UNCHANGED runVars
    BY <1>1 DEF RunStops, ProcessRestarts, runVars, rowVars, EndedRuns
  <1>2. ASSUME NEW r \in Claims, HandlerSends(r) \/ TimesOut(r) \/ BeatStarts(r) \/ BeatEnds(r) \/ BeatStops(r)
        PROVE  UNCHANGED <<status, holder, claims, returned, EndedRuns>>
    BY <1>2 DEF HandlerSends, TimesOut, BeatStarts, BeatEnds, BeatStops, rowVars, EndedRuns
  <1>3. ASSUME NEW r \in Claims, Ack(r) \/ RunWithTimeout(r)
        PROVE  UNCHANGED <<status, holder, claims, returned, EndedRuns>>
    <2>1. \A q \in Claims : stage'[q] \in {"acking", "over"} <=> stage[q] \in {"acking", "over"}
      BY <1>3 DEF Ack, RunWithTimeout, RunInv, RunTypeOK
    <2>2. EndedRuns' = EndedRuns
      BY <2>1 DEF EndedRuns
    <2> QED
      BY <1>3, <2>2 DEF Ack, RunWithTimeout, rowVars
  <1> QED
    BY <1>1, <1>2, <1>3

(* The goroutines of a run implement the contract Delivery relies on: only
   the run that holds the row settles it, completing it only on its own
   handler's nil, for any number of claims and whatever fails *)
THEOREM RunsKeepContract == RunSpec => KeepsRun
  <1>1. RunInit => Contract!Init
    BY DEF RunInit, Contract!Init, EndedRuns, Claims
  <1>2. RunInv /\ [RunNext]_runVars => [Contract!Next]_<<status, holder, claims, returned, EndedRuns>>
    <2> SUFFICES ASSUME RunInv, [RunNext]_runVars
                 PROVE  [Contract!Next]_<<status, holder, claims, returned, EndedRuns>>
      OBVIOUS
    <2>1. CASE BeginRun
      BY <2>1, BeginIsClaim DEF Contract!Next
    <2>2. CASE ReclaimRun \/ ReclaimLive
      BY <2>2 DEF ReclaimRun, ReclaimLive, Stale, GivesBack, EndedRuns, Contract!Reclaim, Contract!Next
    <2>3. CASE RunExits \/ \E r \in Claims : HandlerPanics(r)
      BY <2>3, DeathEndsRuns DEF RunExits, HandlerPanics, Contract!Next
    <2>4. ASSUME NEW r \in Claims, HandlerReturns(r, "ok") \/ HandlerReturns(r, "err")
          PROVE  Contract!Next
      BY <2>4, ReturnIsAnswer DEF Contract!Next
    <2>5. ASSUME NEW r \in Claims, SettleRun(r)
          PROVE  Contract!Next
      <3>1. r \in 1..claims /\ {r} \in SUBSET (1..claims)
        BY <2>5, SettleIsContract
      <3> QED
        BY <2>5, <3>1, SettleIsContract DEF Contract!Next
    <2>6. CASE \/ RunStops \/ ProcessRestarts \/ UNCHANGED runVars
               \/ \E r \in Claims : \/ HandlerSends(r) \/ TimesOut(r) \/ Ack(r) \/ RunWithTimeout(r)
                                   \/ BeatStarts(r) \/ BeatEnds(r) \/ BeatStops(r)
      BY <2>6, RunStutters
    <2> QED
      BY <2>1, <2>2, <2>3, <2>4, <2>5, <2>6 DEF RunNext
  <1> QED
    BY <1>1, <1>2, RunInvariant, PTL DEF RunSpec, KeepsRun, Contract!Spec

-----------------------------------------------------------------------------
(***************************************************************************)
(* The buffer of a command's output.  A copier that has found room is      *)
(* going to add grow; whatever the two are going to add lies within one    *)
(* write of the cap, because the second to find room found what the first  *)
(* had not yet filled, and its own part fits under the cap.                *)
(***************************************************************************)

Adds(p) == IF copier[p] = "copying" THEN grow[p] ELSE 0

RoomIsFound ==
  /\ \A p \in Pipes : grow[p] <= MaxWrite
  /\ \A p \in Pipes : copier[p] = "copying" => seen[p] + grow[p] <= Max
  /\ len + Adds("stdout") + Adds("stderr") <= Max + MaxWrite

ExecInv == ExecTypeOK /\ RoomIsFound

(* The invariant holds before the command starts *)
LEMMA ExecStart == ExecInit => ExecInv
  <1> SUFFICES ASSUME ExecInit PROVE ExecInv
    OBVIOUS
  <1> USE ExecAssumption DEF ExecInit
  <1>1. ExecTypeOK
    <2>1. descendant \in BOOLEAN /\ expired \in BOOLEAN
      OBVIOUS
    <2> QED
      BY <2>1 DEF ExecTypeOK
  <1>2. \A p \in Pipes : copier[p] = "reading" /\ grow[p] = 0
    OBVIOUS
  <1>3. RoomIsFound
    BY <1>2 DEF RoomIsFound, Adds, Pipes
  <1> QED
    BY <1>1, <1>3 DEF ExecInv

(* The check of a copier finds at most the room under the cap *)
LEMMA CapChecksKeeps ==
  ASSUME ExecInv, NEW p \in Pipes, CapChecks(p)
  PROVE  ExecInv'
  <1> USE ExecAssumption DEF ExecInv, CapChecks, procVars, Pipes
  <1>1. Room \in 0..Max /\ (Room # 0 => len + Room = Max) /\ len \in Nat /\ Max \in Nat /\ MaxWrite \in Nat
    BY DEF ExecTypeOK, Room
  <1>2. taken[p] \in 0..MaxWrite
    BY DEF ExecTypeOK
  <1>3. /\ grow'[p] = IF taken[p] > Room THEN Room ELSE taken[p]
        /\ seen'[p] = len
        /\ copier'[p] = IF Room = 0 THEN "reading" ELSE "copying"
    BY DEF ExecTypeOK
  <1>4. \A q \in Pipes \ {p} : grow'[q] = grow[q] /\ seen'[q] = seen[q] /\ copier'[q] = copier[q]
    BY DEF ExecTypeOK
  <1>5. ExecTypeOK'
    BY <1>1, <1>2 DEF ExecTypeOK
  <1>6. \A q \in Pipes : grow[q] \in Nat /\ grow'[q] \in Nat
    BY <1>5 DEF ExecTypeOK
  <1>7. \A q \in Pipes : grow'[q] <= MaxWrite /\ (copier'[q] = "copying" => seen'[q] + grow'[q] <= Max)
    BY <1>1, <1>2, <1>3, <1>4, <1>6 DEF RoomIsFound
  <1>8. (len + Adds("stdout") + Adds("stderr") <= Max + MaxWrite)'
    <2>1. PICK q \in Pipes : q # p /\ Pipes = {p, q}
      OBVIOUS
    <2>2. len + Adds(p)' + Adds(q)' <= Max + MaxWrite
      BY <1>1, <1>2, <1>3, <1>4, <1>6, <1>7, <2>1 DEF RoomIsFound, Adds
    <2> QED
      BY <2>1, <2>2, <1>1, <1>6 DEF Adds
  <1> QED
    BY <1>5, <1>7, <1>8 DEF RoomIsFound

(* A copy adds what its copier found room for, or undoes another's *)
LEMMA CopiesKeeps ==
  ASSUME ExecInv, NEW p \in Pipes, Copies(p)
  PROVE  ExecInv'
  <1> USE ExecAssumption DEF ExecInv, Copies, Pipes
  <1>1. /\ len \in Nat /\ Max \in Nat /\ MaxWrite \in Nat
        /\ \A q \in Pipes : grow[q] \in Nat /\ seen[q] \in Nat
    BY DEF ExecTypeOK
  <1>2. len' = len + grow[p] \/ len' = seen[p] + grow[p]
    OBVIOUS
  <1>3. copier'[p] = "reading" /\ \A q \in Pipes \ {p} : copier'[q] = copier[q]
    BY DEF ExecTypeOK
  <1>4. ExecTypeOK'
    BY <1>1, <1>2 DEF ExecTypeOK
  <1>5. \A q \in Pipes : grow[q] <= MaxWrite /\ (copier'[q] = "copying" => seen[q] + grow[q] <= Max)
    BY <1>3 DEF RoomIsFound
  <1>6. (len + Adds("stdout") + Adds("stderr") <= Max + MaxWrite)'
    <2>1. PICK q \in Pipes : q # p /\ Pipes = {p, q}
      OBVIOUS
    <2>2. len + grow[p] + Adds(q) <= Max + MaxWrite /\ seen[p] + grow[p] <= Max
      BY <1>1, <2>1 DEF RoomIsFound, Adds
    <2>3. len' + Adds(p)' + Adds(q)' <= Max + MaxWrite
      BY <1>1, <1>2, <1>3, <1>5, <2>1, <2>2 DEF Adds
    <2> QED
      BY <2>1, <2>3, <1>1, <1>2 DEF Adds
  <1> QED
    BY <1>4, <1>5, <1>6 DEF RoomIsFound

(* No other step fills the buffer *)
LEMMA ExecOthersKeep ==
  ASSUME ExecInv,
         \/ Start \/ Exits \/ Expires \/ Kill \/ DescendantEnds \/ WaitReturns
         \/ \E p \in Pipes : CopierReads(p) \/ CopierEnds(p)
  PROVE  ExecInv'
  <1> USE ExecAssumption DEF ExecInv, procVars, Pipes
  <1>1. CASE Start \/ Exits \/ Expires \/ Kill \/ DescendantEnds \/ WaitReturns
    <2>1. UNCHANGED <<copier, taken, grow, seen, len, reads>>
      BY <1>1 DEF Start, Exits, Expires, Kill, DescendantEnds, WaitReturns
    <2>2. ExecTypeOK'
      BY <1>1, <2>1 DEF Start, Exits, Expires, Kill, DescendantEnds, WaitReturns, ExecTypeOK
    <2> QED
      BY <2>1, <2>2 DEF RoomIsFound, Adds
  <1>2. ASSUME NEW p \in Pipes, CopierReads(p)
        PROVE  ExecInv'
    <2>1. PICK n \in 1..MaxWrite : taken' = [taken EXCEPT ![p] = n]
      BY <1>2 DEF CopierReads
    <2>2. ExecTypeOK'
      BY <1>2, <2>1 DEF CopierReads, ExecTypeOK
    <2>3. \A q \in Pipes : (copier'[q] = "copying") = (copier[q] = "copying")
      BY <1>2 DEF CopierReads, ExecTypeOK
    <2> QED
      BY <1>2, <2>2, <2>3 DEF CopierReads, RoomIsFound, Adds
  <1>3. ASSUME NEW p \in Pipes, CopierEnds(p)
        PROVE  ExecInv'
    <2>1. ExecTypeOK'
      BY <1>3 DEF CopierEnds, ExecTypeOK
    <2>2. \A q \in Pipes : (copier'[q] = "copying") = (copier[q] = "copying")
      BY <1>3 DEF CopierEnds, ExecTypeOK
    <2> QED
      BY <1>3, <2>1, <2>2 DEF CopierEnds, RoomIsFound, Adds
  <1> QED
    BY <1>1, <1>2, <1>3

(* The invariant of ExecRun holds always *)
THEOREM ExecInvariant == ExecSpec => []ExecInv
  <1>1. ExecInv /\ [ExecNext]_execVars => ExecInv'
    <2> SUFFICES ASSUME ExecInv, [ExecNext]_execVars PROVE ExecInv'
      OBVIOUS
    <2>1. CASE UNCHANGED execVars
      BY <2>1 DEF execVars, ExecInv, ExecTypeOK, RoomIsFound, Adds
    <2> QED
      BY <2>1, CapChecksKeeps, CopiesKeeps, ExecOthersKeep DEF ExecNext
  <1> QED
    BY <1>1, ExecStart, PTL DEF ExecSpec

(* Type correctness of a command's run, for any cap and any reads *)
THEOREM ExecTypeCorrect == ExecSpec => []ExecTypeOK
  BY ExecInvariant, PTL DEF ExecInv

(* The retained output is past its cap by one write at most, however the two
   goroutines that share the buffer without a lock take turns *)
THEOREM OutputStaysBounded == ExecSpec => []OvershootIsBounded
  <1>1. ExecInv => OvershootIsBounded
    BY ExecAssumption DEF ExecInv, ExecTypeOK, RoomIsFound, Adds, Pipes, OvershootIsBounded
  <1> QED
    BY <1>1, ExecInvariant, PTL

-----------------------------------------------------------------------------
(***************************************************************************)
(* The reaper's tick.  A batch is a list without repetitions, and between  *)
(* the two batches of one tick stands the map of what was reclaimed: what  *)
(* was sent from the first is in it, so the second passes it over.         *)
(***************************************************************************)

(* No job is twice in a list *)
Distinct(s) == \A k, l \in 1..Len(s) : s[k] = s[l] => k = l

(* How many are before j, and who they are *)
Before(S, j) == {i \in S : i < j}
Rank(S) == [j \in S |-> Cardinality(Before(S, j))]

(* In a finite set of numbers each rank is had by one number *)
LEMMA RanksNumber ==
  ASSUME NEW S \in SUBSET Nat, IsFiniteSet(S)
  PROVE  Rank(S) \in Bijection(S, 0..(Cardinality(S) - 1))
  <1> DEFINE N == Cardinality(S)
             T == 0..(N - 1)
  <1>1. N \in Nat
    BY FS_CardinalityType
  <1>2. \A j \in S : IsFiniteSet(Before(S, j)) /\ Cardinality(Before(S, j)) \in T
    <2> SUFFICES ASSUME NEW j \in S
                 PROVE  IsFiniteSet(Before(S, j)) /\ Cardinality(Before(S, j)) \in T
      OBVIOUS
    <2>1. Before(S, j) \in SUBSET S /\ j \notin Before(S, j)
      BY DEF Before
    <2>2. /\ IsFiniteSet(Before(S, j)) /\ Cardinality(Before(S, j)) <= N
          /\ N = Cardinality(Before(S, j)) => S = Before(S, j)
      BY <2>1, FS_Subset
    <2>3. Cardinality(Before(S, j)) \in Nat
      BY <2>2, FS_CardinalityType
    <2> QED
      BY <1>1, <2>1, <2>2, <2>3
  <1>3. \A i, j \in S : i < j => Cardinality(Before(S, i)) < Cardinality(Before(S, j))
    <2> SUFFICES ASSUME NEW i \in S, NEW j \in S, i < j
                 PROVE  Cardinality(Before(S, i)) < Cardinality(Before(S, j))
      OBVIOUS
    <2> i \in Nat /\ j \in Nat
      OBVIOUS
    <2>1. /\ \A k \in S : k \in Nat /\ (k < i => k < j)
          /\ ~(i < i)
      OBVIOUS
    <2>3. Before(S, i) \in SUBSET Before(S, j) /\ i \in Before(S, j) /\ i \notin Before(S, i)
      BY <2>1 DEF Before
    <2>2. /\ Cardinality(Before(S, i)) <= Cardinality(Before(S, j))
          /\ Cardinality(Before(S, j)) = Cardinality(Before(S, i)) => Before(S, j) = Before(S, i)
      BY <1>2, <2>3, FS_Subset
    <2> QED
      BY <1>2, <2>3, <2>2
  <1>4. Rank(S) \in [S -> T]
    BY <1>2 DEF Rank
  <1>5. \A i, j \in S : Rank(S)[i] = Rank(S)[j] => i = j
    <2> SUFFICES ASSUME NEW i \in S, NEW j \in S, Rank(S)[i] = Rank(S)[j], i # j
                 PROVE  FALSE
      OBVIOUS
    <2>1. i \in Nat /\ j \in Nat /\ (i < j \/ j < i)
      OBVIOUS
    <2> QED
      BY <1>2, <1>3, <2>1 DEF Rank
  <1>6. Rank(S) \in Injection(S, T)
    BY <1>4, <1>5 DEF Injection, IsInjective
  <1>7. IsFiniteSet(T) /\ Cardinality(T) = N
    <2>1. 0 \in Int /\ N - 1 \in Int /\ (0 > N - 1 <=> N = 0) /\ (N - 1) - 0 + 1 = N
      BY <1>1
    <2> HIDE DEF N
    <2> QED
      BY <2>1, FS_Interval
  <1>8. Rank(S) \in Surjection(S, T)
    BY <1>6, <1>7, FS_Injection
  <1> QED
    BY <1>6, <1>8 DEF Bijection

(* A batch is of the rows asked for, no longer than its size, and has nothing *)
(* twice (the ORDER BY and LIMIT of the queries)                              *)
LEMMA Batch ==
  ASSUME NEW S \in SUBSET TickJobs, NEW n \in Nat
  PROVE  /\ Oldest(S, n) \in Seq(TickJobs)
         /\ Len(Oldest(S, n)) <= n
         /\ Distinct(Oldest(S, n))
         /\ \A k \in 1..Len(Oldest(S, n)) : Oldest(S, n)[k] \in S
  <1> DEFINE first == {j \in S : Cardinality(Before(S, j)) < n}
             N == Cardinality(first)
             s == [k \in 1..N |-> CHOOSE j \in first : Cardinality(Before(first, j)) = k - 1]
  <1>1. Oldest(S, n) = s
    BY DEF Oldest, Before
  <1>2. /\ IsFiniteSet(S) /\ S \in SUBSET Nat
        /\ IsFiniteSet(first) /\ first \in SUBSET Nat
    <2>1. IsFiniteSet(TickJobs)
      BY ReaperAssumption, FS_Interval DEF TickJobs
    <2>2. IsFiniteSet(S)
      BY <2>1, FS_Subset
    <2>4. first \in SUBSET S /\ S \in SUBSET Nat
      BY DEF TickJobs
    <2>3. IsFiniteSet(first)
      BY <2>2, <2>4, FS_Subset
    <2> QED
      BY <2>2, <2>3, <2>4
  <1>3. N \in Nat
    BY <1>2, FS_CardinalityType
  <1>4. Rank(first) \in Bijection(first, 0..(N - 1))
    BY <1>2, RanksNumber
  <1>5. \A k \in 1..N : s[k] \in first /\ Cardinality(Before(first, s[k])) = k - 1
    <2> SUFFICES ASSUME NEW k \in 1..N
                 PROVE  s[k] \in first /\ Cardinality(Before(first, s[k])) = k - 1
      OBVIOUS
    <2>1. k - 1 \in 0..(N - 1)
      BY <1>3
    <2>2. \E j \in first : Rank(first)[j] = k - 1
      BY <1>4, <2>1 DEF Bijection, Surjection
    <2>3. \E j \in first : Cardinality(Before(first, j)) = k - 1
      BY <2>2 DEF Rank
    <2> QED
      BY <2>3
  <1>6. s \in Seq(TickJobs) /\ Len(s) = N
    <2>1. s \in [1..N -> TickJobs]
      BY <1>5
    <2> HIDE DEF s, N
    <2>2. s \in Seq(TickJobs)
      BY <1>3, <2>1, SeqDef
    <2>3. Len(s) \in Nat /\ 1..Len(s) = 1..N
      BY <2>1, <2>2, LenProperties
    <2> QED
      BY <1>3, <2>2, <2>3
  <1>7. Distinct(s)
    <2> SUFFICES ASSUME NEW k \in 1..N, NEW l \in 1..N, s[k] = s[l] PROVE k = l
      BY <1>6 DEF Distinct
    <2>1. Cardinality(Before(first, s[k])) = k - 1 /\ Cardinality(Before(first, s[l])) = l - 1
      BY <1>5
    <2> HIDE DEF s
    <2> QED
      BY <1>3, <2>1
  <1>8. N <= n
    <2>1. \A j \in first : Before(first, j) = Before(S, j)
      <3> SUFFICES ASSUME NEW j \in first, NEW i \in S, i < j
                   PROVE  Cardinality(Before(S, i)) < n
        BY DEF Before
      <3>1. Rank(S)[i] # Rank(S)[j] /\ Rank(S)[i] \in Nat /\ Rank(S)[j] \in Nat
        BY <1>2, RanksNumber DEF Bijection, Injection, IsInjective
      <3>0. \A k \in S : k \in Nat /\ (k < i => k < j)
        BY <1>2
      <3>2. Before(S, i) \in SUBSET Before(S, j) /\ Before(S, j) \in SUBSET S
        BY <3>0 DEF Before
      <3>3. Cardinality(Before(S, i)) <= Cardinality(Before(S, j))
        BY <1>2, <3>2, FS_Subset
      <3> QED
        BY <3>1, <3>3 DEF Rank
    <2>2. CASE N = 0
      BY <2>2
    <2>3. CASE N > 0
      <3>3. N - 1 \in 0..(N - 1)
        BY <1>3, <2>3
      <3>1. \E j \in first : Rank(first)[j] = N - 1
        BY <1>4, <3>3 DEF Bijection, Surjection
      <3>2. \E j \in first : Cardinality(Before(S, j)) = N - 1 /\ Cardinality(Before(S, j)) < n
        BY <2>1, <3>1 DEF Rank
      <3> QED
        BY <1>3, <3>2
    <2> QED
      BY <1>3, <2>2, <2>3
  <1> QED
    BY <1>1, <1>5, <1>6, <1>7, <1>8

(* What was sent from the first batch is in the map, what waits in the second *)
(* was not sent or is in the map                                              *)
SentOnce ==
  /\ tickAt = "idle" => todo = <<>> /\ \A j \in TickJobs : sent[j] = 0
  /\ Distinct(todo)
  /\ tickAt = "reclaim" =>
       /\ \A k \in 1..Len(todo) : todo[k] \in reclaimed
       /\ \A j \in TickJobs : sent[j] > 0 => j \in reclaimed
  /\ \A k \in 1..Len(todo) : sent[todo[k]] = 0 \/ Skipped(todo[k])
  /\ OncePerTick

TickInv == TickTypeOK /\ SentOnce

(* Nothing is sent before the first tick *)
LEMMA TickStart == TickInit => TickInv
  <1> USE ReaperAssumption DEF TickInit
  <1>1. TickInit => TickTypeOK
    BY EmptySeq DEF TickTypeOK
  <1>2. TickInit => SentOnce
    BY DEF SentOnce, Distinct, OncePerTick
  <1> QED
    BY <1>1, <1>2 DEF TickInv

(* The first batch: what is reclaimed is listed *)
LEMMA ReclaimStarts == TickInv /\ Reclaim => TickInv'
  <1> SUFFICES ASSUME TickInv, Reclaim PROVE TickInv'
    OBVIOUS
  <1> USE ReaperAssumption DEF TickInv
  <1>1. PICK S \in SUBSET {j \in TickJobs : row[j] = "stale"} :
          /\ row' = [j \in TickJobs |-> IF j \in S THEN "pending" ELSE row[j]]
          /\ reclaimed' = S
          /\ todo' = Oldest(S, SweepBatch)
    BY DEF Reclaim
  <1>2. /\ tickAt' = "reclaim" /\ sent' = [j \in TickJobs |-> 0]
        /\ UNCHANGED <<old, copies, tickFaults>>
    BY DEF Reclaim
  <1>3. S \in SUBSET TickJobs /\ SweepBatch \in Nat
    OBVIOUS
  <1>4. todo' \in Seq(TickJobs) /\ Len(todo') <= SweepBatch /\ Distinct(todo')
    BY <1>1, <1>3, Batch
  <1>5. \A k \in 1..Len(todo') : todo'[k] \in S
    BY <1>1, <1>3, Batch
  <1>6. TickTypeOK'
    BY <1>1, <1>2, <1>3, <1>4 DEF TickTypeOK
  <1>7. SentOnce'
    <2>1. \A j \in TickJobs : sent'[j] = 0
      BY <1>2
    <2>2. \A k \in 1..Len(todo') : todo'[k] \in reclaimed' /\ sent'[todo'[k]] = 0
      BY <1>1, <1>3, <1>5, <2>1
    <2> QED
      BY <1>2, <1>4, <2>1, <2>2 DEF SentOnce, OncePerTick
  <1> QED
    BY <1>6, <1>7

(* The second batch: what was sent so far is in the map *)
LEMMA SweepStarts == TickInv /\ Sweep => TickInv'
  <1> SUFFICES ASSUME TickInv, Sweep PROVE TickInv'
    OBVIOUS
  <1> USE ReaperAssumption DEF TickInv
  <1>1. /\ tickAt = "reclaim" /\ tickAt' = "sweep" /\ todo' = Oldest(Swept, SweepBatch)
        /\ UNCHANGED <<row, old, copies, reclaimed, sent, tickFaults>>
    BY DEF Sweep
  <1>2. Swept \in SUBSET TickJobs /\ SweepBatch \in Nat
    BY DEF Swept, TickTypeOK
  <1>3. todo' \in Seq(TickJobs) /\ Len(todo') <= SweepBatch /\ Distinct(todo')
    BY <1>1, <1>2, Batch
  <1>4. TickTypeOK'
    BY <1>1, <1>3 DEF TickTypeOK
  <1>5. SentOnce'
    <2> SUFFICES ASSUME NEW k \in 1..Len(todo')
                 PROVE  (sent[todo[k]] = 0 \/ Skipped(todo[k]))'
      BY <1>1, <1>3 DEF SentOnce, OncePerTick
    <2>1. todo'[k] \in TickJobs
      BY <1>3, ElementOfSeq
    <2>2. sent[todo'[k]] = 0 \/ sent[todo'[k]] > 0
      BY <2>1 DEF TickTypeOK
    <2>3. sent[todo'[k]] > 0 => todo'[k] \in reclaimed
      BY <1>1, <2>1 DEF SentOnce
    <2> QED
      BY <1>1, <2>2, <2>3 DEF Skipped
  <1> QED
    BY <1>4, <1>5

(* A job is sent once more or a fault is counted *)
LEMMA SendsTypes ==
  ASSUME TickTypeOK, NEW j \in TickJobs, Sends(j)
  PROVE  copies' \in [TickJobs -> 0..MaxCopies] /\ tickFaults' \in 0..MaxTickFaults
  <1> USE ReaperAssumption DEF TickTypeOK
  <1>1. CASE copies' = [copies EXCEPT ![j] = IF @ < MaxCopies THEN @ + 1 ELSE @] /\ UNCHANGED tickFaults
    <2>1. copies[j] \in 0..MaxCopies /\ MaxCopies \in Nat
      OBVIOUS
    <2>2. (IF copies[j] < MaxCopies THEN copies[j] + 1 ELSE copies[j]) \in 0..MaxCopies
      BY <2>1
    <2> QED
      BY <1>1, <2>2
  <1>2. CASE tickFaults < MaxTickFaults /\ tickFaults' = tickFaults + 1 /\ UNCHANGED copies
    BY <1>2
  <1> QED
    BY <1>1, <1>2 DEF Sends

(* A job of the list is sent, or passed over; the others wait on *)
LEMMA DispatchKeeps == TickInv /\ Dispatch => TickInv'
  <1> SUFFICES ASSUME TickInv, Dispatch PROVE TickInv'
    OBVIOUS
  <1> DEFINE j == Head(todo)
             goes == ~(j \in Unroutable \/ Skipped(j))
  <1> USE ReaperAssumption DEF TickInv
  <1>1. todo \in Seq(TickJobs) /\ todo # <<>> /\ Len(todo) \in 1..SweepBatch
    BY DEF Dispatch, TickTypeOK
  <1>2. /\ j \in TickJobs /\ j = todo[1]
        /\ todo' \in Seq(TickJobs) /\ Len(todo') = Len(todo) - 1
        /\ \A k \in 1..Len(todo') : k + 1 \in 1..Len(todo) /\ todo'[k] = todo[k + 1]
    BY <1>1 DEF Dispatch
  <1>3. /\ UNCHANGED <<row, old, tickAt, reclaimed>>
        /\ ~goes => UNCHANGED <<copies, sent, tickFaults>>
        /\ goes => Sends(j) /\ sent' = [sent EXCEPT ![j] = @ + 1]
    BY DEF Dispatch
  <1>4. sent \in [TickJobs -> Nat] /\ (goes => sent[j] = 0)
    <2>1. 1 \in 1..Len(todo)
      BY <1>1
    <2> QED
      BY <1>2, <2>1 DEF SentOnce, TickTypeOK
  <1>5. /\ sent' \in [TickJobs -> Nat]
        /\ \A i \in TickJobs \ {j} : sent'[i] = sent[i]
        /\ sent'[j] = IF goes THEN 1 ELSE sent[j]
    BY <1>2, <1>3, <1>4
  <1>6. /\ copies' \in [TickJobs -> 0..MaxCopies] /\ tickFaults' \in 0..MaxTickFaults
    <2>1. CASE goes
      BY <1>2, <1>3, <2>1, SendsTypes
    <2>2. CASE ~goes
      BY <1>3, <2>2 DEF TickTypeOK
    <2> QED
      BY <2>1, <2>2
  <1>7. TickTypeOK'
    <2>1. todo' \in Seq(TickJobs) /\ Len(todo') <= SweepBatch
      BY <1>1, <1>2
    <2>2. UNCHANGED <<row, old, tickAt, reclaimed>> /\ sent' \in [TickJobs -> Nat]
      BY <1>3, <1>5
    <2> HIDE DEF j, goes
    <2> QED
      BY <1>6, <2>1, <2>2 DEF TickTypeOK
  <1>8. SentOnce'
    <2>1. Distinct(todo)'
      BY <1>2 DEF SentOnce, Distinct
    <2>2. \A k \in 1..Len(todo') : todo'[k] \in TickJobs /\ todo'[k] # j
      <3> SUFFICES ASSUME NEW k \in 1..Len(todo') PROVE todo'[k] \in TickJobs /\ todo'[k] # j
        OBVIOUS
      <3>1. k + 1 \in 1..Len(todo) /\ todo'[k] = todo[k + 1] /\ 1 \in 1..Len(todo) /\ k + 1 # 1
        BY <1>1, <1>2
      <3> QED
        BY <1>1, <1>2, <3>1, ElementOfSeq DEF SentOnce, Distinct
    <2>3. (\A k \in 1..Len(todo) : sent[todo[k]] = 0 \/ Skipped(todo[k]))'
      <3> SUFFICES ASSUME NEW k \in 1..Len(todo') PROVE (sent[todo[k]] = 0 \/ Skipped(todo[k]))'
        OBVIOUS
      <3>1. k + 1 \in 1..Len(todo) /\ todo'[k] = todo[k + 1] /\ sent'[todo'[k]] = sent[todo'[k]]
        BY <1>2, <1>5, <2>2
      <3> QED
        BY <1>3, <3>1 DEF SentOnce, Skipped
    <2>4. tickAt = "reclaim" => j \in reclaimed
      <3>1. 1 \in 1..Len(todo)
        BY <1>1
      <3> QED
        BY <1>2, <3>1 DEF SentOnce
    <2>5. tickAt = "reclaim" =>
            /\ \A k \in 1..Len(todo') : todo'[k] \in reclaimed
            /\ \A i \in TickJobs : sent'[i] > 0 => i \in reclaimed
      BY <1>2, <1>5, <2>4 DEF SentOnce
    <2>6. OncePerTick'
      BY <1>4, <1>5 DEF SentOnce, OncePerTick
    <2>7. tickAt # "idle"
      BY <1>1 DEF SentOnce
    <2> QED
      BY <1>3, <2>1, <2>3, <2>5, <2>6, <2>7 DEF SentOnce
  <1> QED
    BY <1>7, <1>8

(* A tick ends, or stops where it is: the next one begins anew *)
LEMMA EndKeeps == TickInv /\ (TickEnds \/ TickFails) => TickInv'
  <1> SUFFICES ASSUME TickInv, TickEnds \/ TickFails PROVE TickInv'
    OBVIOUS
  <1> USE ReaperAssumption DEF TickInv, TickEnds, TickFails
  <1>1. /\ tickAt' = "idle" /\ todo' = <<>> /\ reclaimed' = {} /\ sent' = [j \in TickJobs |-> 0]
        /\ UNCHANGED <<row, old, copies>> /\ tickFaults' \in 0..MaxTickFaults
    BY DEF TickTypeOK
  <1>2. TickTypeOK'
    BY <1>1, EmptySeq DEF TickTypeOK
  <1>3. SentOnce'
    BY <1>1 DEF SentOnce, Distinct, OncePerTick
  <1> QED
    BY <1>2, <1>3

(* Whoever else writes rows and streams leaves the tick alone *)
LEMMA OthersLeaveTick ==
  ASSUME TickInv, NEW j \in TickJobs,
         Create(j) \/ AgesPastCutoff(j) \/ Receives(j) \/ Finishes(j) \/ WorkerDies(j) \/ Loses(j) \/ Cancel(j)
  PROVE  TickInv'
  <1> USE ReaperAssumption DEF TickInv
  <1>1. UNCHANGED <<tickAt, todo, reclaimed, sent>>
    BY DEF Create, AgesPastCutoff, Receives, Finishes, WorkerDies, Loses, Cancel
  <1>2. row' \in [TickJobs -> {"absent", "pending", "running", "stale", "over"}]
    BY DEF TickTypeOK, Create, AgesPastCutoff, Receives, Finishes, WorkerDies, Loses, Cancel
  <1>3. old' \subseteq TickJobs
    BY DEF TickTypeOK, Create, AgesPastCutoff, Receives, Finishes, WorkerDies, Loses, Cancel
  <1>4. copies' \in [TickJobs -> 0..MaxCopies] /\ tickFaults' \in 0..MaxTickFaults
    <2>1. CASE Create(j)
      BY <2>1, SendsTypes DEF Create, TickTypeOK
    <2>2. CASE Receives(j) \/ Loses(j)
      <3>1. copies[j] \in 0..MaxCopies /\ copies[j] > 0 /\ copies[j] - 1 \in 0..MaxCopies
        BY <2>2 DEF Receives, Loses, TickTypeOK
      <3> QED
        BY <2>2, <3>1 DEF Receives, Loses, TickTypeOK
    <2>3. CASE AgesPastCutoff(j) \/ Finishes(j) \/ WorkerDies(j) \/ Cancel(j)
      BY <2>3 DEF AgesPastCutoff, Finishes, WorkerDies, Cancel, TickTypeOK
    <2> QED
      BY <2>1, <2>2, <2>3
  <1>5. TickTypeOK'
    BY <1>1, <1>2, <1>3, <1>4 DEF TickTypeOK
  <1>6. SentOnce'
    BY <1>1 DEF SentOnce, Skipped, OncePerTick
  <1> QED
    BY <1>5, <1>6

(* The invariant of the tick holds always *)
THEOREM TickInvariant == TickSpec => []TickInv
  <1>1. TickInv /\ [TickNext]_tickVars => TickInv'
    <2> SUFFICES ASSUME TickInv, [TickNext]_tickVars PROVE TickInv'
      OBVIOUS
    <2>1. CASE UNCHANGED tickVars
      BY <2>1 DEF tickVars, TickInv, TickTypeOK, SentOnce, Skipped, OncePerTick
    <2> QED
      BY <2>1, ReclaimStarts, SweepStarts, DispatchKeeps, EndKeeps, OthersLeaveTick DEF TickNext
  <1> QED
    BY <1>1, TickStart, PTL DEF TickSpec

(* Type correctness of the tick: no list is longer than a batch *)
THEOREM TickTypeCorrect == TickSpec => []TickTypeOK
  BY TickInvariant, PTL DEF TickInv

(* One tick sends a job at most once (Tick's map of reclaimed jobs) *)
THEOREM TickSendsOnce == TickSpec => []OncePerTick
  <1>1. TickInv => OncePerTick
    BY DEF TickInv, SentOnce
  <1> QED
    BY <1>1, TickInvariant, PTL
=============================================================================
