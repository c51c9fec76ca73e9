-------------------------- MODULE PartitionsProofs --------------------------
(***************************************************************************)
(* Proofs about Partitions: its type invariant, for every deployment, and, *)
(* for one that starts within the migrations' partitions and runs a cycle  *)
(* in time, that DEFAULT stays empty, however far ahead a cycle looks and  *)
(* however many schedulers run cycles side by side.                        *)
(***************************************************************************)
EXTENDS Partitions, TLAPS

\* The cycles' records, one at a time
LEMMA CycleRecords ==
  ASSUME PartTypeOK, NEW s \in Schedulers
  PROVE  /\ cycle[s].base \in -1..0
         /\ cycle[s].i \in 0..Ahead
         /\ cycle[s].at \in CycleSteps \union {"idle"}
         /\ cycle[s].at # "idle" => cycle[s] \in [at : CycleSteps, base : -1..0, i : 0..Ahead]
BY PartitionAssumption DEF PartTypeOK, Idle, CycleSteps

\* The next index of a loop is a step of it, or of the purge.
LEMMA NextIndexTyped ==
  ASSUME PartTypeOK, NEW s \in Schedulers, cycle[s].at # "idle"
  PROVE  NextIndex(s) \in [at : CycleSteps, base : -1..0, i : 0..Ahead]
<1>1. cycle[s].base \in -1..0 /\ cycle[s].i \in 0..Ahead
  BY CycleRecords
<1>2. CASE cycle[s].i < Ahead
  <2>1. cycle[s].i + 1 \in 0..Ahead
    BY <1>1, <1>2, PartitionAssumption
  <2> QED
    BY <1>1, <1>2, <2>1 DEF NextIndex, CycleSteps
<1>3. CASE ~(cycle[s].i < Ahead)
  BY <1>1, <1>3 DEF NextIndex, CycleSteps
<1> QED
  BY <1>2, <1>3

\* A cycle that ends leaves the counter of months in its range.
LEMMA EndedTyped ==
  ASSUME PartTypeOK, NEW s \in Schedulers, Ended(s)
  PROVE  /\ lag' \in 0..MaxLag
         /\ cycle' \in [Schedulers -> [at : CycleSteps, base : -1..0, i : 0..Ahead] \union {Idle}]
<1>1. cycle[s].base \in -1..0 /\ lag \in 0..MaxLag /\ MaxLag \in Nat
  BY CycleRecords, PartitionAssumption DEF PartTypeOK
<1>2. lag' \in 0..MaxLag
  BY <1>1 DEF Ended
<1>3. cycle' = [cycle EXCEPT ![s] = Idle]
  BY DEF Ended, CycleGoes
<1> QED
  BY <1>2, <1>3 DEF PartTypeOK

LEMMA TypeInit == PartInit => PartTypeOK
BY PartitionAssumption DEF PartInit, PartTypeOK, Idle

\* A month's end keeps the types.
LEMMA TypeNextMonth ==
  ASSUME PartTypeOK, NextMonth
  PROVE  PartTypeOK'
<1> USE PartitionAssumption
<1>1. parts' \subseteq -1..Horizon /\ eparts' \subseteq -1..Horizon
  BY DEF NextMonth, Shift
<1>2. dflt' \subseteq -1..0 /\ edflt' \subseteq -1..0
  <2>1. \A m \in -1..Horizon : m + 1 \in -1..0 => m \in -1..0
    OBVIOUS
  <2> QED
    BY <2>1 DEF NextMonth, Shift, PartTypeOK
<1>3. cycle' \in [Schedulers -> [at : CycleSteps, base : -1..0, i : 0..Ahead] \union {Idle}]
  <2> SUFFICES ASSUME NEW s \in Schedulers
               PROVE  cycle'[s] \in [at : CycleSteps, base : -1..0, i : 0..Ahead] \union {Idle}
    BY DEF NextMonth
  <2>1. CASE cycle[s].at = "idle"
    BY <2>1 DEF NextMonth, PartTypeOK
  <2>2. CASE cycle[s].at # "idle"
    <3>1. cycle[s] \in [at : CycleSteps, base : -1..0, i : 0..Ahead]
      BY <2>2, CycleRecords
    <3>2. cycle'[s] = [at |-> cycle[s].at, base |-> -1, i |-> cycle[s].i]
      BY <2>2 DEF NextMonth
    <3> QED
      BY <3>1, <3>2
  <2> QED
    BY <2>1, <2>2
<1>4. lag' \in 0..MaxLag
  BY DEF NextMonth, PartTypeOK
<1> QED
  BY <1>1, <1>2, <1>3, <1>4 DEF NextMonth, PartTypeOK

\* So does every other step.
LEMMA TypeStep ==
  ASSUME PartTypeOK, [PartNext]_partVars
  PROVE  PartTypeOK'
<1> USE PartitionAssumption
<1> DEFINE Cycles == [at : CycleSteps, base : -1..0, i : 0..Ahead]
<1>0. 0 \in -1..0 /\ Ahead \in Nat
  OBVIOUS
<1>1. CASE InsertOther
  BY <1>1 DEF InsertOther, RowLands, EventLands, PartTypeOK
<1>2. CASE NextMonth
  BY <1>2, TypeNextMonth
<1>3. ASSUME NEW j \in Jobs, Insert(j) \/ Settle(j) \/ Ages(j)
      PROVE  PartTypeOK'
  <2>1. jobRows' \in [Jobs -> {"absent", "live", "done", "old", "purged"}]
    <3>1. CASE Insert(j)
      BY <3>1 DEF Insert, PartTypeOK
    <3>2. CASE Settle(j)
      BY <3>2 DEF Settle, PartTypeOK
    <3>3. CASE Ages(j)
      BY <3>3 DEF Ages, PartTypeOK
    <3> QED
      BY <1>3, <3>1, <3>2, <3>3
  <2>2. dflt' \subseteq -1..0 /\ edflt' \subseteq -1..0
    <3>1. 0 \in -1..0
      OBVIOUS
    <3>2. RowLands \/ dflt' = dflt
      BY <1>3 DEF Insert, Settle, Ages
    <3>3. EventLands \/ edflt' = edflt
      BY <1>3 DEF Insert, Settle, Ages
    <3> QED
      BY <3>1, <3>2, <3>3 DEF RowLands, EventLands, PartTypeOK
  <2>3. UNCHANGED <<parts, eparts, cycle, lag, cycleFaults>>
    BY <1>3 DEF Insert, Settle, Ages
  <2> QED
    BY <2>1, <2>2, <2>3 DEF PartTypeOK
<1>4. ASSUME NEW s \in Schedulers,
             Tick(s) \/ EnsureJobs(s) \/ EnsureEvents(s) \/ EnsureFails(s) \/ Purge(s) \/ CycleFails(s)
      PROVE  PartTypeOK'
  <2>1. cycle[s].base \in -1..0 /\ cycle[s].i \in 0..Ahead /\ Pos(s) \in -1..Horizon
    <3>1. cycle[s].base \in -1..0 /\ cycle[s].i \in 0..Ahead
      BY CycleRecords
    <3> QED
      BY <3>1 DEF Pos
  <2>2. CASE Tick(s)
    <3>1. [at |-> "jobs", base |-> 0, i |-> 0] \in Cycles
      BY <1>0 DEF CycleSteps
    <3> QED
      BY <2>2, <3>1 DEF Tick, CycleGoes, PartTypeOK
  <2>3. CASE EnsureJobs(s)
    <3>1. [at |-> "events", base |-> cycle[s].base, i |-> cycle[s].i] \in Cycles
      BY <2>1 DEF CycleSteps
    <3> QED
      BY <2>1, <2>3, <3>1 DEF EnsureJobs, CycleGoes, PartTypeOK
  <2>4. CASE EnsureEvents(s)
    <3>1. NextIndex(s) \in Cycles
      BY <2>4, NextIndexTyped DEF EnsureEvents
    <3> QED
      BY <2>1, <2>4, <3>1 DEF EnsureEvents, CycleGoes, PartTypeOK
  <2>5. CASE EnsureFails(s)
    BY <2>5, EndedTyped DEF EnsureFails, PartTypeOK
  <2>6. CASE Purge(s)
    <3>1. lag' \in 0..MaxLag /\ cycle' \in [Schedulers -> Cycles \union {Idle}]
      BY <2>6, EndedTyped DEF Purge
    <3>2. dflt' \subseteq dflt
      BY <2>6 DEF Purge
    <3>3. jobRows' \in [Jobs -> {"absent", "live", "done", "old", "purged"}]
      BY <2>6 DEF Purge, PartTypeOK
    <3> QED
      BY <2>6, <3>1, <3>2, <3>3 DEF Purge, PartTypeOK
  <2>7. CASE CycleFails(s)
    BY <2>7 DEF CycleFails, CycleGoes, PartTypeOK
  <2> QED
    BY <1>4, <2>2, <2>3, <2>4, <2>5, <2>6, <2>7
<1>5. CASE UNCHANGED partVars
  BY <1>5 DEF partVars, PartTypeOK
<1> QED
  BY <1>1, <1>2, <1>3, <1>4, <1>5 DEF PartNext

-----------------------------------------------------------------------------
\* What keeps DEFAULT empty: the months that may come before a cycle has run
\* to its end again have their partitions, and every cycle has made those of
\* the months it has passed.
Covers(months, to) == \A m \in 0..Horizon : m <= to => m \in months

Passed(s) ==
  /\ cycle[s].at = "jobs" => Covers(parts, Pos(s) - 1) /\ Covers(eparts, Pos(s) - 1)
  /\ cycle[s].at = "events" => Covers(parts, Pos(s)) /\ Covers(eparts, Pos(s) - 1)
  /\ cycle[s].at = "purge" =>
       Covers(parts, cycle[s].base + Ahead) /\ Covers(eparts, cycle[s].base + Ahead)

PartInv ==
  /\ PartTypeOK
  /\ DefaultStaysEmpty
  /\ Covers(parts, Ahead - lag) /\ Covers(eparts, Ahead - lag)
  /\ \A s \in Schedulers : Passed(s)

\* A deployment in time: the migrations' partitions reach as far ahead as a
\* cycle looks, and cycles are run to their end often enough.
InTime == 0..Ahead \subseteq Bootstrapped /\ MaxLag <= Ahead

LEMMA InvInit == InTime /\ PartInit => PartInv
<1> SUFFICES ASSUME InTime, PartInit PROVE PartInv
  OBVIOUS
<1>1. PartTypeOK
  BY TypeInit
<1>2. Covers(parts, Ahead - lag) /\ Covers(eparts, Ahead - lag)
  BY PartitionAssumption DEF Covers, PartInit, InTime
<1>3. \A s \in Schedulers : Passed(s)
  BY DEF PartInit, Passed, Idle
<1> QED
  BY <1>1, <1>2, <1>3 DEF PartInv, PartInit, DefaultStaysEmpty

\* More months, or a nearer end, are covered as well.
LEMMA CoversMore ==
  ASSUME NEW months, NEW more, months \subseteq more, NEW to \in Int, NEW near \in Int, near <= to,
         Covers(months, to)
  PROVE  Covers(more, near)
BY PartitionAssumption DEF Covers

\* A month later, the months that are covered end one month nearer.
LEMMA CoversShifted ==
  ASSUME NEW months, NEW to \in Int, to <= Horizon, Covers(months, to)
  PROVE  Covers(Shift(months), to - 1)
<1> SUFFICES ASSUME NEW m \in 0..Horizon, m <= to - 1
             PROVE  m \in Shift(months)
  BY DEF Covers
<1>1. m + 1 \in 0..Horizon /\ m + 1 <= to
  BY PartitionAssumption
<1>2. m \in -1..Horizon
  BY PartitionAssumption
<1> QED
  BY <1>1, <1>2 DEF Covers, Shift

\* One month more is covered when its partition is there.
LEMMA CoversOneMore ==
  ASSUME NEW months, NEW to \in Int, Covers(months, to - 1)
  PROVE  Covers(months \union {to}, to)
BY PartitionAssumption DEF Covers

\* In time, the present month has its partitions.
LEMMA PresentCovered ==
  ASSUME PartInv, InTime
  PROVE  0 \in parts /\ 0 \in eparts
<1>1. lag \in Nat /\ lag <= Ahead /\ 0 \in 0..Horizon
  BY PartitionAssumption DEF PartInv, PartTypeOK, InTime
<1>2. 0 <= Ahead - lag
  BY <1>1, PartitionAssumption
<1> QED
  BY <1>1, <1>2 DEF PartInv, Covers

\* The steps that make no partition leave the cycles' and the months' cover.
LEMMA InvRows ==
  ASSUME PartInv, PartTypeOK', DefaultStaysEmpty', UNCHANGED <<parts, eparts, cycle, lag>>
  PROVE  PartInv'
<1>1. \A s \in Schedulers : Passed(s)'
  BY DEF PartInv, Passed, Covers, Pos
<1>2. (Covers(parts, Ahead - lag) /\ Covers(eparts, Ahead - lag))'
  BY DEF PartInv, Covers
<1> QED
  BY <1>1, <1>2 DEF PartInv

LEMMA InvNextMonth ==
  ASSUME PartInv, PartTypeOK', NextMonth
  PROVE  PartInv'
<1>0. lag \in Int /\ Ahead \in Nat /\ Horizon \in Nat /\ Ahead <= Horizon /\ lag >= 0
  BY PartitionAssumption DEF PartInv, PartTypeOK
<1>1. DefaultStaysEmpty'
  BY DEF PartInv, DefaultStaysEmpty, NextMonth, Shift
<1>2. (Covers(parts, Ahead - lag) /\ Covers(eparts, Ahead - lag))'
  <2>1. Ahead - lag \in Int /\ Ahead - lag <= Horizon
    BY <1>0
  <2>2. Covers(Shift(parts), (Ahead - lag) - 1) /\ Covers(Shift(eparts), (Ahead - lag) - 1)
    BY <2>1, CoversShifted DEF PartInv
  <2>3. Ahead - lag' = (Ahead - lag) - 1
    BY <1>0 DEF NextMonth
  <2>4. parts' = Shift(parts) /\ eparts' = Shift(eparts)
    BY DEF NextMonth
  <2> QED
    BY <2>2, <2>3, <2>4 DEF Covers
<1>3. ASSUME NEW s \in Schedulers
      PROVE  Passed(s)'
  <2>1. CASE cycle[s].at = "idle"
    <3>1. cycle'[s].at = "idle"
      BY <2>1 DEF NextMonth
    <3> QED
      BY <3>1 DEF Passed
  <2>2. CASE cycle[s].at # "idle"
    <3>1. cycle[s].base = 0 /\ cycle'[s] = [at |-> cycle[s].at, base |-> -1, i |-> cycle[s].i]
      BY <2>2 DEF NextMonth
    <3>2. cycle[s].i \in 0..Ahead
      BY CycleRecords DEF PartInv
    <3>3. Pos(s) = cycle[s].i /\ Pos(s)' = cycle[s].i - 1
      BY <3>1, <3>2 DEF Pos
    <3>4. parts' = Shift(parts) /\ eparts' = Shift(eparts)
      BY DEF NextMonth
    <3>5. CASE cycle[s].at = "jobs"
      <4>1. Covers(parts, cycle[s].i - 1) /\ Covers(eparts, cycle[s].i - 1)
        BY <3>3, <3>5 DEF PartInv, Passed
      <4>2. cycle[s].i - 1 \in Int /\ cycle[s].i - 1 <= Horizon
        BY <1>0, <3>2
      <4>3. Covers(Shift(parts), (cycle[s].i - 1) - 1) /\ Covers(Shift(eparts), (cycle[s].i - 1) - 1)
        BY <4>1, <4>2, CoversShifted
      <4> QED
        BY <3>1, <3>3, <3>4, <3>5, <4>3 DEF Passed, Covers
    <3>6. CASE cycle[s].at = "events"
      <4>1. Covers(parts, cycle[s].i) /\ Covers(eparts, cycle[s].i - 1)
        BY <3>3, <3>6 DEF PartInv, Passed
      <4>2. cycle[s].i \in Int /\ cycle[s].i <= Horizon /\ cycle[s].i - 1 \in Int /\ cycle[s].i - 1 <= Horizon
        BY <1>0, <3>2
      <4>3. Covers(Shift(parts), cycle[s].i - 1) /\ Covers(Shift(eparts), (cycle[s].i - 1) - 1)
        BY <4>1, <4>2, CoversShifted
      <4> QED
        BY <3>1, <3>3, <3>4, <3>6, <4>3 DEF Passed, Covers
    <3>7. CASE cycle[s].at = "purge"
      <4>1. Covers(parts, Ahead) /\ Covers(eparts, Ahead)
        BY <1>0, <3>1, <3>7 DEF PartInv, Passed
      <4>2. Covers(Shift(parts), Ahead - 1) /\ Covers(Shift(eparts), Ahead - 1)
        BY <1>0, <4>1, CoversShifted
      <4>3. cycle'[s].base + Ahead = Ahead - 1
        BY <1>0, <3>1
      <4> QED
        BY <3>1, <3>4, <3>7, <4>2, <4>3 DEF Passed, Covers
    <3> QED
      BY <2>2, <3>5, <3>6, <3>7, CycleRecords DEF PartInv, CycleSteps
  <2> QED
    BY <2>1, <2>2
<1> QED
  BY <1>1, <1>2, <1>3 DEF PartInv

\* A scheduler's step that makes no fewer partitions, leaves the months as
\* they are and the other cycles alone, keeps the invariant if its own cycle
\* stays in order.
LEMMA InvCycle ==
  ASSUME PartInv, PartTypeOK', DefaultStaysEmpty', NEW s \in Schedulers, NEW c,
         cycle' = [cycle EXCEPT ![s] = c],
         parts \subseteq parts', eparts \subseteq eparts', lag' = lag, Passed(s)'
  PROVE  PartInv'
<1>1. ASSUME NEW r \in Schedulers PROVE Passed(r)'
  <2>1. CASE r = s
    BY <2>1
  <2>2. CASE r # s
    <3>1. cycle'[r] = cycle[r]
      BY <2>2 DEF PartInv, PartTypeOK
    <3>2. Pos(r)' = Pos(r)
      BY <3>1 DEF Pos
    <3> QED
      BY <3>1, <3>2 DEF PartInv, Passed, Covers
  <2> QED
    BY <2>1, <2>2
<1>2. (Covers(parts, Ahead - lag) /\ Covers(eparts, Ahead - lag))'
  BY DEF PartInv, Covers
<1> QED
  BY <1>1, <1>2 DEF PartInv

LEMMA InvEnsure ==
  ASSUME PartInv, PartTypeOK', NEW s \in Schedulers, Tick(s) \/ EnsureJobs(s) \/ EnsureEvents(s)
  PROVE  PartInv'
<1>0. cycle[s].base \in -1..0 /\ cycle[s].i \in 0..Ahead /\ Pos(s) \in Int /\ Ahead \in Nat
  <2>1. cycle[s].base \in -1..0 /\ cycle[s].i \in 0..Ahead
    BY CycleRecords DEF PartInv
  <2> QED
    BY <2>1, PartitionAssumption DEF Pos
<1>1. DefaultStaysEmpty'
  BY DEF PartInv, DefaultStaysEmpty, Tick, EnsureJobs, EnsureEvents
<1>2. cycle \in [Schedulers -> [at : CycleSteps, base : -1..0, i : 0..Ahead] \union {Idle}]
  BY DEF PartInv, PartTypeOK
<1>3. CASE Tick(s)
  <2> DEFINE c == [at |-> "jobs", base |-> 0, i |-> 0]
  <2>1. cycle' = [cycle EXCEPT ![s] = c] /\ parts' = parts /\ eparts' = eparts /\ lag' = lag
    BY <1>3 DEF Tick, CycleGoes
  <2>2. cycle'[s] = c
    BY <1>2, <2>1
  <2>3. Pos(s)' = 0
    BY <2>2 DEF Pos
  <2>4. Passed(s)'
    BY <2>2, <2>3, PartitionAssumption DEF Passed, Covers
  <2> QED
    BY <1>1, <2>1, <2>4, InvCycle
<1>4. CASE EnsureJobs(s)
  <2> DEFINE c == [at |-> "events", base |-> cycle[s].base, i |-> cycle[s].i]
  <2>1. cycle' = [cycle EXCEPT ![s] = c] /\ parts' = parts \union {Pos(s)} /\ eparts' = eparts /\ lag' = lag
    BY <1>4 DEF EnsureJobs, CycleGoes
  <2>2. cycle'[s] = c
    BY <1>2, <2>1
  <2>3. Pos(s)' = Pos(s)
    BY <2>2 DEF Pos
  <2>4. Covers(parts, Pos(s) - 1) /\ Covers(eparts, Pos(s) - 1)
    BY <1>4 DEF PartInv, Passed, EnsureJobs
  <2>5. Covers(parts \union {Pos(s)}, Pos(s))
    BY <1>0, <2>4, CoversOneMore
  <2>6. Passed(s)'
    BY <2>1, <2>2, <2>3, <2>4, <2>5 DEF Passed, Covers
  <2>7. parts \subseteq parts' /\ eparts \subseteq eparts'
    BY <2>1
  <2> QED
    BY <1>1, <2>1, <2>6, <2>7, InvCycle
<1>5. CASE EnsureEvents(s)
  <2>1. cycle' = [cycle EXCEPT ![s] = NextIndex(s)] /\ eparts' = eparts \union {Pos(s)} /\ parts' = parts /\ lag' = lag
    BY <1>5 DEF EnsureEvents, CycleGoes
  <2>2. cycle'[s] = NextIndex(s)
    BY <1>2, <2>1
  <2>3. Covers(parts, Pos(s)) /\ Covers(eparts, Pos(s) - 1)
    BY <1>5 DEF PartInv, Passed, EnsureEvents
  <2>4. Covers(eparts \union {Pos(s)}, Pos(s))
    BY <1>0, <2>3, CoversOneMore
  <2>5. Passed(s)'
    <3>1. CASE cycle[s].i < Ahead
      <4>1. cycle'[s] = [at |-> "jobs", base |-> cycle[s].base, i |-> cycle[s].i + 1]
        BY <2>2, <3>1 DEF NextIndex
      <4>2. Pos(s)' - 1 = Pos(s)
        BY <1>0, <4>1 DEF Pos
      <4> QED
        BY <2>1, <2>3, <2>4, <4>1, <4>2 DEF Passed, Covers
    <3>2. CASE ~(cycle[s].i < Ahead)
      <4>1. cycle'[s] = [at |-> "purge", base |-> cycle[s].base, i |-> cycle[s].i]
        BY <2>2, <3>2 DEF NextIndex
      <4>2. cycle'[s].base + Ahead = Pos(s)
        BY <1>0, <3>2, <4>1 DEF Pos
      <4> QED
        BY <2>1, <2>3, <2>4, <4>1, <4>2 DEF Passed, Covers
    <3> QED
      BY <3>1, <3>2
  <2>6. parts \subseteq parts' /\ eparts \subseteq eparts'
    BY <2>1
  <2> QED
    BY <1>1, <2>1, <2>5, <2>6, InvCycle
<1> QED
  BY <1>3, <1>4, <1>5

\* The end of a cycle: the counter of months starts again from its clock, and
\* the partitions it made reach as far ahead of that.
LEMMA InvEnds ==
  ASSUME PartInv, PartTypeOK', NEW s \in Schedulers, Purge(s) \/ CycleFails(s)
  PROVE  PartInv'
<1>1. cycle' = [cycle EXCEPT ![s] = Idle] /\ parts' = parts /\ eparts' = eparts
  BY DEF Purge, CycleFails, Ended, CycleGoes
<1>2. DefaultStaysEmpty'
  BY DEF PartInv, DefaultStaysEmpty, Purge, CycleFails
<1>3. ASSUME NEW r \in Schedulers PROVE Passed(r)'
  <2>1. CASE r = s
    <3>1. cycle'[r] = Idle
      BY <1>1, <2>1 DEF PartInv, PartTypeOK
    <3> QED
      BY <3>1 DEF Passed, Idle
  <2>2. CASE r # s
    <3>1. cycle'[r] = cycle[r]
      BY <1>1, <2>2 DEF PartInv, PartTypeOK
    <3>2. Pos(r)' = Pos(r)
      BY <3>1 DEF Pos
    <3> QED
      BY <1>1, <3>1, <3>2 DEF PartInv, Passed, Covers
  <2> QED
    BY <2>1, <2>2
<1>4. (Covers(parts, Ahead - lag) /\ Covers(eparts, Ahead - lag))'
  <2>1. CASE lag' = lag
    BY <1>1, <2>1 DEF PartInv, Covers
  <2>2. CASE lag' # lag
    <3>1. cycle[s].at = "purge" /\ lag' = -cycle[s].base
      BY <2>2 DEF Purge, CycleFails, Ended
    <3>2. cycle[s].base \in -1..0 /\ Ahead \in Nat
      BY CycleRecords, PartitionAssumption DEF PartInv
    <3>3. Ahead - lag' = cycle[s].base + Ahead
      BY <3>1, <3>2
    <3>4. Covers(parts, cycle[s].base + Ahead) /\ Covers(eparts, cycle[s].base + Ahead)
      BY <3>1 DEF PartInv, Passed
    <3> QED
      BY <1>1, <3>3, <3>4 DEF Covers
  <2> QED
    BY <2>1, <2>2
<1> QED
  BY <1>2, <1>3, <1>4 DEF PartInv

LEMMA InvStep ==
  ASSUME InTime, PartInv, [PartNext]_partVars
  PROVE  PartInv'
<1>0. PartTypeOK'
  BY TypeStep DEF PartInv
<1>1. 0 \in parts /\ 0 \in eparts
  BY PresentCovered
<1>2. CASE InsertOther \/ \E j \in Jobs : Insert(j) \/ Settle(j) \/ Ages(j)
  <2>1. DefaultStaysEmpty'
    BY <1>1, <1>2 DEF PartInv, DefaultStaysEmpty, InsertOther, Insert, Settle, Ages, RowLands, EventLands
  <2>2. UNCHANGED <<parts, eparts, cycle, lag>>
    BY <1>2 DEF InsertOther, Insert, Settle, Ages
  <2> QED
    BY <1>0, <2>1, <2>2, InvRows
<1>3. CASE NextMonth
  BY <1>0, <1>3, InvNextMonth
<1>4. ASSUME NEW s \in Schedulers, Tick(s) \/ EnsureJobs(s) \/ EnsureEvents(s)
      PROVE  PartInv'
  BY <1>0, <1>4, InvEnsure
\* With DEFAULT empty, no partition is refused.
<1>5. ASSUME NEW s \in Schedulers, EnsureFails(s)
      PROVE  FALSE
  BY <1>5 DEF EnsureFails, PartInv, DefaultStaysEmpty
<1>6. ASSUME NEW s \in Schedulers, Purge(s) \/ CycleFails(s)
      PROVE  PartInv'
  BY <1>0, <1>6, InvEnds
<1>7. CASE UNCHANGED partVars
  BY <1>0, <1>7, InvRows DEF partVars, PartInv, DefaultStaysEmpty
<1> QED
  BY <1>2, <1>3, <1>4, <1>5, <1>6, <1>7 DEF PartNext

-----------------------------------------------------------------------------
\* In every deployment, in time or not, months and cycles stay in their ranges.
THEOREM PartTypeCorrect == PartSafe => []PartTypeOK
<1>1. PartInit => PartTypeOK
  BY TypeInit
<1>2. PartTypeOK /\ [PartNext]_partVars => PartTypeOK'
  BY TypeStep
<1> QED
  BY <1>1, <1>2, PTL DEF PartSafe

\* In a deployment in time no row of jobs or job_events ever lands in DEFAULT,
\* for every number of schedulers, months ahead and interleaving of their
\* cycles with inserts, errors, deaths and the ends of months.
THEOREM DefaultUnused ==
  ASSUME InTime
  PROVE  PartSafe => []DefaultStaysEmpty
<1>1. PartInit => PartInv
  BY InvInit
<1>2. PartInv /\ [PartNext]_partVars => PartInv'
  BY InvStep
<1>3. PartInv => DefaultStaysEmpty
  BY DEF PartInv
<1> QED
  BY <1>1, <1>2, <1>3, PTL DEF PartSafe
=============================================================================
