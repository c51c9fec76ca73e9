------------------------------ MODULE ExecRun ------------------------------
(***************************************************************************)
(* Runner.Run: a child process, the two goroutines of os/exec that copy    *)
(* its stdout and stderr, and Wait, which returns when the child is gone   *)
(* and both pipes are at their end.  Each pipe has a cappedWriter of its   *)
(* own, so the goroutines share the buffer without a lock.  A descendant   *)
(* of the child that inherits the pipes is not killed with it.             *)
(* (src/internal/task/handlers/exec.go)                                    *)
(***************************************************************************)
EXTENDS Integers

CONSTANTS
  Max,       \* MaxOutput, in units of output
  MaxWrite,  \* bound: units a copier reads at a time
  MaxReads   \* bound: reads of each copier

Pipes == {"stdout", "stderr"}

ASSUME ExecAssumption == {Max, MaxWrite, MaxReads} \subseteq Nat \ {0}

VARIABLES
  at,          \* Run: ready, waiting or returned; the process crashed
  child,       \* none, running, ok, failed or killed
  descendant,  \* one that holds the pipes is alive
  expired,     \* the context is past its deadline
  copier,      \* per pipe: reading, holding, copying or eof
  taken,       \* per pipe: the units Write was called with
  grow,        \* per pipe: the units left of them under the cap
  seen,        \* per pipe: the buffer's length when the copy began
  len,         \* W.Len()
  reads,       \* per pipe: reads so far
  result       \* none, ok or err

execVars == <<at, child, descendant, expired, copier, taken, grow, seen, len, reads, result>>
procVars == <<at, child, descendant, expired, result>>

ExecTypeOK ==
  /\ at \in {"ready", "waiting", "returned", "crashed"}
  /\ child \in {"none", "running", "ok", "failed", "killed"}
  /\ descendant \in BOOLEAN /\ expired \in BOOLEAN
  /\ copier \in [Pipes -> {"reading", "holding", "copying", "eof"}]
  /\ taken \in [Pipes -> 0..MaxWrite] /\ grow \in [Pipes -> 0..Max]
  /\ seen \in [Pipes -> Nat] /\ len \in Nat
  /\ reads \in [Pipes -> 0..MaxReads]
  /\ result \in {"none", "ok", "err"}

ExecInit ==
  /\ at = "ready" /\ child = "none" /\ descendant = FALSE /\ expired = FALSE
  /\ copier = [p \in Pipes |-> "reading"]
  /\ taken = [p \in Pipes |-> 0] /\ grow = [p \in Pipes |-> 0] /\ seen = [p \in Pipes |-> 0]
  /\ len = 0 /\ reads = [p \in Pipes |-> 0]
  /\ result = "none"

\* Run up to cmd.Start.  What it refuses it answers at once: a command off
\* the allowlist, a context that is done, a binary that does not start.
Start ==
  /\ at = "ready"
  /\ \/ ~expired /\ at' = "waiting" /\ child' = "running" /\ descendant' \in BOOLEAN /\ UNCHANGED result
     \/ at' = "returned" /\ result' = "err" /\ UNCHANGED <<child, descendant>>
  /\ UNCHANGED <<expired, copier, taken, grow, seen, len, reads>>

Exits ==
  /\ child = "running" /\ child' \in {"ok", "failed"}
  /\ UNCHANGED <<at, descendant, expired, copier, taken, grow, seen, len, reads, result>>

Expires ==
  /\ ~expired /\ at # "returned" /\ expired' = TRUE
  /\ UNCHANGED <<at, child, descendant, copier, taken, grow, seen, len, reads, result>>

\* CommandContext: the child is killed, and nobody else.
Kill ==
  /\ at = "waiting" /\ expired /\ child = "running" /\ child' = "killed"
  /\ UNCHANGED <<at, descendant, expired, copier, taken, grow, seen, len, reads, result>>

DescendantEnds ==
  /\ descendant /\ descendant' = FALSE
  /\ UNCHANGED <<at, child, expired, copier, taken, grow, seen, len, reads, result>>

-----------------------------------------------------------------------------
\* A copier's goroutine
Open == child = "running" \/ descendant

\* A read of the pipe that ends in a call of Write
CopierReads(p) ==
  /\ at = "waiting" /\ Open /\ copier[p] = "reading" /\ reads[p] < MaxReads
  /\ taken' \in {[taken EXCEPT ![p] = n] : n \in 1..MaxWrite}
  /\ copier' = [copier EXCEPT ![p] = "holding"]
  /\ reads' = [reads EXCEPT ![p] = @ + 1]
  /\ UNCHANGED <<procVars, grow, seen, len>>

\* Mutant: the cap is for each write
RoomPerWrite == Max

Room == IF len < Max THEN Max - len ELSE 0

\* cappedWriter.Write: the room it finds, then a copy into the buffer that
\* starts from the length it finds.
CapChecks(p) ==
  /\ at = "waiting" /\ copier[p] = "holding"
  /\ grow' = [grow EXCEPT ![p] = IF taken[p] > Room THEN Room ELSE taken[p]]
  /\ seen' = [seen EXCEPT ![p] = len]
  /\ copier' = [copier EXCEPT ![p] = IF Room = 0 THEN "reading" ELSE "copying"]
  /\ UNCHANGED <<procVars, taken, len, reads>>

\* The outcomes of a copy next to another: it comes after it, it undoes it,
\* or, if the buffer's slice was torn in between, the process crashes.
Raced(p) == \E q \in Pipes \ {p} : copier[q] = "copying"
Copies(p) ==
  /\ at = "waiting" /\ copier[p] = "copying"
  /\ len' \in {len + grow[p], seen[p] + grow[p]}
  /\ copier' = [copier EXCEPT ![p] = "reading"]
  /\ \/ UNCHANGED at
     \/ Raced(p) /\ at' = "crashed"
  /\ UNCHANGED <<child, descendant, expired, taken, grow, seen, reads, result>>

\* Mutant: a copier waits for more to read than there can be
EndsWhenIdle(p) ==
  /\ at = "waiting" /\ ~Open /\ copier[p] = "reading" /\ reads[p] = MaxReads
  /\ copier' = [copier EXCEPT ![p] = "eof"]
  /\ UNCHANGED <<procVars, taken, grow, seen, len, reads>>

CopierEnds(p) ==
  /\ at = "waiting" /\ ~Open /\ copier[p] = "reading"
  /\ copier' = [copier EXCEPT ![p] = "eof"]
  /\ UNCHANGED <<procVars, taken, grow, seen, len, reads>>

\* cmd.Wait, and Run's switch
WaitReturns ==
  /\ at = "waiting" /\ child # "running" /\ \A p \in Pipes : copier[p] = "eof"
  /\ at' = "returned"
  /\ result' = IF expired \/ child # "ok" THEN "err" ELSE "ok"
  /\ UNCHANGED <<child, descendant, expired, copier, taken, grow, seen, len, reads>>

Copier(p) == CopierReads(p) \/ CapChecks(p) \/ Copies(p) \/ CopierEnds(p)

ExecNext ==
  \/ Start \/ Exits \/ Expires \/ Kill \/ DescendantEnds \/ WaitReturns
  \/ \E p \in Pipes : CopierReads(p) \/ CapChecks(p) \/ Copies(p) \/ CopierEnds(p)

\* The goroutines run, the deadline comes and kills; whoever else holds the
\* pipes lets go of them one day.  Nothing makes a child exit.
ExecFairness ==
  /\ WF_execVars(Start) /\ WF_execVars(Expires) /\ WF_execVars(Kill) /\ WF_execVars(DescendantEnds)
  /\ WF_execVars(WaitReturns) /\ \A p \in Pipes : WF_execVars(Copier(p))

ExecSpec == ExecInit /\ [][ExecNext]_execVars /\ ExecFairness

-----------------------------------------------------------------------------
\* Run's comment: "ctx timeout (JOB_TIMEOUT_SEC enforced by the worker) aborts
\* the process"; Run then returns, once nobody holds the pipes.
RunReturns == at = "waiting" ~> at \in {"returned", "crashed"}

\* The two writers check their room and fill the buffer without a lock, so it
\* may grow past MaxOutput (cappedWriter's comment has it that a writer "caps
\* total bytes retained"): but by one write at most, however the goroutines
\* take turns.
OvershootIsBounded == len <= Max + MaxWrite
=============================================================================
