---------------------------- MODULE MCBackground ----------------------------
(***************************************************************************)
(* What runs for its time and must end: the run of a claimed job, a        *)
(* command, the reaper's tick and the retention cycle.                     *)
(* They share no variable, so every step of one is independent of every    *)
(* step of another: a behaviour takes the steps of one of them, `part',    *)
(* while the others stay where they started.                               *)
(***************************************************************************)
EXTENDS HandlerRun, ExecRun, ReaperTick, Partitions

VARIABLE part

backgroundVars == <<runVars, execVars, tickVars, partVars, part>>

BackgroundInit ==
  /\ part \in {"run", "exec", "reaper", "retention"}
  /\ RunInit /\ ExecInit /\ TickInit /\ PartInit

BackgroundNext ==
  \/ part = "run" /\ RunNext /\ UNCHANGED <<execVars, tickVars, partVars, part>>
  \/ part = "exec" /\ ExecNext /\ UNCHANGED <<runVars, tickVars, partVars, part>>
  \/ part = "reaper" /\ TickNext /\ UNCHANGED <<runVars, execVars, partVars, part>>
  \/ part = "retention" /\ PartNext /\ UNCHANGED <<runVars, execVars, tickVars, part>>

\* The fairness of the part that moves.
BackgroundFairness ==
  \/ part = "run" /\ RunFairness
  \/ part = "exec" /\ ExecFairness
  \/ part = "reaper" /\ TickFairness
  \/ part = "retention" /\ PartFairness

BackgroundSpec == BackgroundInit /\ [][BackgroundNext]_backgroundVars /\ BackgroundFairness
=============================================================================
