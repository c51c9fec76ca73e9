---------------------------- MODULE JobContract ----------------------------
(***************************************************************************)
(* What PierceMQ promises the owner of a job, with no table, stream or     *)
(* worker in sight: at-least-once execution.  A job waits, is taken up,    *)
(* perhaps given back, and settles once: it is done only if its work was   *)
(* carried out, dead when it was given up, cancelled only while it waits.  *)
(* A dead job waits again on request; done and cancelled jobs are purged.  *)
(*                                                                         *)
(* Each job steps on its own, and one transaction may step several.        *)
(***************************************************************************)
CONSTANT Jobs

VARIABLES
  state,   (* what GET /jobs/{id} tells its owner                           *)
  worked   (* has the work of the job been carried out at least once?       *)

States == {"new", "waiting", "active", "done", "dead", "cancelled", "purged"}

Init ==
  /\ state = [j \in Jobs |-> "new"]
  /\ worked = [j \in Jobs |-> FALSE]

Moves(j, from, to) == state[j] \in from /\ state'[j] = to

Submit(j)  == Moves(j, {"new"}, "waiting")
Begin(j)   == Moves(j, {"waiting"}, "active")
GiveBack(j) == Moves(j, {"active"}, "waiting")
Done(j)    == Moves(j, {"active"}, "done") /\ worked[j]
GiveUp(j)  == Moves(j, {"active"}, "dead")
Replay(j)  == Moves(j, {"dead"}, "waiting")
Cancel(j)  == Moves(j, {"waiting"}, "cancelled")
Purge(j)   == Moves(j, {"done", "cancelled"}, "purged")

(* A worker the system no longer counts on may still be at work *)
Work(j) == state[j] # "new" /\ worked'[j]

JobStep(j) ==
  /\ \/ state'[j] = state[j]
     \/ Submit(j) \/ Begin(j) \/ GiveBack(j) \/ Done(j) \/ GiveUp(j)
     \/ Replay(j) \/ Cancel(j) \/ Purge(j)
  /\ worked'[j] = worked[j] \/ Work(j)

Next ==
  /\ state' \in [Jobs -> States]
  /\ worked' \in [Jobs -> BOOLEAN]
  /\ \A j \in Jobs : JobStep(j)

Spec == Init /\ [][Next]_<<state, worked>>

(* Every submitted job of J settles *)
Settles(J) ==
  \A j \in J :
    state[j] \in {"waiting", "active"} ~> state[j] \in States \ {"new", "waiting", "active"}
=============================================================================
