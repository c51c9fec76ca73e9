---------------------------- MODULE PoolContract ----------------------------
(***************************************************************************)
(* What module Delivery takes the goroutines and channels of a pool for:   *)
(* the jobs it accepts are started in their order, each once, while there  *)
(* are free workers, and a worker is free again only when the pool stops.  *)
(***************************************************************************)
EXTENDS Integers, Sequences

CONSTANTS
  JobIds,  (* the jobs that may be accepted *)
  Size     (* workers of the pool           *)

VARIABLES
  accepted, (* jobs in the order they were accepted                          *)
  started,  (* jobs in the order they were started                           *)
  idle,     (* free workers, Delivery's idle[p]                              *)
  stopping  (* has the pool been told to stop?                               *)

Init == accepted = <<>> /\ started = <<>> /\ idle = Size /\ stopping = FALSE

(* No job is accepted twice *)
Accept(job) ==
  /\ \A i \in 1..Len(accepted) : accepted[i] # job
  /\ accepted' = Append(accepted, job)
  /\ UNCHANGED <<started, idle, stopping>>

(* Delivery's StartJob *)
Start ==
  /\ idle > 0 /\ Len(started) < Len(accepted)
  /\ started' = Append(started, accepted[Len(started) + 1])
  /\ idle' = idle - 1
  /\ UNCHANGED <<accepted, stopping>>

Release ==
  /\ stopping /\ idle < Size
  /\ idle' = idle + 1
  /\ UNCHANGED <<accepted, started, stopping>>

Stop == stopping' = TRUE /\ UNCHANGED <<accepted, started, idle>>

Next == (\E job \in JobIds : Accept(job)) \/ Start \/ Release \/ Stop

Spec == Init /\ [][Next]_<<accepted, started, idle, stopping>>
=============================================================================
