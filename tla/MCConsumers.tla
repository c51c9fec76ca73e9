---------------------------- MODULE MCConsumers -----------------------------
(***************************************************************************)
(* The loops of a worker: the pool's channels, the loop that reads a       *)
(* stream, the supervisor, and the legacy consumer.                        *)
(* They share no variable, so every step of one is independent of every    *)
(* step of another: a behaviour takes the steps of one of them, `part',    *)
(* while the others stay where they started.                               *)
(***************************************************************************)
EXTENDS WorkerPool, ServeLoop, Supervisor, LegacyStream

CONSTANTS good, bad

VARIABLE part

consumerVars == <<poolVars, serveVars, supVars, legacyVars, part>>

ConsumersInit ==
  /\ part \in {"pool", "serve", "supervisor", "legacy"}
  /\ PoolInit /\ ServeInit /\ SupInit /\ LegacyInit

ConsumersNext ==
  \/ part = "pool" /\ PoolNext /\ UNCHANGED <<serveVars, supVars, legacyVars, part>>
  \/ part = "serve" /\ ServeNext /\ UNCHANGED <<poolVars, supVars, legacyVars, part>>
  \/ part = "supervisor" /\ SupNext /\ UNCHANGED <<poolVars, serveVars, legacyVars, part>>
  \/ part = "legacy" /\ LegacyNext /\ UNCHANGED <<poolVars, serveVars, supVars, part>>

\* The fairness of the part that moves.
ConsumersFairness ==
  \/ part = "pool" /\ PoolFairness
  \/ part = "serve" /\ ServeFairness
  \/ part = "supervisor" /\ SupFairness
  \/ part = "legacy"

ConsumersSpec == ConsumersInit /\ [][ConsumersNext]_consumerVars /\ ConsumersFairness
=============================================================================
