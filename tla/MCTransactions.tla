--------------------------- MODULE MCTransactions ---------------------------
(***************************************************************************)
(* Two sessions on a few rows.  Two shapes of the table are looked at: two *)
(* rows of any life, and three rows none of which is ever claimed, where   *)
(* there is room for one occurrence of a series too many.                  *)
(***************************************************************************)
EXTENDS Transactions, TLC

MCSymmetry == Permutations(Jobs) \cup Permutations(Txs)

(* bound: a third row, or a poisoned series, only among unclaimed rows *)
TwoRowsOrNoClaims ==
  \/ \A j \in Jobs : claims[j] = 0
  \/ /\ Cardinality({j \in Jobs : status[j] # "absent"}) <= 2
     /\ \A j \in Jobs : series[j] \notin Poisoned

MCTxSpec == TxInit /\ [][TxNext /\ TwoRowsOrNoClaims']_txVars
=============================================================================
