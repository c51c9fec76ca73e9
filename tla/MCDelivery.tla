----------------------------- MODULE MCDelivery -----------------------------
(* Delivery with small sets of jobs, pool processes and stream entries *)
EXTENDS Delivery, TLC

MCSymmetry == Permutations(Jobs) \cup Permutations(Procs) \cup Permutations(EntryIds)
=============================================================================
