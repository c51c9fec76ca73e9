---------------------------- MODULE RunContract -----------------------------
(***************************************************************************)
(* What module Delivery takes the goroutines of a run for: a run ends once *)
(* and settles the row only if it is the run the row is claimed for; it    *)
(* completes the row only if its handler has answered nil by then.  Else   *)
(* the row waits for the reaper.                                           *)
(***************************************************************************)
EXTENDS Naturals

CONSTANT MaxClaims (* bound: times the job is claimed *)

VARIABLES
  row,    (* pending, running or completed                  *)
  owner,  (* the run the row is claimed for, 0 for none     *)
  claims, (* runs so far                                    *)
  answer, (* what the handler of each run answered, or none *)
  ended   (* the runs that have settled, or cannot any more *)

Init ==
  /\ row = "pending" /\ owner = 0 /\ claims = 0
  /\ answer = [r \in 1..MaxClaims |-> "none"]
  /\ ended = {}

(* Delivery's claim and StartJob *)
Claim ==
  /\ row = "pending" /\ claims < MaxClaims
  /\ row' = "running" /\ owner' = claims + 1 /\ claims' = claims + 1
  /\ UNCHANGED <<answer, ended>>

(* Delivery's HandlerReturns: a handler answers once, however late *)
Answer(r, o) ==
  /\ r <= claims /\ answer[r] = "none"
  /\ answer' = [answer EXCEPT ![r] = o]
  /\ UNCHANGED <<row, owner, claims, ended>>

(* Delivery's Settle by the owner: Complete, or FailOrRetry *)
Settle(r, to) ==
  /\ owner = r /\ r \notin ended
  /\ to = "completed" => answer[r] = "ok"
  /\ row' = to /\ owner' = 0 /\ ended' = ended \union {r}
  /\ UNCHANGED <<claims, answer>>

(* Runs end that lost their claim, or whose settlement or process failed *)
EndUnsettled(R) ==
  /\ ended' = ended \union R
  /\ UNCHANGED <<row, owner, claims, answer>>

(* Delivery's Reclaim *)
Reclaim ==
  /\ owner # 0
  /\ row' = "pending" /\ owner' = 0
  /\ UNCHANGED <<claims, answer, ended>>

Next ==
  \/ Claim \/ Reclaim
  \/ \E r \in 1..claims :
       \/ \E o \in {"ok", "err"} : Answer(r, o)
       \/ Settle(r, "completed") \/ Settle(r, "pending")
  \/ \E R \in SUBSET (1..claims) : EndUnsettled(R)

Spec == Init /\ [][Next]_<<row, owner, claims, answer, ended>>
=============================================================================
