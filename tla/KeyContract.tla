---------------------------- MODULE KeyContract -----------------------------
(***************************************************************************)
(* What idempotency keys promise the clients of job creation, with no      *)
(* statement, lock or transaction in sight: a job and its key come into    *)
(* being at once, a request is refused only when a job was created under   *)
(* its key, and a key is free again only after its job is gone.            *)
(***************************************************************************)
CONSTANTS
  Keys,
  Requests, (* create requests; a request is also the job it creates *)
  Nobody

VARIABLES
  key,     (* the key of each request, Nobody before it arrives *)
  answer,  (* open, created, conflict or error                  *)
  job,     (* none, live, ended or purged                       *)
  names    (* the job that each key names                       *)

Init ==
  /\ key = [r \in Requests |-> Nobody]
  /\ answer = [r \in Requests |-> "open"]
  /\ job = [r \in Requests |-> "none"]
  /\ names = [k \in Keys |-> Nobody]

Arrive(r, k) ==
  /\ key[r] = Nobody
  /\ key' = [key EXCEPT ![r] = k]
  /\ UNCHANGED <<answer, job, names>>

(* The answer to a creation that took place may be lost *)
Create(r, to) ==
  /\ answer[r] = "open" /\ key[r] # Nobody /\ names[key[r]] = Nobody
  /\ job' = [job EXCEPT ![r] = "live"]
  /\ names' = [names EXCEPT ![key[r]] = r]
  /\ answer' = [answer EXCEPT ![r] = to]
  /\ UNCHANGED key

(* The job may have been purged since *)
Refuse(r, k) ==
  /\ answer[r] = "open" /\ key[r] \in {Nobody, k}
  /\ \E q \in Requests \ {r} : key[q] = k /\ job[q] # "none"
  /\ key' = [key EXCEPT ![r] = k]
  /\ answer' = [answer EXCEPT ![r] = "conflict"]
  /\ UNCHANGED <<job, names>>

Fail(r) ==
  /\ answer[r] = "open"
  /\ answer' = [answer EXCEPT ![r] = "error"]
  /\ UNCHANGED <<key, job, names>>

End(r) ==
  /\ job[r] = "live"
  /\ job' = [job EXCEPT ![r] = "ended"]
  /\ UNCHANGED <<key, answer, names>>

Ended == {r \in Requests : job[r] = "ended"}

(* Jobs that have ended go, and keys that name no job *)
Purge(J, K) ==
  /\ \A k \in K : names[k] \in J \/ names[k] = Nobody \/ job[names[k]] = "purged"
  /\ job' = [r \in Requests |-> IF r \in J THEN "purged" ELSE job[r]]
  /\ names' = [k \in Keys |-> IF k \in K THEN Nobody ELSE names[k]]
  /\ UNCHANGED <<key, answer>>

Next ==
  \/ \E r \in Requests :
       \/ \E k \in Keys : Arrive(r, k) \/ Refuse(r, k)
       \/ Create(r, "created") \/ Create(r, "error") \/ Fail(r) \/ End(r)
  \/ \E J \in SUBSET Ended, K \in SUBSET Keys : Purge(J, K)

Spec == Init /\ [][Next]_<<key, answer, job, names>>
=============================================================================
