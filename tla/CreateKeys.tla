----------------------------- MODULE CreateKeys -----------------------------
(***************************************************************************)
(* Idempotency keys of job creation: CreateJob inserts the job and its key *)
(* in one transaction while other requests use the same key and retention  *)
(* deletes finished jobs and the keys they leave behind.  READ COMMITTED:  *)
(* a statement sees what is committed when it starts, and an insert of a   *)
(* key waits for the transaction that is inserting or deleting it.         *)
(* (src/internal/storage/jobs/jobs_queueries.go, jobs_retention.go)        *)
(***************************************************************************)
EXTENDS Naturals, FiniteSets

CONSTANTS
  CreationKeys,  \* idempotency keys
  Creations,     \* create requests; a request is also the job_id it draws
  Purger,        \* the retention transaction
  NoCreation

ASSUME KeysAssumption ==
  Purger \notin Creations /\ NoCreation \notin Creations \union CreationKeys \union {Purger}

VARIABLES
  keyOf,   \* the key of each request, Nil before it arrives
  pc,      \* where each request's transaction or answer is
  job,     \* the committed jobs rows: none, live, ended or purged
  owner,   \* the committed job_idempotency rows: the job_id of each key
  holder,  \* the transaction that has inserted or deleted the key's row
  doomed,  \* the rows the retention transaction has deleted
  purge    \* where the retention transaction is

keysVars == <<keyOf, pc, job, owner, holder, doomed, purge>>

CreationStages == {"idle", "inserted", "keyed", "refused", "created", "conflict", "error"}
Rows == {r \in Creations : job[r] \in {"live", "ended"}}

KeysTypeOK ==
  /\ keyOf \in [Creations -> CreationKeys \union {NoCreation}]
  /\ pc \in [Creations -> CreationStages]
  /\ job \in [Creations -> {"none", "live", "ended", "purged"}]
  /\ owner \in [CreationKeys -> Creations \union {NoCreation}]
  /\ holder \in [CreationKeys -> Creations \union {Purger, NoCreation}]
  /\ doomed \subseteq Creations
  /\ purge \in {"idle", "jobs", "keys"}

KeysInit ==
  /\ keyOf = [r \in Creations |-> NoCreation]
  /\ pc = [r \in Creations |-> "idle"]
  /\ job = [r \in Creations |-> "none"]
  /\ owner = [k \in CreationKeys |-> NoCreation]
  /\ holder = [k \in CreationKeys |-> NoCreation]
  /\ doomed = {} /\ purge = "idle"

Step(r, from, to) == pc[r] = from /\ pc' = [pc EXCEPT ![r] = to]
Release(tx) == holder' = [k \in CreationKeys |-> IF holder[k] = tx THEN NoCreation ELSE holder[k]]

-----------------------------------------------------------------------------
\* BEGIN and the insert into jobs.  Its ON CONFLICT clause only meets a row
\* with the same key and the same created_at.
InsertJob(r, k) ==
  /\ keyOf' = [keyOf EXCEPT ![r] = k]
  /\ \/ Step(r, "idle", "inserted")
     \/ /\ \E q \in Rows : keyOf[q] = k
        /\ Step(r, "idle", "conflict")
  /\ UNCHANGED <<job, owner, holder, doomed, purge>>

\* Mutant: an insert that does not wait for the key's other transaction
InsertKeyAtOnce(r) ==
  /\ pc[r] = "inserted"
  /\ LET k == keyOf[r] IN
       IF owner[k] = NoCreation
         THEN holder' = [holder EXCEPT ![k] = r] /\ Step(r, "inserted", "keyed")
         ELSE UNCHANGED holder /\ Step(r, "inserted", "refused")
  /\ UNCHANGED <<keyOf, job, owner, doomed, purge>>

\* The insert into job_idempotency and the count that follows it.
InsertKey(r) ==
  /\ pc[r] = "inserted"
  /\ LET k == keyOf[r] IN
       /\ holder[k] = NoCreation
       /\ IF owner[k] = NoCreation
            THEN holder' = [holder EXCEPT ![k] = r] /\ Step(r, "inserted", "keyed")
            ELSE UNCHANGED holder /\ Step(r, "inserted", "refused")
  /\ UNCHANGED <<keyOf, job, owner, doomed, purge>>

\* ErrJobExists: the deferred Rollback, and 409.
Refuse(r) ==
  /\ Step(r, "refused", "conflict")
  /\ UNCHANGED <<keyOf, job, owner, holder, doomed, purge>>

\* Commit; the answer may be lost with the connection.
CommitCreate(r) ==
  /\ Step(r, "keyed", "created") \/ Step(r, "keyed", "error")
  /\ job' = [job EXCEPT ![r] = "live"]
  /\ owner' = [k \in CreationKeys |-> IF holder[k] = r THEN r ELSE owner[k]]
  /\ Release(r)
  /\ UNCHANGED <<keyOf, doomed, purge>>

\* A statement fails, the client goes away or the API dies: Rollback.
AbortCreate(r) ==
  /\ \E from \in {"inserted", "keyed", "refused"} : Step(r, from, "error")
  /\ Release(r)
  /\ UNCHANGED <<keyOf, job, owner, doomed, purge>>

\* The job is completed or cancelled, and old enough to be purged.
Ends(r) ==
  /\ job[r] = "live"
  /\ job' = [job EXCEPT ![r] = "ended"]
  /\ UNCHANGED <<keyOf, pc, owner, holder, doomed, purge>>

-----------------------------------------------------------------------------
\* DeleteOldJobs, first statement: a batch of the ended rows.
PurgeJobs(S) ==
  /\ purge = "idle"
  /\ S \subseteq {r \in Creations : job[r] = "ended"}
  /\ doomed' = S
  /\ purge' = "jobs"
  /\ UNCHANGED <<keyOf, pc, job, owner, holder>>

Orphans == {k \in CreationKeys : owner[k] # NoCreation /\ owner[k] \notin Rows \ doomed}

\* Second statement: a batch of the keys whose job is not there any more.
PurgeKeys(K) ==
  /\ purge = "jobs"
  /\ K \subseteq Orphans
  /\ holder' = [k \in CreationKeys |-> IF k \in K THEN Purger ELSE holder[k]]
  /\ purge' = "keys"
  /\ UNCHANGED <<keyOf, pc, job, owner, doomed>>

PurgeCommits ==
  /\ purge = "keys"
  /\ job' = [r \in Creations |-> IF r \in doomed THEN "purged" ELSE job[r]]
  /\ owner' = [k \in CreationKeys |-> IF holder[k] = Purger THEN NoCreation ELSE owner[k]]
  /\ Release(Purger)
  /\ doomed' = {} /\ purge' = "idle"
  /\ UNCHANGED <<keyOf, pc>>

PurgeAborts ==
  /\ purge # "idle"
  /\ Release(Purger)
  /\ doomed' = {} /\ purge' = "idle"
  /\ UNCHANGED <<keyOf, pc, job, owner>>

KeysNext ==
  \/ \E r \in Creations :
       \/ \E k \in CreationKeys : InsertJob(r, k)
       \/ InsertKey(r) \/ Refuse(r) \/ CommitCreate(r) \/ AbortCreate(r)
       \/ Ends(r)
  \/ \E S \in SUBSET Creations : PurgeJobs(S)
  \/ \E K \in SUBSET CreationKeys : PurgeKeys(K)
  \/ PurgeCommits \/ PurgeAborts

KeysSpec == KeysInit /\ [][KeysNext]_keysVars

-----------------------------------------------------------------------------
\* The contract of CreateJob: among the rows there are, a key names one job
\* (its own key row points back at it), through any race of creations,
\* rollbacks and purges.
KeysNameTheirJobs == \A r \in Rows : owner[keyOf[r]] = r

\* A request is told that its key is a duplicate only if another request
\* with that key did create a job: a rolled back rival refuses nobody.
ConflictIsReal ==
  \A r \in Creations : pc[r] = "conflict" =>
    \E q \in Creations \ {r} : keyOf[q] = keyOf[r] /\ job[q] # "none"

Answered == [r \in Creations |-> IF pc[r] \in {"created", "conflict", "error"} THEN pc[r] ELSE "open"]

Promised == INSTANCE KeyContract
  WITH Keys <- CreationKeys, Requests <- Creations, Nobody <- NoCreation,
       key <- keyOf, answer <- Answered, names <- owner

\* Clients cannot tell the statements of concurrent creations and purges from
\* single steps: whatever commits, rolls back or waits in between, a job and
\* its key appear at once and a key goes only with or after its job (CreateJob,
\* DeleteOldJobs).
KeepsPromise == Promised!Spec
=============================================================================
