--------------------------- MODULE RequestsProofs ---------------------------
(***************************************************************************)
(* What a request or an attempt leaves behind, for any number of requests, *)
(* keys, accounts and attempts.                                            *)
(***************************************************************************)
EXTENDS CreateKeys, RetryKeys, EmailSend, FileCopy, FiniteSetTheorems, TLAPS

-----------------------------------------------------------------------------
(***************************************************************************)
(* Creations.  A row and its key row point at each other because whoever   *)
(* inserts or deletes a key row holds it until the transaction ends: the   *)
(* invariant says what a holder knows.                                     *)
(***************************************************************************)

(* A job exists only after its request has committed *)
JobsCommitted == \A r \in Creations : job[r] # "none" => pc[r] \in {"created", "error"}

(* A request holds the key it inserted, and the key has no committed row *)
InsertersHold ==
  /\ \A r \in Creations : pc[r] # "idle" => keyOf[r] \in CreationKeys
  /\ \A r \in Creations : pc[r] = "keyed" => holder[keyOf[r]] = r
  /\ \A k \in CreationKeys : holder[k] \in Creations =>
       keyOf[holder[k]] = k /\ pc[holder[k]] = "keyed" /\ owner[k] = NoCreation

(* The retention holds the keys it deletes, and they stay orphans *)
PurgerHolds ==
  /\ \A k \in CreationKeys : holder[k] = Purger => owner[k] \notin Rows \ doomed
  /\ \A r \in doomed : job[r] = "ended"
  /\ purge = "idle" => doomed = {}
  /\ purge # "keys" => \A k \in CreationKeys : holder[k] # Purger

(* A key row names a request with its key, that did create a job *)
OwnersCreated ==
  \A k \in CreationKeys : owner[k] # NoCreation => keyOf[owner[k]] = k /\ job[owner[k]] # "none"

(* A refused request has met a committed row of its key *)
RefusalIsReal ==
  \A r \in Creations : pc[r] \in {"refused", "conflict"} =>
    \E q \in Creations \ {r} : keyOf[q] = keyOf[r] /\ job[q] # "none"

KeysInv ==
  /\ KeysTypeOK
  /\ JobsCommitted
  /\ InsertersHold
  /\ PurgerHolds
  /\ OwnersCreated
  /\ RefusalIsReal
  /\ KeysNameTheirJobs

(* The invariant holds before the first request *)
LEMMA KeysStart == KeysInit => KeysInv
  BY KeysAssumption DEF KeysInit, KeysInv, KeysTypeOK, JobsCommitted, InsertersHold, PurgerHolds,
     OwnersCreated, RefusalIsReal, KeysNameTheirJobs, Rows, CreationStages

(* InsertJob draws a new job_id, which no row and no holder names yet *)
LEMMA InsertJobKeeps ==
  ASSUME KeysInv, NEW r \in Creations, NEW k \in CreationKeys, InsertJob(r, k)
  PROVE  KeysInv'
  <1> USE KeysAssumption DEF KeysInv, InsertJob, Step
  <1>1. pc[r] = "idle" /\ job[r] = "none" /\ r \notin Rows /\ Rows' = Rows
    BY DEF KeysTypeOK, JobsCommitted, Rows
  <1>2. KeysTypeOK'
    BY DEF KeysTypeOK, CreationStages
  <1>3. JobsCommitted' /\ PurgerHolds'
    BY <1>1 DEF KeysTypeOK, JobsCommitted, PurgerHolds, CreationStages
  <1>4. \A q \in Creations \ {r} : keyOf'[q] = keyOf[q] /\ pc'[q] = pc[q]
    BY DEF KeysTypeOK
  <1>5. keyOf'[r] = k /\ pc'[r] \in {"inserted", "conflict"}
    BY DEF KeysTypeOK
  <1>6. InsertersHold'
    BY <1>1, <1>4, <1>5 DEF KeysTypeOK, InsertersHold
  <1>7. OwnersCreated' /\ KeysNameTheirJobs'
    BY <1>1, <1>4 DEF KeysTypeOK, OwnersCreated, KeysNameTheirJobs, Rows
  <1>8. RefusalIsReal'
    <2> SUFFICES ASSUME NEW q \in Creations, pc'[q] \in {"refused", "conflict"}
                 PROVE  \E p \in Creations \ {q} : keyOf'[p] = keyOf'[q] /\ job'[p] # "none"
      BY DEF RefusalIsReal
    <2>1. CASE q = r
      <3>1. PICK p \in Rows : keyOf[p] = k
        BY <2>1, <1>5 DEF KeysTypeOK
      <3> QED
        BY <2>1, <3>1, <1>1, <1>4, <1>5 DEF Rows
    <2>2. CASE q # r
      <3>1. PICK p \in Creations \ {q} : keyOf[p] = keyOf[q] /\ job[p] # "none"
        BY <2>2, <1>4 DEF RefusalIsReal
      <3> QED
        BY <2>2, <3>1, <1>1, <1>4
    <2> QED
      BY <2>1, <2>2
  <1> QED
    BY <1>2, <1>3, <1>6, <1>7, <1>8

(* InsertKey waits for the key's holder: then the committed row decides *)
LEMMA InsertKeyKeeps ==
  ASSUME KeysInv, NEW r \in Creations, InsertKey(r)
  PROVE  KeysInv'
  <1> DEFINE k == keyOf[r]
  <1> USE KeysAssumption DEF KeysInv, InsertKey, Step
  <1>1. k \in CreationKeys /\ job[r] = "none" /\ holder[k] = NoCreation /\ Rows' = Rows
    BY DEF KeysTypeOK, JobsCommitted, InsertersHold, Rows
  <1>2. KeysTypeOK'
    BY <1>1 DEF KeysTypeOK, CreationStages
  <1>3. JobsCommitted'
    BY <1>1 DEF KeysTypeOK, JobsCommitted
  <1>4. PurgerHolds' /\ OwnersCreated' /\ KeysNameTheirJobs'
    BY <1>1 DEF KeysTypeOK, PurgerHolds, OwnersCreated, KeysNameTheirJobs
  <1>5. InsertersHold'
    BY <1>1 DEF KeysTypeOK, InsertersHold
  <1>6. RefusalIsReal'
    <2>1. owner[k] # NoCreation => owner[k] \in Creations \ {r} /\ keyOf[owner[k]] = k /\ job[owner[k]] # "none"
      BY <1>1 DEF KeysTypeOK, OwnersCreated
    <2>2. \A q \in Creations \ {r} : pc'[q] = pc[q]
      BY DEF KeysTypeOK
    <2>3. pc'[r] = "refused" => owner[k] # NoCreation
      BY DEF KeysTypeOK
    <2>4. pc'[r] # "conflict"
      BY DEF KeysTypeOK
    <2> QED
      BY <2>1, <2>2, <2>3, <2>4 DEF RefusalIsReal
  <1> QED
    BY <1>2, <1>3, <1>4, <1>5, <1>6

(* The refusal was decided when the key was inserted *)
LEMMA RefuseKeeps ==
  ASSUME KeysInv, NEW r \in Creations, Refuse(r)
  PROVE  KeysInv'
  <1> USE KeysAssumption DEF KeysInv, Refuse, Step
  <1>1. KeysTypeOK' /\ Rows' = Rows
    BY DEF KeysTypeOK, CreationStages, Rows
  <1>2. JobsCommitted'
    BY DEF KeysTypeOK, JobsCommitted
  <1>3. InsertersHold'
    BY DEF KeysTypeOK, InsertersHold
  <1>4. PurgerHolds' /\ OwnersCreated' /\ KeysNameTheirJobs'
    BY <1>1 DEF PurgerHolds, OwnersCreated, KeysNameTheirJobs
  <1>5. RefusalIsReal'
    BY DEF KeysTypeOK, RefusalIsReal
  <1> QED
    BY <1>1, <1>2, <1>3, <1>4, <1>5

(* The commit makes the key the request holds its own; no row had it *)
LEMMA CommitCreateKeeps ==
  ASSUME KeysInv, NEW r \in Creations, CommitCreate(r)
  PROVE  KeysInv'
  <1> DEFINE k == keyOf[r]
  <1> USE KeysAssumption DEF KeysInv, CommitCreate, Step, Release
  <1>1. /\ pc[r] = "keyed" /\ k \in CreationKeys /\ job[r] = "none"
        /\ holder[k] = r /\ owner[k] = NoCreation
    BY DEF KeysTypeOK, JobsCommitted, InsertersHold
  <1>2. \A h \in CreationKeys \ {k} : holder[h] # r
    BY DEF InsertersHold
  <1>3. /\ owner'[k] = r /\ holder'[k] = NoCreation
        /\ \A h \in CreationKeys \ {k} : owner'[h] = owner[h] /\ holder'[h] = holder[h]
    BY <1>1, <1>2 DEF KeysTypeOK
  <1>4. Rows' = Rows \union {r} /\ r \notin doomed
    BY <1>1 DEF KeysTypeOK, Rows, PurgerHolds
  <1>5. KeysTypeOK'
    BY <1>1, <1>3 DEF KeysTypeOK, CreationStages
  <1>6. JobsCommitted'
    BY DEF KeysTypeOK, JobsCommitted
  <1>7. InsertersHold'
    BY <1>1, <1>2, <1>3 DEF KeysTypeOK, InsertersHold
  <1>8. PurgerHolds'
    <2>1. \A h \in CreationKeys : holder'[h] = Purger => owner'[h] \notin Rows' \ doomed'
      <3> SUFFICES ASSUME NEW h \in CreationKeys, holder'[h] = Purger
                   PROVE  owner'[h] \notin Rows' \ doomed'
        OBVIOUS
      <3>1. h # k /\ holder[h] = Purger /\ owner'[h] = owner[h]
        BY <1>1, <1>3 DEF KeysTypeOK
      <3>2. owner[h] # r
        BY <1>1, <3>1 DEF OwnersCreated
      <3> QED
        BY <1>4, <3>1, <3>2 DEF PurgerHolds
    <2>2. \A q \in doomed' : job'[q] = "ended"
      BY <1>4 DEF KeysTypeOK, PurgerHolds
    <2> QED
      BY <2>1, <2>2, <1>3 DEF KeysTypeOK, PurgerHolds
  <1>9. OwnersCreated'
    BY <1>1, <1>3 DEF KeysTypeOK, OwnersCreated
  <1>10. RefusalIsReal'
    BY <1>1 DEF KeysTypeOK, RefusalIsReal
  <1>11. KeysNameTheirJobs'
    <2> SUFFICES ASSUME NEW q \in Rows'
                 PROVE  owner'[keyOf'[q]] = q
      BY DEF KeysNameTheirJobs
    <2>1. CASE q = r
      BY <2>1, <1>1, <1>3 DEF KeysTypeOK
    <2>2. CASE q # r
      <3>1. q \in Rows /\ owner[keyOf[q]] = q
        BY <2>2, <1>4 DEF KeysNameTheirJobs
      <3>2. keyOf[q] \in CreationKeys /\ q # NoCreation
        BY <3>1 DEF KeysTypeOK, InsertersHold, JobsCommitted, Rows
      <3> QED
        BY <3>1, <3>2, <1>1, <1>3 DEF KeysTypeOK
    <2> QED
      BY <2>1, <2>2
  <1> QED
    BY <1>5, <1>6, <1>7, <1>8, <1>9, <1>10, <1>11

(* A rollback takes back what nobody has seen *)
LEMMA AbortCreateKeeps ==
  ASSUME KeysInv, NEW r \in Creations, AbortCreate(r)
  PROVE  KeysInv'
  <1> USE KeysAssumption DEF KeysInv, AbortCreate, Step, Release
  <1>1. KeysTypeOK' /\ Rows' = Rows
    BY DEF KeysTypeOK, CreationStages, Rows
  <1>2. JobsCommitted'
    BY DEF KeysTypeOK, JobsCommitted
  <1>3. InsertersHold'
    BY DEF KeysTypeOK, InsertersHold
  <1>4. PurgerHolds'
    BY <1>1 DEF KeysTypeOK, PurgerHolds
  <1>5. OwnersCreated' /\ KeysNameTheirJobs'
    BY <1>1 DEF OwnersCreated, KeysNameTheirJobs
  <1>6. RefusalIsReal'
    BY DEF KeysTypeOK, RefusalIsReal
  <1> QED
    BY <1>1, <1>2, <1>3, <1>4, <1>5, <1>6

(* An ended row is still a row *)
LEMMA EndsKeeps ==
  ASSUME KeysInv, NEW r \in Creations, Ends(r)
  PROVE  KeysInv'
  <1> USE KeysAssumption DEF KeysInv, Ends
  <1>1. KeysTypeOK' /\ Rows' = Rows
    BY DEF KeysTypeOK, Rows
  <1>2. \A q \in Creations : job'[q] # "none" <=> job[q] # "none"
    BY DEF KeysTypeOK
  <1>3. JobsCommitted' /\ InsertersHold' /\ OwnersCreated' /\ KeysNameTheirJobs'
    BY <1>1, <1>2 DEF KeysTypeOK, JobsCommitted, InsertersHold, OwnersCreated, KeysNameTheirJobs
  <1>4. PurgerHolds'
    BY <1>1 DEF KeysTypeOK, PurgerHolds
  <1>5. RefusalIsReal'
    BY <1>2 DEF RefusalIsReal
  <1> QED
    BY <1>1, <1>3, <1>4, <1>5

(* The retention's statements doom ended rows and hold the keys that would be
   orphans without them; its commit removes both, its rollback neither *)
LEMMA PurgeKeeps ==
  ASSUME KeysInv,
         (\E S \in SUBSET Creations : PurgeJobs(S)) \/ (\E K \in SUBSET CreationKeys : PurgeKeys(K))
           \/ PurgeCommits \/ PurgeAborts
  PROVE  KeysInv'
  <1> USE KeysAssumption DEF KeysInv
  <1>1. ASSUME NEW S \in SUBSET Creations, PurgeJobs(S)
        PROVE  KeysInv'
    <2>1. KeysTypeOK' /\ Rows' = Rows
      BY <1>1 DEF PurgeJobs, KeysTypeOK, Rows
    <2>2. JobsCommitted' /\ InsertersHold' /\ OwnersCreated' /\ RefusalIsReal' /\ KeysNameTheirJobs'
      BY <1>1, <2>1 DEF PurgeJobs, JobsCommitted, InsertersHold, OwnersCreated, RefusalIsReal, KeysNameTheirJobs
    <2>3. PurgerHolds'
      BY <1>1 DEF PurgeJobs, KeysTypeOK, PurgerHolds
    <2> QED
      BY <2>1, <2>2, <2>3
  <1>2. ASSUME NEW K \in SUBSET CreationKeys, PurgeKeys(K)
        PROVE  KeysInv'
    <2>1. KeysTypeOK' /\ Rows' = Rows
      BY <1>2 DEF PurgeKeys, KeysTypeOK, Rows
    <2>2. JobsCommitted' /\ OwnersCreated' /\ RefusalIsReal' /\ KeysNameTheirJobs'
      BY <1>2, <2>1 DEF PurgeKeys, JobsCommitted, OwnersCreated, RefusalIsReal, KeysNameTheirJobs
    <2>3. \A h \in K : owner[h] # NoCreation /\ owner[h] \notin Rows \ doomed /\ holder[h] \notin Creations
      BY <1>2 DEF PurgeKeys, Orphans, InsertersHold
    <2>4. InsertersHold'
      BY <1>2, <2>3 DEF PurgeKeys, KeysTypeOK, InsertersHold
    <2>5. PurgerHolds'
      BY <1>2, <2>1, <2>3 DEF PurgeKeys, KeysTypeOK, PurgerHolds
    <2> QED
      BY <2>1, <2>2, <2>4, <2>5
  <1>3. ASSUME PurgeCommits
        PROVE  KeysInv'
    <2>1. KeysTypeOK' /\ Rows' = Rows \ doomed
      BY <1>3 DEF PurgeCommits, Release, KeysTypeOK, Rows, PurgerHolds
    <2>2. \A q \in Creations : job'[q] # "none" <=> job[q] # "none"
      BY <1>3 DEF PurgeCommits, KeysTypeOK, PurgerHolds
    <2>3. JobsCommitted' /\ OwnersCreated' /\ RefusalIsReal'
      BY <1>3, <2>2 DEF PurgeCommits, KeysTypeOK, JobsCommitted, OwnersCreated, RefusalIsReal
    <2>4. InsertersHold'
      BY <1>3 DEF PurgeCommits, Release, KeysTypeOK, InsertersHold
    <2>5. PurgerHolds'
      BY <1>3 DEF PurgeCommits, Release, KeysTypeOK, PurgerHolds
    <2>6. KeysNameTheirJobs'
      <3> SUFFICES ASSUME NEW q \in Rows'
                   PROVE  owner'[keyOf'[q]] = q
        BY DEF KeysNameTheirJobs
      <3>1. q \in Rows \ doomed /\ keyOf[q] \in CreationKeys /\ owner[keyOf[q]] = q
        BY <2>1 DEF KeysTypeOK, KeysNameTheirJobs, InsertersHold, JobsCommitted, Rows
      <3>2. holder[keyOf[q]] # Purger
        BY <3>1 DEF PurgerHolds
      <3> QED
        BY <1>3, <3>1, <3>2 DEF PurgeCommits
    <2> QED
      BY <2>1, <2>3, <2>4, <2>5, <2>6
  <1>4. ASSUME PurgeAborts
        PROVE  KeysInv'
    <2>1. KeysTypeOK' /\ Rows' = Rows
      BY <1>4 DEF PurgeAborts, Release, KeysTypeOK, Rows
    <2>2. JobsCommitted' /\ OwnersCreated' /\ RefusalIsReal' /\ KeysNameTheirJobs'
      BY <1>4, <2>1 DEF PurgeAborts, JobsCommitted, OwnersCreated, RefusalIsReal, KeysNameTheirJobs
    <2>3. InsertersHold'
      BY <1>4 DEF PurgeAborts, Release, KeysTypeOK, InsertersHold
    <2>4. PurgerHolds'
      BY <1>4 DEF PurgeAborts, Release, KeysTypeOK, PurgerHolds
    <2> QED
      BY <2>1, <2>2, <2>3, <2>4
  <1> QED
    BY <1>1, <1>2, <1>3, <1>4

(* A step that leaves the rows, keys and transactions alone *)
LEMMA KeysStutter == KeysInv /\ UNCHANGED keysVars => KeysInv'
  BY DEF KeysInv, keysVars, KeysTypeOK, JobsCommitted, InsertersHold, PurgerHolds, OwnersCreated,
     RefusalIsReal, KeysNameTheirJobs, Rows

(* What a holder knows survives every statement, commit and rollback *)
THEOREM KeysInvariant == KeysSpec => []KeysInv
  <1>1. KeysInv /\ [KeysNext]_keysVars => KeysInv'
    BY InsertJobKeeps, InsertKeyKeeps, RefuseKeeps, CommitCreateKeeps, AbortCreateKeeps, EndsKeeps,
       PurgeKeeps, KeysStutter DEF KeysNext
  <1> QED
    BY KeysStart, <1>1, PTL DEF KeysSpec

(* Type correctness of the rows, keys and transactions *)
THEOREM KeysTypeCorrect == KeysSpec => []KeysTypeOK
  <1>1. KeysInv => KeysTypeOK
    BY DEF KeysInv
  <1> QED
    BY KeysInvariant, <1>1, PTL

(* Every row is named by its own key, so a key never names two jobs
   (CreateJob, DeleteOldJobs) *)
THEOREM KeysNameJobs == KeysSpec => []KeysNameTheirJobs
  <1>1. KeysInv => KeysNameTheirJobs
    BY DEF KeysInv
  <1> QED
    BY KeysInvariant, <1>1, PTL

(* Nobody is refused for a job that was never created (CreateJob) *)
THEOREM ConflictsAreReal == KeysSpec => []ConflictIsReal
  <1>1. KeysInv => ConflictIsReal
    BY DEF KeysInv, RefusalIsReal, ConflictIsReal
  <1> QED
    BY KeysInvariant, <1>1, PTL

(***************************************************************************)
(* Creations implement the contract: a transaction's statements stutter,   *)
(* its commit is the contract's step.  Whoever commits a key holds it, so  *)
(* the key is free; whoever was refused has met a job of its key; and a    *)
(* key that is purged was an orphan.                                       *)
(***************************************************************************)

(* A request that has not arrived has no key *)
NewcomersHaveNoKey == \A r \in Creations : pc[r] = "idle" => keyOf[r] = NoCreation

(* The key comes with the first statement *)
LEMMA NewcomersInvariant == KeysSpec => []NewcomersHaveNoKey
  <1>1. KeysInit => NewcomersHaveNoKey
    BY DEF KeysInit, NewcomersHaveNoKey
  <1>2. KeysTypeOK /\ NewcomersHaveNoKey /\ [KeysNext]_keysVars => NewcomersHaveNoKey'
    BY DEF KeysTypeOK, NewcomersHaveNoKey, KeysNext, keysVars, InsertJob, InsertKey, Refuse, CommitCreate,
       AbortCreate, Ends, PurgeJobs, PurgeKeys, PurgeCommits, PurgeAborts, Step
  <1> QED
    BY <1>1, <1>2, KeysTypeCorrect, PTL DEF KeysSpec

(* What clients see of the creations and the purges *)
Seen == <<keyOf, Answered, job, owner>>

(* The first insert: the request arrives, or meets a row of its key *)
LEMMA InsertJobPromised ==
  ASSUME KeysInv, NewcomersHaveNoKey, NEW r \in Creations, NEW k \in CreationKeys, InsertJob(r, k)
  PROVE  Promised!Arrive(r, k) \/ Promised!Refuse(r, k)
  <1> USE DEF KeysInv, KeysTypeOK, InsertJob, Step
  <1>1. pc[r] = "idle" /\ keyOf[r] = NoCreation /\ Answered[r] = "open"
    BY DEF NewcomersHaveNoKey, Answered
  <1>2. CASE pc' = [pc EXCEPT ![r] = "inserted"]
    <2>1. Answered' = Answered
      BY <1>1, <1>2 DEF Answered
    <2> QED
      BY <1>1, <2>1 DEF Promised!Arrive
  <1>3. CASE (\E q \in Rows : keyOf[q] = k) /\ pc' = [pc EXCEPT ![r] = "conflict"]
    <2>1. Answered' = [Answered EXCEPT ![r] = "conflict"]
      BY <1>1, <1>3 DEF Answered
    <2>2. PICK q \in Creations : keyOf[q] = k /\ job[q] # "none"
      BY <1>3 DEF Rows
    <2>3. q # r
      BY <1>1, <2>2 DEF JobsCommitted
    <2> QED
      BY <1>1, <2>1, <2>2, <2>3 DEF Promised!Refuse
  <1> QED
    BY <1>2, <1>3

(* A wait or a refusal that is not told yet changes nothing; a refusal that
   is told, a failure and the end of a job are the contract's *)
LEMMA RequestPromised ==
  ASSUME KeysInv, NEW r \in Creations
  PROVE  /\ InsertKey(r) => UNCHANGED Seen
         /\ Refuse(r) => Promised!Refuse(r, keyOf[r])
         /\ AbortCreate(r) => Promised!Fail(r)
         /\ Ends(r) => Promised!End(r)
  <1> USE DEF KeysInv, KeysTypeOK
  <1>1. ASSUME InsertKey(r) PROVE UNCHANGED Seen
    <2>1. pc[r] = "inserted" /\ \E to \in {"keyed", "refused"} : pc' = [pc EXCEPT ![r] = to]
      BY <1>1 DEF InsertKey, Step
    <2>2. Answered' = Answered
      BY <2>1 DEF Answered
    <2> QED
      BY <1>1, <2>2 DEF InsertKey, Seen
  <1>2. ASSUME Refuse(r) PROVE Promised!Refuse(r, keyOf[r])
    <2>1. pc[r] = "refused" /\ Answered[r] = "open" /\ Answered' = [Answered EXCEPT ![r] = "conflict"]
      BY <1>2 DEF Refuse, Step, Answered
    <2>2. \E q \in Creations \ {r} : keyOf[q] = keyOf[r] /\ job[q] # "none"
      BY <2>1 DEF RefusalIsReal
    <2>3. keyOf' = [keyOf EXCEPT ![r] = keyOf[r]]
      BY <1>2 DEF Refuse
    <2> QED
      BY <1>2, <2>1, <2>2, <2>3 DEF Refuse, Promised!Refuse
  <1>3. ASSUME AbortCreate(r) PROVE Promised!Fail(r)
    <2>1. pc[r] \in {"inserted", "keyed", "refused"} /\ pc' = [pc EXCEPT ![r] = "error"]
      BY <1>3 DEF AbortCreate, Step
    <2>2. Answered[r] = "open" /\ Answered' = [Answered EXCEPT ![r] = "error"]
      BY <2>1 DEF Answered
    <2> QED
      BY <1>3, <2>2 DEF AbortCreate, Promised!Fail
  <1>4. ASSUME Ends(r) PROVE Promised!End(r)
    BY <1>4 DEF Ends, Answered, Promised!End
  <1> QED
    BY <1>1, <1>2, <1>3, <1>4

(* The commit: the request holds its own key and no other *)
LEMMA CommitPromised ==
  ASSUME KeysInv, NEW r \in Creations, CommitCreate(r)
  PROVE  Promised!Create(r, "created") \/ Promised!Create(r, "error")
  <1> USE KeysAssumption DEF KeysInv, KeysTypeOK
  <1>1. pc[r] = "keyed" /\ \E to \in {"created", "error"} : pc' = [pc EXCEPT ![r] = to]
    BY DEF CommitCreate, Step
  <1>2. PICK to \in {"created", "error"} : pc' = [pc EXCEPT ![r] = to]
    BY <1>1
  <1>3. Answered[r] = "open" /\ Answered' = [Answered EXCEPT ![r] = to]
    BY <1>1, <1>2 DEF Answered
  <1>4. keyOf[r] \in CreationKeys /\ holder[keyOf[r]] = r /\ owner[keyOf[r]] = NoCreation
    BY <1>1 DEF InsertersHold
  <1>5. \A k \in CreationKeys : holder[k] = r <=> k = keyOf[r]
    BY <1>4 DEF InsertersHold
  <1>6. owner' = [owner EXCEPT ![keyOf[r]] = r]
    BY <1>4, <1>5 DEF CommitCreate
  <1> QED
    BY <1>2, <1>3, <1>4, <1>6 DEF CommitCreate, Promised!Create

(* The purge's commit: the jobs had ended, the keys were orphans *)
LEMMA PurgePromised ==
  ASSUME KeysInv, PurgeCommits
  PROVE  /\ doomed \subseteq Promised!Ended
         /\ Promised!Purge(doomed, {k \in CreationKeys : holder[k] = Purger})
  <1> USE DEF KeysInv, KeysTypeOK, PurgeCommits
  <1>1. \A k \in CreationKeys : holder[k] = Purger =>
           owner[k] \in doomed \/ owner[k] = NoCreation \/ job[owner[k]] = "purged"
    BY DEF PurgerHolds, OwnersCreated, Rows
  <1>2. Answered' = Answered
    BY DEF Answered
  <1>3. doomed \subseteq Promised!Ended
    BY DEF PurgerHolds, Promised!Ended
  <1>4. owner' = [k \in CreationKeys |-> IF k \in {h \in CreationKeys : holder[h] = Purger} THEN NoCreation ELSE owner[k]]
    OBVIOUS
  <1> QED
    BY <1>1, <1>2, <1>3, <1>4 DEF Promised!Purge

(* Any interleaving of creations and purges looks to clients like single
   steps of the contract (CreateJob, DeleteOldJobs) *)
THEOREM CreationsKeepPromise == KeysSpec => KeepsPromise
  <1>1. KeysInit => Promised!Init
    BY DEF KeysInit, Answered, Promised!Init
  <1>2. KeysInv /\ NewcomersHaveNoKey /\ [KeysNext]_keysVars => [Promised!Next]_Seen
    <2> SUFFICES ASSUME KeysInv, NewcomersHaveNoKey, [KeysNext]_keysVars
                 PROVE  Promised!Next \/ UNCHANGED Seen
      OBVIOUS
    <2>1. ASSUME NEW r \in Creations, NEW k \in CreationKeys, InsertJob(r, k)
          PROVE  Promised!Next
      BY <2>1, InsertJobPromised, Zenon DEF Promised!Next
    <2>2. ASSUME NEW r \in Creations, InsertKey(r)
          PROVE  UNCHANGED Seen
      BY <2>2, RequestPromised
    <2>3. ASSUME NEW r \in Creations, Refuse(r)
          PROVE  Promised!Next
      <3>1. keyOf[r] \in CreationKeys
        BY <2>3 DEF Refuse, Step, KeysInv, InsertersHold
      <3> QED
        BY <2>3, <3>1, RequestPromised, Zenon DEF Promised!Next
    <2>4. ASSUME NEW r \in Creations, AbortCreate(r) \/ Ends(r) \/ CommitCreate(r)
          PROVE  Promised!Next
      BY <2>4, RequestPromised, CommitPromised, Zenon DEF Promised!Next
    <2>5. CASE PurgeCommits
      <3>1. {k \in CreationKeys : holder[k] = Purger} \in SUBSET CreationKeys
        OBVIOUS
      <3> QED
        BY <2>5, <3>1, PurgePromised, Zenon DEF Promised!Next
    <2>6. CASE PurgeAborts \/ (\E S \in SUBSET Creations : PurgeJobs(S)) \/ (\E K \in SUBSET CreationKeys : PurgeKeys(K))
      BY <2>6 DEF PurgeAborts, PurgeJobs, PurgeKeys, Seen, Answered
    <2>7. CASE UNCHANGED keysVars
      BY <2>7 DEF keysVars, Seen, Answered
    <2> QED
      BY <2>1, <2>2, <2>3, <2>4, <2>5, <2>6, <2>7, Zenon DEF KeysNext
  <1> QED
    BY <1>1, <1>2, KeysInvariant, NewcomersInvariant, PTL DEF KeysSpec, KeepsPromise, Promised!Spec, Seen

-----------------------------------------------------------------------------
(***************************************************************************)
(* Retries.  The statement that records a key lets one request on, and     *)
(* that request retries once: who is past the statement, and what was      *)
(* retried, agree with the key's row.                                      *)
(***************************************************************************)

Calls == [key : RetryHeaders \union {NoHeader}, job : RetryJobs \union {NoHeader}, pc : RetryStages]

(* Types, without the bounds of the histories *)
RetryTypes ==
  /\ call \in [Retries -> Calls]
  /\ bound \in [RetryHeaders -> RetryJobs \union {NoHeader}]
  /\ retried \in [RetryHeaders \union {NoHeader} -> [RetryJobs -> Nat]]
  /\ \A r \in Retries : ~At(r, "idle") => call[r].job \in RetryJobs

(* Requests under a key that may retry its job *)
Admitted(r) == At(r, "retry") /\ call[r].key # NoHeader

(* A key is recorded before its request is let on *)
KeyedRequests == \A r \in Retries : At(r, "key") => call[r].key # NoHeader

(* The one request let on under a key is for the key's job, not retried yet *)
OneAdmitted ==
  \A r \in Retries : Admitted(r) =>
    /\ bound[call[r].key] = call[r].job
    /\ retried[call[r].key][call[r].job] = 0
    /\ \A q \in Retries \ {r} : Admitted(q) => call[q].key # call[r].key

(* A key retries the job of its row, once *)
RetriedOnce ==
  \A k \in RetryHeaders : \A j \in RetryJobs : retried[k][j] > 0 => bound[k] = j /\ retried[k][j] = 1

RetryInv == RetryTypes /\ KeyedRequests /\ OneAdmitted /\ RetriedOnce

(* A request that goes on keeps its key and its job *)
LEMMA GoesOn ==
  ASSUME call \in [Retries -> Calls], NEW r \in Retries, NEW stage \in RetryStages, Goes(r, stage)
  PROVE  /\ call' \in [Retries -> Calls]
         /\ \A q \in Retries \ {r} : call'[q] = call[q]
         /\ call'[r].key = call[r].key /\ call'[r].job = call[r].job /\ call'[r].pc = stage
  <1> DEFINE new == [key |-> call[r].key, job |-> call[r].job, pc |-> stage]
  <1>1. new \in Calls
    BY DEF Calls
  <1>2. call' = [call EXCEPT ![r] = new]
    BY DEF Goes
  <1> QED
    BY <1>1, <1>2

(* Nothing is recorded and nobody is let on at the start *)
LEMMA RetryStart == RetryInit => RetryInv
  BY RetryAssumption DEF RetryInit, RetryInv, RetryTypes, Calls, RetryStages, At, Admitted, KeyedRequests, OneAdmitted, RetriedOnce

(* A request that arrives is not past its key's statement, unless it has none *)
LEMMA ArriveKeeps ==
  ASSUME RetryInv, NEW r \in Retries, NEW k \in RetryHeaders \union {NoHeader}, NEW j \in RetryJobs, ArriveRetry(r, k, j)
  PROVE  RetryInv'
  <1> USE DEF RetryInv, ArriveRetry, At
  <1>1. RetryTypes'
    BY DEF RetryTypes, Calls, RetryStages
  <1>2. ~Admitted(r)'
    BY DEF RetryTypes, Admitted
  <1>3. KeyedRequests'
    BY DEF RetryTypes, KeyedRequests
  <1>4. \A q \in Retries \ {r} : call'[q] = call[q]
    BY DEF RetryTypes
  <1>5. OneAdmitted' /\ RetriedOnce'
    BY <1>2, <1>4 DEF OneAdmitted, RetriedOnce, Admitted
  <1> QED
    BY <1>1, <1>3, <1>5

(* The statement lets a request on only when the key has no row yet *)
LEMMA RecordKeeps ==
  ASSUME RetryInv, NEW r \in Retries, RecordRetryKey(r)
  PROVE  RetryInv'
  <1> DEFINE k == call[r].key
             j == call[r].job
  <1> USE RetryAssumption DEF RetryInv, RecordRetryKey, At
  <1>1. k \in RetryHeaders /\ j \in RetryJobs
    BY DEF RetryTypes, Calls, KeyedRequests
  <1>2. PICK stage \in {"retry", "replay", "conflict"} :
          /\ Goes(r, stage)
          /\ \/ stage = "retry" /\ bound[k] = NoHeader /\ bound' = [bound EXCEPT ![k] = j]
             \/ stage # "retry" /\ UNCHANGED bound
    OBVIOUS
  <1>3. stage \in RetryStages /\ UNCHANGED retried
    BY DEF RetryStages
  <1>4. /\ call' \in [Retries -> Calls]
        /\ \A q \in Retries \ {r} : call'[q] = call[q]
        /\ call'[r].key = k /\ call'[r].job = j /\ call'[r].pc = stage
    BY <1>2, <1>3, GoesOn DEF RetryTypes
  <1>5. bound' \in [RetryHeaders -> RetryJobs \union {NoHeader}]
    BY <1>1, <1>2 DEF RetryTypes
  <1>6. RetryTypes'
    BY <1>1, <1>3, <1>4, <1>5 DEF RetryTypes
  <1>7. KeyedRequests'
    BY <1>4 DEF KeyedRequests
  <1>8. CASE stage = "retry"
    <2>1. bound[k] = NoHeader /\ bound' = [bound EXCEPT ![k] = j]
      BY <1>2, <1>8
    <2>2. \A q \in Retries \ {r} : Admitted(q) => call[q].key # k
      BY <2>1 DEF OneAdmitted, Admitted, RetryTypes
    <2>3. retried[k][j] = 0
      BY <1>1, <2>1 DEF RetriedOnce, RetryTypes
    <2>4. OneAdmitted'
      <3> SUFFICES ASSUME NEW q \in Retries, Admitted(q)'
                   PROVE  /\ bound'[call'[q].key] = call'[q].job
                          /\ retried'[call'[q].key][call'[q].job] = 0
                          /\ \A p \in Retries \ {q} : Admitted(p)' => call'[p].key # call'[q].key
        BY DEF OneAdmitted
      <3>1. \A p \in Retries \ {r} : Admitted(p)' <=> Admitted(p)
        BY <1>4 DEF Admitted
      <3>2. bound'[k] = j /\ \A h \in RetryHeaders \ {k} : bound'[h] = bound[h]
        BY <1>1, <2>1 DEF RetryTypes
      <3>3. CASE q = r
        BY <1>3, <1>4, <2>2, <2>3, <3>1, <3>2, <3>3
      <3>4. CASE q # r
        <4>1. Admitted(q) /\ call'[q] = call[q] /\ call[q].key # k
          BY <1>4, <2>2, <3>1, <3>4
        <4>2. call[q].key \in RetryHeaders
          BY <4>1 DEF Admitted, RetryTypes, Calls
        <4>3. /\ bound[call[q].key] = call[q].job
              /\ retried[call[q].key][call[q].job] = 0
              /\ \A p \in Retries \ {q} : Admitted(p) => call[p].key # call[q].key
          BY <4>1 DEF OneAdmitted
        <4> QED
          BY <1>3, <1>4, <3>1, <3>2, <4>1, <4>2, <4>3
      <3> QED
        BY <3>3, <3>4
    <2>5. RetriedOnce'
      BY <1>1, <1>3, <2>1 DEF RetriedOnce, RetryTypes
    <2> QED
      BY <1>6, <1>7, <2>4, <2>5
  <1>9. CASE stage # "retry"
    BY <1>2, <1>3, <1>4, <1>6, <1>7, <1>9 DEF OneAdmitted, Admitted, RetriedOnce
  <1> QED
    BY <1>8, <1>9

(* The request that was let on retries the job, and goes on *)
LEMMA RetryKeeps ==
  ASSUME RetryInv, NEW r \in Retries, RetryJob(r)
  PROVE  RetryInv'
  <1> DEFINE k == call[r].key
             j == call[r].job
  <1> USE RetryAssumption DEF RetryInv, RetryJob, At
  <1>1. k \in RetryHeaders \union {NoHeader} /\ j \in RetryJobs
    BY DEF RetryTypes, Calls
  <1>2. PICK stage \in {"dispatch", "notRetryable"} : Goes(r, stage)
    OBVIOUS
  <1>3. stage \in RetryStages /\ UNCHANGED bound
    BY DEF RetryStages
  <1>4. /\ call' \in [Retries -> Calls]
        /\ \A q \in Retries \ {r} : call'[q] = call[q]
        /\ call'[r].key = k /\ call'[r].job = j /\ call'[r].pc = stage
    BY <1>2, <1>3, GoesOn DEF RetryTypes
  <1>5. /\ retried' \in [RetryHeaders \union {NoHeader} -> [RetryJobs -> Nat]]
        /\ \A h \in RetryHeaders \union {NoHeader}, i \in RetryJobs : h # k \/ i # j => retried'[h][i] = retried[h][i]
        /\ retried'[k][j] \in {retried[k][j], retried[k][j] + 1}
    <2>1. CASE UNCHANGED retried
      BY <2>1 DEF RetryTypes
    <2>2. CASE retried' = [retried EXCEPT ![k][j] = @ + 1]
      BY <1>1, <2>2 DEF RetryTypes
    <2> QED
      BY <2>1, <2>2
  <1>6. RetryTypes'
    BY <1>1, <1>3, <1>4, <1>5 DEF RetryTypes
  <1>7. KeyedRequests'
    BY <1>4 DEF KeyedRequests
  <1>8. OneAdmitted'
    <2> SUFFICES ASSUME NEW q \in Retries, Admitted(q)'
                 PROVE  /\ bound[call'[q].key] = call'[q].job
                        /\ retried'[call'[q].key][call'[q].job] = 0
                        /\ \A p \in Retries \ {q} : Admitted(p)' => call'[p].key # call'[q].key
      BY <1>3 DEF OneAdmitted
    <2>1. q # r /\ call'[q] = call[q] /\ Admitted(q)
      BY <1>4 DEF Admitted
    <2>2. call[q].key \in RetryHeaders /\ call[q].job \in RetryJobs
      BY <2>1 DEF RetryTypes, Calls, Admitted
    <2>3. k # NoHeader => call[q].key # k
      BY <2>1 DEF OneAdmitted, Admitted
    <2>4. retried'[call[q].key][call[q].job] = retried[call[q].key][call[q].job]
      BY <1>5, <2>2, <2>3
    <2>5. \A p \in Retries \ {q} : Admitted(p)' => Admitted(p) /\ call'[p] = call[p]
      BY <1>4 DEF Admitted
    <2> QED
      BY <2>1, <2>4, <2>5 DEF OneAdmitted
  <1>9. RetriedOnce'
    <2> SUFFICES ASSUME NEW h \in RetryHeaders, NEW i \in RetryJobs, retried'[h][i] > 0
                 PROVE  bound[h] = i /\ retried'[h][i] = 1
      BY <1>3 DEF RetriedOnce
    <2>1. CASE h = k /\ i = j
      <3>1. Admitted(r)
        BY <2>1 DEF Admitted
      <3>2. bound[k] = j /\ retried[k][j] = 0
        BY <3>1 DEF OneAdmitted
      <3> QED
        BY <2>1, <3>2, <1>5
    <2>2. CASE h # k \/ i # j
      BY <2>2, <1>5 DEF RetriedOnce
    <2> QED
      BY <2>1, <2>2
  <1> QED
    BY <1>6, <1>7, <1>8, <1>9

(* No other step lets a request on or retries *)
LEMMA OthersKeep ==
  ASSUME RetryInv,
         (\E r \in Retries : Replay(r) \/ Dispatch(r) \/ Errs(r)) \/ (\E j \in RetryJobs : JobFails(j)) \/ UNCHANGED retryVars
  PROVE  RetryInv'
  <1> USE DEF RetryInv, At
  <1>1. ASSUME NEW r \in Retries, Replay(r) \/ Dispatch(r) \/ Errs(r)
        PROVE  RetryInv'
    <2>1. PICK stage \in {"deduplicated", "retried", "error"} : Goes(r, stage)
      BY <1>1 DEF Replay, Dispatch, Errs
    <2>2. stage \in RetryStages /\ ~At(r, "idle") /\ UNCHANGED <<bound, retried>>
      BY <1>1 DEF Replay, Dispatch, Errs, RetryStages
    <2>3. /\ call' \in [Retries -> Calls]
          /\ \A q \in Retries \ {r} : call'[q] = call[q]
          /\ call'[r].key = call[r].key /\ call'[r].job = call[r].job /\ call'[r].pc = stage
      BY <2>1, <2>2, GoesOn DEF RetryTypes
    <2>4. RetryTypes'
      BY <2>2, <2>3 DEF RetryTypes
    <2>5. KeyedRequests'
      BY <2>3 DEF KeyedRequests
    <2>6. OneAdmitted' /\ RetriedOnce'
      BY <2>2, <2>3 DEF OneAdmitted, Admitted, RetriedOnce
    <2> QED
      BY <2>4, <2>5, <2>6
  <1>2. CASE UNCHANGED <<call, bound, retried>>
    BY <1>2 DEF RetryTypes, KeyedRequests, OneAdmitted, Admitted, RetriedOnce
  <1> QED
    BY <1>1, <1>2 DEF JobFails, retryVars

LEMMA RetryInvariant == RetrySpec => []RetryInv
  <1>1. RetryInv /\ [RetryNext]_retryVars => RetryInv'
    BY ArriveKeeps, RecordKeeps, RetryKeeps, OthersKeep DEF RetryNext
  <1> QED
    BY RetryStart, <1>1, PTL DEF RetrySpec

(* A request that is a replay found its own job under its key *)
Replayed ==
  \A r \in Retries : call[r].pc \in {"replay", "deduplicated"} =>
    call[r].key \in RetryHeaders /\ bound[call[r].key] = call[r].job

(* Where the request that was let on under a key is, when it retried nothing *)
Waiting == {"retry", "notRetryable", "error"}

(* The request that was let on under a key has retried the job, is about to, or failed to *)
KeyIsAnswered ==
  \A k \in RetryHeaders : bound[k] # NoHeader =>
    \/ retried[k][bound[k]] > 0
    \/ \E s \in Retries : call[s].key = k /\ call[s].job = bound[k] /\ call[s].pc \in Waiting

ReplayInv == Replayed /\ KeyIsAnswered

(* A request that neither records a key nor retries, and waits on if it waited *)
LEMMA ReplaysGoOn ==
  ASSUME RetryInv, ReplayInv, NEW r \in Retries, NEW stage \in RetryStages, Goes(r, stage),
         UNCHANGED <<bound, retried>>,
         call[r].pc \in Waiting => stage \in Waiting,
         stage \in {"replay", "deduplicated"} => call[r].key \in RetryHeaders /\ bound[call[r].key] = call[r].job
  PROVE  ReplayInv'
  <1>1. /\ \A q \in Retries \ {r} : call'[q] = call[q]
        /\ call'[r].key = call[r].key /\ call'[r].job = call[r].job /\ call'[r].pc = stage
    BY GoesOn DEF RetryInv, RetryTypes
  <1>2. Replayed'
    BY <1>1 DEF ReplayInv, Replayed
  <1>3. KeyIsAnswered'
    <2> SUFFICES ASSUME NEW k \in RetryHeaders, bound[k] # NoHeader, ~(retried[k][bound[k]] > 0)
                 PROVE  \E s \in Retries : call'[s].key = k /\ call'[s].job = bound[k] /\ call'[s].pc \in Waiting
      BY DEF KeyIsAnswered
    <2>1. PICK s \in Retries : call[s].key = k /\ call[s].job = bound[k] /\ call[s].pc \in Waiting
      BY DEF ReplayInv, KeyIsAnswered
    <2>2. call'[s].key = k /\ call'[s].job = bound[k] /\ call'[s].pc \in Waiting
      BY <1>1, <2>1
    <2> QED
      BY <2>2
  <1> QED
    BY <1>2, <1>3 DEF ReplayInv

(* A request that arrives was not what a replay relies on *)
LEMMA ReplaysArrive ==
  ASSUME RetryInv, ReplayInv, NEW r \in Retries, NEW k \in RetryHeaders \union {NoHeader}, NEW j \in RetryJobs, ArriveRetry(r, k, j)
  PROVE  ReplayInv'
  <1> USE DEF RetryInv, RetryTypes, ReplayInv, ArriveRetry, At
  <1>1. \A q \in Retries \ {r} : call'[q] = call[q]
    OBVIOUS
  <1>2. call[r].pc \notin Waiting /\ call'[r].pc \notin {"replay", "deduplicated"} /\ UNCHANGED <<bound, retried>>
    BY DEF Waiting
  <1>3. Replayed'
    BY <1>1, <1>2 DEF Replayed
  <1>4. KeyIsAnswered'
    <2> SUFFICES ASSUME NEW h \in RetryHeaders, bound[h] # NoHeader, ~(retried[h][bound[h]] > 0)
                 PROVE  \E s \in Retries : call'[s].key = h /\ call'[s].job = bound[h] /\ call'[s].pc \in Waiting
      BY <1>2 DEF KeyIsAnswered
    <2>1. PICK s \in Retries : call[s].key = h /\ call[s].job = bound[h] /\ call[s].pc \in Waiting
      BY DEF KeyIsAnswered
    <2>2. call'[s] = call[s]
      BY <1>1, <1>2, <2>1
    <2> QED
      BY <2>1, <2>2
  <1> QED
    BY <1>3, <1>4

(* The request that gets the key is let on to RetryJob; one that meets its own
   job there is the replay *)
LEMMA ReplaysRecord ==
  ASSUME RetryInv, ReplayInv, NEW r \in Retries, RecordRetryKey(r)
  PROVE  ReplayInv'
  <1> DEFINE k == call[r].key
             j == call[r].job
  <1>1. k \in RetryHeaders /\ j \in RetryJobs /\ call[r].pc \notin Waiting
    BY DEF RetryInv, RetryTypes, Calls, KeyedRequests, RecordRetryKey, At, Waiting
  <1>2. CASE UNCHANGED bound
    <2>1. PICK stage \in {"retry", "replay", "conflict"} : Goes(r, stage) /\ (stage # "retry" => bound[k] = j \/ stage = "conflict")
      BY DEF RecordRetryKey
    <2>2. stage \in RetryStages /\ UNCHANGED <<bound, retried>>
      BY <1>2 DEF RetryStages, RecordRetryKey
    <2> QED
      BY <1>1, <2>1, <2>2, ReplaysGoOn
  <1>3. CASE bound[k] = NoHeader /\ bound' = [bound EXCEPT ![k] = j] /\ Goes(r, "retry")
    <2>1. /\ \A q \in Retries \ {r} : call'[q] = call[q]
          /\ call'[r].key = k /\ call'[r].job = j /\ call'[r].pc = "retry"
      BY <1>3, GoesOn DEF RetryInv, RetryTypes, RetryStages
    <2>2. bound'[k] = j /\ \A h \in RetryHeaders \ {k} : bound'[h] = bound[h]
      BY <1>1, <1>3 DEF RetryInv, RetryTypes
    <2>3. UNCHANGED retried
      BY DEF RecordRetryKey
    <2>4. Replayed'
      <3> SUFFICES ASSUME NEW q \in Retries, call'[q].pc \in {"replay", "deduplicated"}
                   PROVE  call'[q].key \in RetryHeaders /\ bound'[call'[q].key] = call'[q].job
        BY DEF Replayed
      <3>1. q # r /\ call'[q] = call[q]
        BY <2>1
      <3>2. call[q].key \in RetryHeaders /\ bound[call[q].key] = call[q].job /\ call[q].job \in RetryJobs
        BY <3>1 DEF ReplayInv, Replayed, RetryInv, RetryTypes, At
      <3>3. call[q].key # k
        BY <1>3, <3>2, RetryAssumption
      <3> QED
        BY <2>2, <3>1, <3>2, <3>3
    <2>5. KeyIsAnswered'
      <3> SUFFICES ASSUME NEW h \in RetryHeaders, bound'[h] # NoHeader, ~(retried[h][bound'[h]] > 0)
                   PROVE  \E s \in Retries : call'[s].key = h /\ call'[s].job = bound'[h] /\ call'[s].pc \in Waiting
        BY <2>3 DEF KeyIsAnswered
      <3>1. CASE h = k
        BY <2>1, <2>2, <3>1 DEF Waiting
      <3>2. CASE h # k
        <4>1. bound'[h] = bound[h]
          BY <2>2, <3>2
        <4>2. PICK s \in Retries : call[s].key = h /\ call[s].job = bound[h] /\ call[s].pc \in Waiting
          BY <4>1 DEF ReplayInv, KeyIsAnswered
        <4>3. call'[s] = call[s]
          BY <1>1, <2>1, <4>2
        <4> QED
          BY <4>1, <4>2, <4>3
      <3> QED
        BY <3>1, <3>2
    <2> QED
      BY <2>4, <2>5 DEF ReplayInv
  <1> QED
    BY <1>2, <1>3 DEF RecordRetryKey

(* The request that was let on retries its job, or finds it not failed *)
LEMMA ReplaysRetry ==
  ASSUME RetryInv, ReplayInv, NEW r \in Retries, RetryJob(r)
  PROVE  ReplayInv'
  <1> DEFINE k == call[r].key
             j == call[r].job
  <1>1. k \in RetryHeaders \union {NoHeader} /\ j \in RetryJobs /\ UNCHANGED bound
    BY DEF RetryInv, RetryTypes, Calls, RetryJob, At
  <1>2. CASE Goes(r, "notRetryable") /\ UNCHANGED retried
    BY <1>1, <1>2, ReplaysGoOn DEF RetryStages, Waiting
  <1>3. CASE Goes(r, "dispatch") /\ retried' = [retried EXCEPT ![k][j] = retried[k][j] + 1]
    <2>1. /\ \A q \in Retries \ {r} : call'[q] = call[q]
          /\ call'[r].key = k /\ call'[r].job = j /\ call'[r].pc = "dispatch"
      BY <1>3, GoesOn DEF RetryInv, RetryTypes, RetryStages
    <2>2. /\ retried'[k][j] = retried[k][j] + 1 /\ retried[k][j] \in Nat
          /\ \A h \in RetryHeaders, i \in RetryJobs : h # k \/ i # j => retried'[h][i] = retried[h][i]
      BY <1>1, <1>3 DEF RetryInv, RetryTypes
    <2>3. Replayed'
      BY <1>1, <2>1 DEF ReplayInv, Replayed
    <2>4. KeyIsAnswered'
      <3> SUFFICES ASSUME NEW h \in RetryHeaders, bound[h] # NoHeader, ~(retried'[h][bound[h]] > 0)
                   PROVE  \E s \in Retries : call'[s].key = h /\ call'[s].job = bound[h] /\ call'[s].pc \in Waiting
        BY <1>1 DEF KeyIsAnswered
      <3>1. h # k \/ bound[h] # j
        BY <2>2
      <3>2. bound[h] \in RetryJobs
        BY DEF RetryInv, RetryTypes
      <3>3. ~(retried[h][bound[h]] > 0)
        BY <2>2, <3>1, <3>2
      <3>4. PICK s \in Retries : call[s].key = h /\ call[s].job = bound[h] /\ call[s].pc \in Waiting
        BY <3>3 DEF ReplayInv, KeyIsAnswered
      <3>5. s # r /\ call'[s] = call[s]
        BY <2>1, <3>1, <3>4
      <3> QED
        BY <3>4, <3>5
    <2> QED
      BY <2>3, <2>4 DEF ReplayInv
  <1> QED
    BY <1>2, <1>3 DEF RetryJob

LEMMA ReplayInvariant == RetrySpec => []ReplayInv
  <1>1. RetryInit => ReplayInv
    BY DEF RetryInit, ReplayInv, Replayed, KeyIsAnswered
  <1>2. RetryInv /\ ReplayInv /\ [RetryNext]_retryVars => ReplayInv'
    <2> SUFFICES ASSUME RetryInv, ReplayInv, [RetryNext]_retryVars
                 PROVE  ReplayInv'
      OBVIOUS
    <2>1. ASSUME NEW r \in Retries, Replay(r)
          PROVE  ReplayInv'
      <3>1. /\ Goes(r, "deduplicated") /\ UNCHANGED <<bound, retried>> /\ call[r].pc \notin Waiting
            /\ call[r].key \in RetryHeaders /\ bound[call[r].key] = call[r].job
        BY <2>1 DEF Replay, At, Waiting, ReplayInv, Replayed
      <3> QED
        BY <3>1, ReplaysGoOn DEF RetryStages
    <2>2. ASSUME NEW r \in Retries, Dispatch(r)
          PROVE  ReplayInv'
      <3>1. Goes(r, "retried") /\ UNCHANGED <<bound, retried>> /\ call[r].pc \notin Waiting
        BY <2>2 DEF Dispatch, At, Waiting
      <3> QED
        BY <3>1, ReplaysGoOn DEF RetryStages
    <2>3. ASSUME NEW r \in Retries, Errs(r)
          PROVE  ReplayInv'
      BY <2>3, ReplaysGoOn DEF Errs, Waiting, RetryStages
    <2>4. CASE (\E j \in RetryJobs : JobFails(j)) \/ UNCHANGED retryVars
      BY <2>4 DEF JobFails, retryVars, ReplayInv, Replayed, KeyIsAnswered
    <2> QED
      BY <2>1, <2>2, <2>3, <2>4, ReplaysArrive, ReplaysRecord, ReplaysRetry DEF RetryNext
  <1> QED
    BY <1>1, <1>2, RetryInvariant, PTL DEF RetrySpec

(* A resent retry never restarts a job again, and a replay is owed nothing
   (RecordRetryKey) *)
THEOREM KeysRetryOnce == RetrySpec => []OneRetryPerKey
  <1>1. RetryInv /\ ReplayInv => OneRetryPerKey
    <2> SUFFICES ASSUME RetryInv, ReplayInv
                 PROVE  OneRetryPerKey
      OBVIOUS
    <2>1. ASSUME NEW k \in RetryHeaders, NEW i \in RetryJobs, NEW j \in RetryJobs, retried[k][i] > 0, retried[k][j] > 0
          PROVE  i = j /\ retried[k][i] = 1
      BY <2>1 DEF RetryInv, RetriedOnce
    <2>2. ASSUME NEW r \in Retries, At(r, "deduplicated")
          PROVE  \/ retried[call[r].key][call[r].job] > 0
                 \/ \E s \in Retries : /\ call[s].key = call[r].key /\ call[s].job = call[r].job
                                      /\ call[s].pc \in {"retry", "notRetryable", "error"}
      <3>1. call[r].key \in RetryHeaders /\ bound[call[r].key] = call[r].job /\ call[r].job \in RetryJobs
        BY <2>2 DEF ReplayInv, Replayed, RetryInv, RetryTypes, At
      <3>2. bound[call[r].key] # NoHeader
        BY <3>1, RetryAssumption
      <3> QED
        BY <3>1, <3>2 DEF ReplayInv, KeyIsAnswered, Waiting
    <2> QED
      BY <2>1, <2>2 DEF OneRetryPerKey
  <1> QED
    BY RetryInvariant, ReplayInvariant, <1>1, PTL

-----------------------------------------------------------------------------
(***************************************************************************)
(* Retries and failures.  A job that is failed has a retry to come that    *)
(* its failures pay for; a request that is past RetryJob has an entry to   *)
(* come that a retry pays for.  The retries of a job are counted as slots, *)
(* one for each retry under each key, as RetriesFollowFailures does.       *)
(***************************************************************************)

AnyHeader == RetryHeaders \union {NoHeader}

(* The retries of a job, in a history of retries *)
Slots(history, j) == {u \in AnyHeader \X (1..(1 + MaxFails)) : u[2] <= history[u[1]][j]}

(* The retry a failed job may still get *)
Owed(fails, j) == IF j \in fails THEN 1 ELSE 0

(* The requests about to send an entry for a job *)
Sending(calls, j) == {r \in Retries : calls[r].pc = "dispatch" /\ calls[r].job = j}

Counts ==
  /\ failed \subseteq RetryJobs
  /\ sent \in [RetryJobs -> Nat]
  /\ refails \in [RetryJobs -> 0..MaxFails] /\ errors \in 0..MaxErrors

(* The retries under one key, and those under all of them, are paid for *)
RetriesPaid ==
  \A j \in RetryJobs :
    /\ \A k \in AnyHeader : retried[k][j] + Owed(failed, j) <= 1 + refails[j]
    /\ IsFiniteSet(Slots(retried, j))
    /\ Cardinality(Slots(retried, j)) + Owed(failed, j) <= 1 + refails[j]

(* The entries sent and about to be sent are paid for *)
EntriesPaid ==
  \A j \in RetryJobs :
    /\ IsFiniteSet(Sending(call, j))
    /\ sent[j] + Cardinality(Sending(call, j)) <= Cardinality(Slots(retried, j))

CountsInv == Counts /\ RetriesPaid /\ EntriesPaid

LEMMA CountsStart == RetryInit => CountsInv
  <1> SUFFICES ASSUME RetryInit PROVE CountsInv
    OBVIOUS
  <1> USE RetryAssumption DEF RetryInit
  <1>1. Counts
    BY DEF Counts
  <1>2. IsFiniteSet({}) /\ Cardinality({}) = 0
    BY FS_EmptySet
  <1>3. ASSUME NEW j \in RetryJobs
        PROVE  Slots(retried, j) = {} /\ Sending(call, j) = {} /\ Owed(failed, j) = 1
    <2>1. \A u \in AnyHeader \X (1..(1 + MaxFails)) : ~(u[2] <= retried[u[1]][j])
      BY <1>3 DEF AnyHeader
    <2> QED
      BY <1>3, <2>1 DEF Slots, Sending, Owed
  <1>4. RetriesPaid
    <2> SUFFICES ASSUME NEW j \in RetryJobs
                 PROVE  /\ \A k \in AnyHeader : retried[k][j] + Owed(failed, j) <= 1 + refails[j]
                        /\ IsFiniteSet(Slots(retried, j))
                        /\ Cardinality(Slots(retried, j)) + Owed(failed, j) <= 1 + refails[j]
      BY DEF RetriesPaid
    <2> HIDE DEF RetryInit
    <2>1. Slots(retried, j) = {} /\ Owed(failed, j) = 1
      BY <1>3
    <2>2. \A k \in AnyHeader : retried[k][j] = 0
      BY DEF AnyHeader, RetryInit
    <2>3. refails[j] = 0
      BY DEF RetryInit
    <2>4. IsFiniteSet(Slots(retried, j)) /\ Cardinality(Slots(retried, j)) = 0
      BY <1>2, <2>1
    <2> QED
      BY <2>1, <2>2, <2>3, <2>4
  <1>5. EntriesPaid
    <2> SUFFICES ASSUME NEW j \in RetryJobs
                 PROVE  /\ IsFiniteSet(Sending(call, j))
                        /\ sent[j] + Cardinality(Sending(call, j)) <= Cardinality(Slots(retried, j))
      BY DEF EntriesPaid
    <2> HIDE DEF RetryInit
    <2>1. Slots(retried, j) = {} /\ Sending(call, j) = {}
      BY <1>3
    <2>2. sent[j] = 0
      BY DEF RetryInit
    <2>3. /\ IsFiniteSet(Sending(call, j)) /\ Cardinality(Sending(call, j)) = 0
          /\ Cardinality(Slots(retried, j)) = 0
      BY <1>2, <2>1
    <2> QED
      BY <2>2, <2>3
  <1> QED
    BY <1>1, <1>4, <1>5 DEF CountsInv

(* A slot more *)
LEMMA SlotTaken ==
  ASSUME NEW R, NEW k \in AnyHeader, NEW j, NEW n \in 1..(1 + MaxFails), NEW S,
         \A h \in AnyHeader : R[h][j] \in Nat, n = R[k][j] + 1,
         S[k][j] = n, \A h \in AnyHeader \ {k} : S[h][j] = R[h][j], IsFiniteSet(Slots(R, j))
  PROVE  /\ IsFiniteSet(Slots(S, j))
         /\ Cardinality(Slots(R, j)) \in Nat
         /\ Cardinality(Slots(S, j)) = Cardinality(Slots(R, j)) + 1
  <1> USE RetryAssumption
  <1>1. ASSUME NEW u \in AnyHeader \X (1..(1 + MaxFails))
        PROVE  u[2] <= S[u[1]][j] <=> u[2] <= R[u[1]][j] \/ u = <<k, n>>
    <2>1. /\ u[1] \in AnyHeader /\ u[2] \in 1..(1 + MaxFails)
          /\ u = <<k, n>> <=> u[1] = k /\ u[2] = n
      BY <1>1
    <2>2. CASE u[1] = k
      BY <2>1, <2>2
    <2>3. CASE u[1] # k
      BY <2>1, <2>3
    <2> QED
      BY <2>2, <2>3
  <1>2. <<k, n>> \in AnyHeader \X (1..(1 + MaxFails)) /\ ~(n <= R[k][j])
    OBVIOUS
  <1>3. Slots(S, j) = Slots(R, j) \cup {<<k, n>>} /\ <<k, n>> \notin Slots(R, j)
    BY <1>1, <1>2 DEF Slots
  <1>4. Cardinality(Slots(R, j)) \in Nat
    BY FS_CardinalityType
  <1>5. /\ IsFiniteSet(Slots(R, j) \cup {<<k, n>>})
        /\ Cardinality(Slots(R, j) \cup {<<k, n>>}) = Cardinality(Slots(R, j)) + 1
    BY <1>3, FS_AddElement
  <1> QED
    BY <1>3, <1>4, <1>5

(* Slots depend on the job's own retries *)
LEMMA SlotsKept ==
  ASSUME NEW R, NEW S, NEW j, \A h \in AnyHeader : S[h][j] = R[h][j]
  PROVE  Slots(S, j) = Slots(R, j)
  BY DEF Slots

(* RetryJob: the job's failure pays for the slot, the slot for the entry *)
LEMMA RetryIsPaid ==
  ASSUME RetryTypes, CountsInv, NEW r \in Retries, RetryJob(r)
  PROVE  CountsInv'
  <1> DEFINE k == call[r].key
             j == call[r].job
  <1> USE RetryAssumption DEF CountsInv
  <1>1. k \in AnyHeader /\ j \in RetryJobs /\ At(r, "retry")
    BY DEF RetryJob, RetryTypes, Calls, At, AnyHeader
  <1>2. refails[j] \in Nat /\ refails[j] <= MaxFails /\ MaxFails \in Nat
    BY <1>1 DEF Counts
  <1>3. CASE j \notin failed
    <2>1. Goes(r, "notRetryable") /\ UNCHANGED <<failed, retried, sent, refails, errors>>
      BY <1>3 DEF RetryJob
    <2>2. ASSUME NEW i PROVE Sending(call', i) = Sending(call, i)
      BY <1>1, <2>1, GoesOn DEF RetryTypes, RetryStages, At, Sending
    <2> QED
      BY <2>1, <2>2 DEF Counts, RetriesPaid, EntriesPaid
  <1>4. CASE j \in failed
    <2> DEFINE n == retried[k][j] + 1
    <2>1. /\ failed' = failed \ {j} /\ Goes(r, "dispatch") /\ UNCHANGED <<sent, refails, errors>>
          /\ retried' = [retried EXCEPT ![k][j] = retried[k][j] + 1]
      BY <1>4 DEF RetryJob
    <2>2. Owed(failed, j) = 1 /\ Owed(failed', j) = 0
      BY <1>4, <2>1 DEF Owed
    <2>3. \A h \in AnyHeader : retried[h][j] \in Nat /\ retried[h][j] <= refails[j]
      BY <1>1, <1>2, <2>2 DEF RetriesPaid, RetryTypes, AnyHeader
    <2>4. /\ retried'[k][j] = n
          /\ \A h \in AnyHeader \ {k} : retried'[h][j] = retried[h][j]
          /\ \A h \in AnyHeader, i \in RetryJobs \ {j} : retried'[h][i] = retried[h][i]
      BY <1>1, <2>1 DEF RetryTypes, AnyHeader
    <2>5. /\ IsFiniteSet(Slots(retried', j)) /\ Cardinality(Slots(retried, j)) \in Nat
          /\ Cardinality(Slots(retried', j)) = Cardinality(Slots(retried, j)) + 1
      <3>1. n \in 1..(1 + MaxFails) /\ IsFiniteSet(Slots(retried, j))
        BY <1>1, <1>2, <2>3 DEF RetriesPaid
      <3> HIDE DEF k, j
      <3> QED
        BY <1>1, <2>3, <2>4, <3>1, SlotTaken
    <2>6. Sending(call', j) = Sending(call, j) \cup {r} /\ r \notin Sending(call, j)
      BY <1>1, <2>1, GoesOn DEF Sending, At, RetryTypes, RetryStages
    <2>7. /\ IsFiniteSet(Sending(call', j)) /\ Cardinality(Sending(call, j)) \in Nat
          /\ Cardinality(Sending(call', j)) = Cardinality(Sending(call, j)) + 1
      BY <1>1, <2>6, FS_AddElement, FS_CardinalityType DEF EntriesPaid
    <2>8. ASSUME NEW i \in RetryJobs \ {j}
          PROVE  /\ Slots(retried', i) = Slots(retried, i)
                 /\ Owed(failed', i) = Owed(failed, i)
                 /\ Sending(call', i) = Sending(call, i)
      <3>1. Slots(retried', i) = Slots(retried, i)
        BY <2>4, SlotsKept
      <3>2. Sending(call', i) = Sending(call, i)
        BY <1>1, <2>1, <2>8, GoesOn DEF Sending, At, RetryTypes, RetryStages
      <3> QED
        BY <2>1, <3>1, <3>2 DEF Owed
    <2>9. Counts'
      BY <2>1 DEF Counts
    <2>10. RetriesPaid'
      <3> SUFFICES ASSUME NEW i \in RetryJobs
                   PROVE  /\ \A h \in AnyHeader : retried'[h][i] + Owed(failed', i) <= 1 + refails'[i]
                          /\ IsFiniteSet(Slots(retried', i))
                          /\ Cardinality(Slots(retried', i)) + Owed(failed', i) <= 1 + refails'[i]
        BY DEF RetriesPaid
      <3>1. CASE i = j
        <4>1. \A h \in AnyHeader : retried'[h][j] + Owed(failed', j) <= 1 + refails'[j]
          BY <1>1, <1>2, <2>1, <2>2, <2>3, <2>4
        <4>2. Cardinality(Slots(retried, j)) + 1 <= 1 + refails[j]
          BY <1>1, <2>2 DEF RetriesPaid
        <4>3. Cardinality(Slots(retried', j)) + Owed(failed', j) <= 1 + refails'[j]
          BY <1>2, <2>1, <2>2, <2>5, <4>2
        <4> HIDE DEF j
        <4> QED
          BY <2>5, <3>1, <4>1, <4>3
      <3>2. CASE i # j
        BY <2>1, <2>4, <2>8, <3>2 DEF RetriesPaid
      <3> QED
        BY <3>1, <3>2
    <2>11. EntriesPaid'
      <3> SUFFICES ASSUME NEW i \in RetryJobs
                   PROVE  /\ IsFiniteSet(Sending(call', i))
                          /\ sent'[i] + Cardinality(Sending(call', i)) <= Cardinality(Slots(retried', i))
        BY DEF EntriesPaid
      <3>1. CASE i = j
        <4>1. sent[j] \in Nat /\ sent[j] + Cardinality(Sending(call, j)) <= Cardinality(Slots(retried, j))
          BY <1>1 DEF EntriesPaid, Counts
        <4> QED
          BY <2>1, <2>5, <2>7, <3>1, <4>1
      <3>2. CASE i # j
        BY <2>1, <2>8, <3>2 DEF EntriesPaid
      <3> QED
        BY <3>1, <3>2
    <2> QED
      BY <2>9, <2>10, <2>11
  <1> QED
    BY <1>3, <1>4

(* A dispatched retry has its entry or none; a failure pays for a retry to  *)
(* come; nothing else counts                                                *)
LEMMA OthersArePaid ==
  ASSUME RetryTypes, CountsInv, [RetryNext]_retryVars, \A r \in Retries : ~RetryJob(r)
  PROVE  CountsInv'
  <1> USE RetryAssumption DEF CountsInv
  <1>1. ASSUME NEW r \in Retries, Dispatch(r) PROVE CountsInv'
    <2> DEFINE j == call[r].job
    <2>1. Goes(r, "retried") /\ At(r, "dispatch") /\ UNCHANGED <<failed, retried, refails, errors>>
      BY <1>1 DEF Dispatch
    <2>2. j \in RetryJobs
      BY <2>1 DEF RetryTypes, At
    <2>3. sent' \in [RetryJobs -> Nat] /\ sent'[j] <= sent[j] + 1 /\ \A i \in RetryJobs \ {j} : sent'[i] = sent[i]
      BY <1>1, <2>2 DEF Dispatch, Counts
    <2>4. Sending(call', j) = Sending(call, j) \ {r} /\ r \in Sending(call, j)
      BY <2>1, GoesOn DEF Sending, At, RetryTypes, RetryStages
    <2>5. /\ IsFiniteSet(Sending(call', j)) /\ Cardinality(Sending(call, j)) \in Nat
          /\ Cardinality(Sending(call', j)) = Cardinality(Sending(call, j)) - 1
      BY <2>2, <2>4, FS_RemoveElement, FS_CardinalityType DEF EntriesPaid
    <2>6. \A i \in RetryJobs \ {j} : Sending(call', i) = Sending(call, i)
      BY <2>1, GoesOn DEF Sending, At, RetryTypes, RetryStages
    <2>7. Counts' /\ RetriesPaid'
      BY <2>1, <2>3 DEF Counts, RetriesPaid
    <2>8. EntriesPaid'
      <3> SUFFICES ASSUME NEW i \in RetryJobs
                   PROVE  /\ IsFiniteSet(Sending(call', i))
                          /\ sent'[i] + Cardinality(Sending(call', i)) <= Cardinality(Slots(retried', i))
        BY DEF EntriesPaid
      <3>1. CASE i = j
        <4>1. /\ sent[j] \in Nat /\ sent'[j] \in Nat
              /\ sent[j] + Cardinality(Sending(call, j)) <= Cardinality(Slots(retried, j))
          BY <2>2, <2>3 DEF EntriesPaid, Counts
        <4>2. Cardinality(Slots(retried, j)) \in Nat
          BY <2>2, FS_CardinalityType DEF RetriesPaid
        <4>3. sent'[j] + Cardinality(Sending(call', j)) <= Cardinality(Slots(retried', j))
          BY <2>1, <2>3, <2>5, <4>1, <4>2
        <4> HIDE DEF j
        <4> QED
          BY <2>5, <3>1, <4>3
      <3>2. CASE i # j
        BY <2>1, <2>3, <2>6, <3>2 DEF EntriesPaid
      <3> QED
        BY <3>1, <3>2
    <2> QED
      BY <2>7, <2>8
  <1>2. ASSUME NEW r \in Retries, NEW stage \in RetryStages \ {"dispatch"}, Goes(r, stage),
               ~At(r, "dispatch"), errors' \in 0..MaxErrors, UNCHANGED <<failed, retried, sent, refails>>
        PROVE  CountsInv'
    <2>1. ASSUME NEW j PROVE Sending(call', j) = Sending(call, j)
      BY <1>2, GoesOn DEF RetryTypes, At, Sending
    <2> QED
      BY <1>2, <2>1 DEF Counts, RetriesPaid, EntriesPaid
  <1>3. ASSUME NEW r \in Retries, RecordRetryKey(r) \/ Replay(r) PROVE CountsInv'
    BY <1>2, <1>3 DEF RecordRetryKey, Replay, At, RetryStages, Counts
  <1>4. ASSUME NEW r \in Retries, Errs(r) PROVE CountsInv'
    <2>1. errors' \in 0..MaxErrors /\ ~At(r, "dispatch")
      BY <1>4 DEF Errs, Counts, At
    <2> QED
      BY <1>2, <1>4, <2>1 DEF Errs, RetryStages
  <1>5. ASSUME NEW r \in Retries, NEW k \in AnyHeader, NEW i \in RetryJobs, ArriveRetry(r, k, i)
        PROVE  CountsInv'
    <2>1. ASSUME NEW j PROVE Sending(call', j) = Sending(call, j)
      BY <1>5 DEF ArriveRetry, At, RetryTypes, Sending
    <2> QED
      BY <1>5, <2>1 DEF ArriveRetry, Counts, RetriesPaid, EntriesPaid
  <1>6. ASSUME NEW i \in RetryJobs, JobFails(i) PROVE CountsInv'
    <2>1. /\ i \notin failed /\ failed' = failed \union {i}
          /\ refails' \in [RetryJobs -> 0..MaxFails] /\ refails'[i] = refails[i] + 1
          /\ \A j \in RetryJobs : refails[j] \in Nat /\ refails'[j] \in Nat
          /\ \A j \in RetryJobs \ {i} : refails'[j] = refails[j]
          /\ UNCHANGED <<call, retried, sent, errors>>
      BY <1>6 DEF JobFails, Counts
    <2>2. Counts' /\ EntriesPaid'
      BY <2>1 DEF Counts, EntriesPaid
    <2>3. ASSUME NEW j \in RetryJobs
          PROVE  /\ \A k \in AnyHeader : retried'[k][j] + Owed(failed', j) <= 1 + refails'[j]
                 /\ IsFiniteSet(Slots(retried', j))
                 /\ Cardinality(Slots(retried', j)) + Owed(failed', j) <= 1 + refails'[j]
      <3>1. /\ Owed(failed, j) \in Nat /\ Owed(failed', j) \in Nat /\ Owed(failed', j) <= Owed(failed, j) + 1
            /\ j # i => Owed(failed', j) = Owed(failed, j)
        BY <2>1 DEF Owed
      <3>2. IsFiniteSet(Slots(retried, j)) /\ Cardinality(Slots(retried, j)) \in Nat
        BY FS_CardinalityType DEF RetriesPaid
      <3>3. Cardinality(Slots(retried, j)) + Owed(failed, j) <= 1 + refails[j]
        BY DEF RetriesPaid
      <3>4. \A k \in AnyHeader : retried[k][j] \in Nat /\ retried[k][j] + Owed(failed, j) <= 1 + refails[j]
        BY DEF RetriesPaid, RetryTypes, AnyHeader
      <3>5. CASE j = i
        <4>1. refails[i] \in Nat /\ refails'[i] = refails[i] + 1 /\ UNCHANGED retried
          BY <2>1
        <4> QED
          BY <3>1, <3>2, <3>3, <3>4, <3>5, <4>1
      <3>6. CASE j # i
        <4>1. refails'[j] = refails[j] /\ Owed(failed', j) = Owed(failed, j) /\ UNCHANGED retried
          BY <2>1, <3>1, <3>6
        <4> QED
          BY <3>2, <3>3, <3>4, <4>1
      <3> QED
        BY <3>5, <3>6
    <2> QED
      BY <2>2, <2>3 DEF RetriesPaid
  <1>7. CASE UNCHANGED retryVars
    BY <1>7 DEF retryVars, Counts, RetriesPaid, EntriesPaid
  <1> QED
    BY <1>1, <1>3, <1>4, <1>5, <1>6, <1>7 DEF RetryNext, AnyHeader

LEMMA CountsInvariant == RetrySpec => []CountsInv
  <1>1. RetryInv /\ CountsInv /\ [RetryNext]_retryVars => CountsInv'
    BY RetryIsPaid, OthersArePaid DEF RetryInv
  <1> QED
    BY <1>1, CountsStart, RetryInvariant, PTL DEF RetrySpec

(* Type correctness of the retries under keys, for any requests and keys    *)
THEOREM RetryTypeCorrect == RetrySpec => []RetryTypeOK
  <1>1. RetryInv /\ CountsInv => RetryTypeOK
    BY DEF RetryInv, RetryTypes, CountsInv, Counts, Calls, RetryTypeOK
  <1> QED
    BY <1>1, RetryInvariant, CountsInvariant, PTL

(* A job is retried at most once for each of its own failures, under any    *)
(* keys, and an entry is sent for a retry only (RetryJob, retryJob)         *)
THEOREM FailuresPayRetries == RetrySpec => []RetriesFollowFailures
  <1>1. CountsInv => RetriesFollowFailures
    <2> SUFFICES ASSUME CountsInv, NEW j \in RetryJobs
                 PROVE  sent[j] <= Cardinality(Slots(retried, j)) /\ Cardinality(Slots(retried, j)) <= 1 + refails[j]
      BY DEF RetriesFollowFailures, Slots, AnyHeader
    <2>1. /\ Cardinality(Sending(call, j)) \in Nat /\ Cardinality(Slots(retried, j)) \in Nat
          /\ sent[j] \in Nat /\ refails[j] \in Nat
      BY FS_CardinalityType DEF CountsInv, Counts, RetriesPaid, EntriesPaid
    <2>2. Owed(failed, j) \in Nat
      BY DEF Owed
    <2>3. /\ sent[j] + Cardinality(Sending(call, j)) <= Cardinality(Slots(retried, j))
          /\ Cardinality(Slots(retried, j)) + Owed(failed, j) <= 1 + refails[j]
      BY DEF CountsInv, RetriesPaid, EntriesPaid
    <2> QED
      BY <2>1, <2>2, <2>3
  <1> QED
    BY <1>1, CountsInvariant, PTL

-----------------------------------------------------------------------------
(***************************************************************************)
(* E-mail.  The server takes a message at one step only; after that step   *)
(* an attempt has nothing left that fails permanently, and only after it   *)
(* can a success be reported.                                              *)
(***************************************************************************)

EmailTypes ==
  /\ smtp \in [EmailAttempts -> Steps \union {"idle", "dead"}]
  /\ outcome \in [EmailAttempts -> {"none", "ok", "permanent", "transient"}]
  /\ accepted \in [EmailAttempts -> Nat]
  /\ \A a \in EmailAttempts : outcome[a] # "none" => smtp[a] = "done"

(* A message is taken when its data is closed, once *)
TakenLate ==
  \A a \in EmailAttempts :
    /\ accepted[a] # 0 => smtp[a] \in {"quit", "done", "dead"} /\ outcome[a] # "permanent"
    /\ smtp[a] = "quit" => accepted[a] = 1

(* Only a valid job of a real run gets past the parse *)
Dialled == \A a \in EmailAttempts : smtp[a] \notin {"idle", "parse", "done", "dead"} => valid /\ ~dryRun

(* What a completed row tells *)
Delivered == completed => valid /\ (dryRun \/ \E a \in EmailAttempts : outcome[a] = "ok" /\ accepted[a] = 1)

EmailInv == EmailTypes /\ TakenLate /\ Dialled /\ Delivered

(* The steps of the dialogue, in their order *)
LEMMA DialogueSteps ==
  /\ DOMAIN Dialogue = 1..12
  /\ Dialogue[1] = "parse" /\ Dialogue[2] = "dial" /\ Dialogue[3] = "greeting" /\ Dialogue[4] = "starttls"
  /\ Dialogue[5] = "auth" /\ Dialogue[6] = "mail" /\ Dialogue[7] = "rcpt" /\ Dialogue[8] = "data"
  /\ Dialogue[9] = "write" /\ Dialogue[10] = "close" /\ Dialogue[11] = "quit" /\ Dialogue[12] = "done"
  BY DEF Dialogue

(* The steps the proof names are steps *)
LEMMA NamedSteps == {"parse", "close", "quit", "done"} \subseteq Steps
  <1>1. Dialogue[1] \in Steps /\ Dialogue[10] \in Steps /\ Dialogue[11] \in Steps /\ Dialogue[12] \in Steps
    BY DialogueSteps DEF Steps
  <1> QED
    BY <1>1, DialogueSteps

(* A step of the dialogue but the last is followed by another, and the close
   of the data by QUIT *)
LEMMA AfterStep ==
  ASSUME NEW step \in Steps \ {"done"}
  PROVE  /\ After(step) \in Steps
         /\ step = "close" <=> After(step) = "quit"
         /\ step # "quit" => After(step) # "done"
  <1> DEFINE n == CHOOSE i \in DOMAIN Dialogue : Dialogue[i] = step
  <1>1. \E i \in DOMAIN Dialogue : Dialogue[i] = step
    BY DEF Steps
  <1>2. n \in DOMAIN Dialogue /\ Dialogue[n] = step
    BY <1>1
  <1>3. After(step) = Dialogue[n + 1]
    BY DEF After
  <1> HIDE DEF n
  <1>4. n \in 1..12 /\ n # 12
    BY <1>2, DialogueSteps
  <1>5. n + 1 \in DOMAIN Dialogue
    BY <1>4, DialogueSteps
  <1>6. n \in {1, 2, 3, 4, 5, 6, 7, 8, 9, 10, 11}
    BY <1>4
  <1>7. (step = "close" <=> n = 10) /\ (Dialogue[n + 1] = "quit" <=> n = 10)
    BY <1>2, <1>6, DialogueSteps
  <1>8. step # "quit" => Dialogue[n + 1] # "done"
    BY <1>2, <1>6, DialogueSteps
  <1> QED
    BY <1>3, <1>5, <1>7, <1>8, DialogueSteps DEF Steps

(* What a step of the dialogue does to its attempt *)
LEMMA DialogueStep ==
  ASSUME EmailInv, NEW a \in EmailAttempts,
         Succeeds(a) \/ Fails(a) \/ Refuses(a) \/ DryRuns(a) \/ SenderDies(a)
  PROVE  \E step \in Steps \union {"dead"}, o \in {"none", "ok", "permanent", "transient"} :
           /\ smtp' = [smtp EXCEPT ![a] = step] /\ outcome' = [outcome EXCEPT ![a] = o]
           /\ o # "none" <=> step = "done"
           /\ smtp[a] \in {"close", "quit"} => step \in {"quit", "done", "dead"} /\ o # "permanent"
           /\ step = "quit" => smtp[a] = "close" /\ accepted' = [accepted EXCEPT ![a] = @ + 1]
           /\ step \notin {"done", "dead"} => valid /\ ~dryRun
           /\ completed' = completed \/ (o = "ok" /\ valid /\ (dryRun \/ smtp[a] = "quit"))
  <1> USE NamedSteps DEF EmailInv
  <1>1. CASE Succeeds(a) /\ smtp[a] # "quit"
    <2>1. smtp[a] \in Steps \ {"done"} /\ outcome[a] = "none"
      BY <1>1 DEF Succeeds, Running, EmailTypes
    <2>2. /\ After(smtp[a]) \in Steps \ {"done"}
          /\ smtp[a] = "close" <=> After(smtp[a]) = "quit"
      BY <1>1, <2>1, AfterStep
    <2>3. smtp' = [smtp EXCEPT ![a] = After(smtp[a])] /\ outcome' = [outcome EXCEPT ![a] = "none"]
      BY <1>1, <2>1 DEF Succeeds, EmailTypes
    <2>4. valid /\ ~dryRun /\ completed' = completed
      BY <1>1 DEF Succeeds, Running, Dialled
    <2>5. smtp[a] = "close" => accepted' = [accepted EXCEPT ![a] = @ + 1]
      BY <1>1 DEF Succeeds
    <2> QED
      BY <1>1, <2>2, <2>3, <2>4, <2>5
  <1>2. CASE Succeeds(a) /\ smtp[a] = "quit"
    BY <1>2 DEF Succeeds, Reports, SmtpAnswers, Dialled
  <1>3. CASE Fails(a)
    BY <1>3 DEF Fails, SmtpAnswers, Permanent
  <1>4. CASE Refuses(a) \/ DryRuns(a)
    BY <1>4 DEF Refuses, DryRuns, Reports, SmtpAnswers
  <1>5. CASE SenderDies(a)
    <2>1. outcome[a] = "none" /\ smtp[a] # "done"
      BY <1>5 DEF SenderDies, Running, EmailTypes
    <2>2. outcome' = [outcome EXCEPT ![a] = "none"]
      BY <1>5, <2>1 DEF SenderDies, EmailTypes
    <2> QED
      BY <1>5, <2>2 DEF SenderDies
  <1> QED
    BY <1>1, <1>2, <1>3, <1>4, <1>5

(* Nothing of another attempt changes but that the row may be completed *)
LEMMA EmailKeeps ==
  ASSUME EmailInv, [EmailNext]_emailVars
  PROVE  EmailInv'
  <1> USE NamedSteps DEF EmailInv, EmailAttempts
  <1>1. ASSUME NEW a \in EmailAttempts, Starts(a)
        PROVE  EmailInv'
    BY <1>1, EmailAssumption DEF Starts, givenVars, EmailTypes, TakenLate, Dialled, Delivered
  <1>2. ASSUME NEW a \in EmailAttempts, Abandon(a)
        PROVE  EmailInv'
    BY <1>2 DEF Abandon, givenVars, EmailTypes, TakenLate, Dialled, Delivered
  <1>3. ASSUME NEW a \in EmailAttempts, Succeeds(a) \/ Fails(a) \/ Refuses(a) \/ DryRuns(a) \/ SenderDies(a)
        PROVE  EmailInv'
    <2>1. PICK step \in Steps \union {"dead"}, o \in {"none", "ok", "permanent", "transient"} :
            /\ smtp' = [smtp EXCEPT ![a] = step] /\ outcome' = [outcome EXCEPT ![a] = o]
            /\ o # "none" <=> step = "done"
            /\ smtp[a] \in {"close", "quit"} => step \in {"quit", "done", "dead"} /\ o # "permanent"
            /\ step = "quit" => smtp[a] = "close" /\ accepted' = [accepted EXCEPT ![a] = @ + 1]
            /\ step \notin {"done", "dead"} => valid /\ ~dryRun
            /\ completed' = completed \/ (o = "ok" /\ valid /\ (dryRun \/ smtp[a] = "quit"))
      BY <1>3, DialogueStep
    <2>2. /\ UNCHANGED <<valid, dryRun>> /\ smtp[a] \notin {"idle", "done", "dead"} /\ outcome[a] = "none"
          /\ accepted' = accepted \/ (smtp[a] = "close" /\ accepted' = [accepted EXCEPT ![a] = @ + 1])
      BY <1>3 DEF Succeeds, Fails, Refuses, DryRuns, SenderDies, Running, MaybeTaken, givenVars, EmailTypes
    <2>3. accepted' \in [EmailAttempts -> Nat]
      BY <2>2 DEF EmailTypes
    <2>4. EmailTypes'
      BY <2>1, <2>3 DEF EmailTypes
    <2>5. TakenLate'
      <3>1. ASSUME NEW b \in EmailAttempts \ {a}
            PROVE  smtp'[b] = smtp[b] /\ outcome'[b] = outcome[b] /\ accepted'[b] = accepted[b]
        BY <2>1, <2>2 DEF EmailTypes
      <3>2. smtp'[a] = step /\ outcome'[a] = o
        BY <2>1 DEF EmailTypes
      <3>3. accepted'[a] = accepted[a] \/ (smtp[a] = "close" /\ accepted'[a] = accepted[a] + 1)
        BY <2>2 DEF EmailTypes
      <3>4. smtp[a] = "close" => accepted[a] = 0
        BY DEF TakenLate
      <3>5. accepted'[a] # 0 => smtp[a] \in {"close", "quit"}
        BY <2>2, <3>3 DEF TakenLate
      <3>6. step = "quit" => accepted'[a] = accepted[a] + 1
        BY <2>1 DEF EmailTypes
      <3>7. /\ accepted'[a] # 0 => smtp'[a] \in {"quit", "done", "dead"} /\ outcome'[a] # "permanent"
            /\ smtp'[a] = "quit" => accepted'[a] = 1
        BY <2>1, <3>2, <3>4, <3>5, <3>6
      <3> QED
        BY <3>1, <3>7 DEF TakenLate
    <2>6. Dialled'
      BY <2>1, <2>2 DEF EmailTypes, Dialled
    <2>7. Delivered'
      <3>1. ASSUME NEW b \in EmailAttempts, outcome[b] = "ok", accepted[b] = 1
            PROVE  outcome'[b] = "ok" /\ accepted'[b] = 1
        BY <2>1, <2>2, <3>1 DEF EmailTypes
      <3>2. CASE completed' = completed
        BY <2>2, <3>1, <3>2 DEF Delivered
      <3>3. CASE o = "ok" /\ valid /\ (dryRun \/ smtp[a] = "quit")
        <4>1. smtp[a] = "quit" => outcome'[a] = "ok" /\ accepted'[a] = 1
          BY <2>1, <2>2, <3>3 DEF EmailTypes, TakenLate
        <4> QED
          BY <2>2, <3>3, <4>1 DEF Delivered
      <3> QED
        BY <2>1, <3>2, <3>3
    <2> QED
      BY <2>4, <2>5, <2>6, <2>7
  <1>4. CASE UNCHANGED emailVars
    BY <1>4 DEF emailVars, givenVars, EmailTypes, TakenLate, Dialled, Delivered
  <1> QED
    BY <1>1, <1>2, <1>3, <1>4 DEF EmailNext

(* A completed row has had its message taken, and a permanent answer leaves no
   copy behind, whatever was repeated, timed out or died (Send, runWithTimeout) *)
THEOREM AnswersMatch == EmailSpec => []AnswersMatchDelivery
  <1>1. EmailInit => EmailInv
    BY EmailAssumption, NamedSteps
       DEF EmailInit, EmailInv, EmailTypes, TakenLate, Dialled, Delivered, EmailAttempts
  <1>2. EmailInv => AnswersMatchDelivery
    BY DEF EmailInv, EmailTypes, AnswersMatchDelivery, TakenLate, Delivered
  <1> QED
    BY <1>1, EmailKeeps, <1>2, PTL DEF EmailSpec

(* Type correctness of the e-mail attempts: an attempt ends with its answer,
   and the server takes at most one copy from it, since the data is closed
   once *)
THEOREM EmailTypeCorrect == EmailSpec => []EmailTypeOK
  <1> USE NamedSteps DEF EmailAttempts
  <1>1. EmailInit => EmailInv /\ EmailTypeOK
    <2>1. EmailInit => EmailInv
      BY EmailAssumption DEF EmailInit, EmailInv, EmailTypes, TakenLate, Dialled, Delivered
    <2>2. EmailInit => {valid, dryRun, completed} \subseteq BOOLEAN
      BY DEF EmailInit
    <2> QED
      BY <2>1, <2>2 DEF EmailInit, EmailTypeOK
  <1>2. EmailInv /\ EmailTypeOK /\ [EmailNext]_emailVars => EmailTypeOK'
    <2> SUFFICES ASSUME EmailInv, EmailTypeOK, [EmailNext]_emailVars
                 PROVE  EmailTypeOK'
      OBVIOUS
    <2>1. ASSUME NEW a \in EmailAttempts, Starts(a)
          PROVE  EmailTypeOK'
      BY <2>1 DEF Starts, givenVars, EmailTypeOK
    <2>2. ASSUME NEW a \in EmailAttempts, Abandon(a)
          PROVE  EmailTypeOK'
      BY <2>2 DEF Abandon, givenVars, EmailTypeOK
    <2>3. ASSUME NEW a \in EmailAttempts, Succeeds(a) \/ Fails(a) \/ Refuses(a) \/ DryRuns(a) \/ SenderDies(a)
          PROVE  EmailTypeOK'
      <3>1. PICK step \in Steps \union {"dead"}, o \in {"none", "ok", "permanent", "transient"} :
              /\ smtp' = [smtp EXCEPT ![a] = step] /\ outcome' = [outcome EXCEPT ![a] = o]
              /\ o # "none" <=> step = "done"
        BY <2>3, DialogueStep
      <3>2. accepted' = accepted \/ (smtp[a] = "close" /\ accepted' = [accepted EXCEPT ![a] = @ + 1])
        BY <2>3 DEF Succeeds, Fails, Refuses, DryRuns, SenderDies, MaybeTaken
      <3>3. smtp[a] = "close" => accepted[a] = 0
        BY DEF EmailInv, TakenLate, EmailTypeOK
      <3>4. accepted' \in [EmailAttempts -> 0..1]
        BY <3>2, <3>3 DEF EmailTypeOK
      <3>5. UNCHANGED <<valid, dryRun, abandoned>>
        BY <2>3 DEF Succeeds, Fails, Refuses, DryRuns, SenderDies, givenVars
      <3>6. completed' \in BOOLEAN
        BY <2>3 DEF Succeeds, Fails, Refuses, DryRuns, Reports, SenderDies, EmailTypeOK
      <3> QED
        BY <3>1, <3>4, <3>5, <3>6 DEF EmailTypeOK
    <2>4. CASE UNCHANGED emailVars
      BY <2>4 DEF emailVars, givenVars, EmailTypeOK
    <2> QED
      BY <2>1, <2>2, <2>3, <2>4 DEF EmailNext
  <1> QED
    BY <1>1, <1>2, EmailKeeps, PTL DEF EmailSpec

-----------------------------------------------------------------------------
(***************************************************************************)
(* Files.  What an attempt renames is the whole of what it read, and what  *)
(* it read was whole; an attempt that has replaced its destination has no  *)
(* permanent answer left.                                                  *)
(***************************************************************************)

FileStages == {"idle", "get", "put", "write", "rename", "check", "done", "dead"}

FileTypes ==
  /\ file \in [WellFormed -> Contents \union {Nil}]
  /\ fileJob = [a \in Attempts |-> fileJob[a]]
  /\ fileAt \in [Attempts -> FileStages]
  /\ data \in [Attempts -> Contents \union {Nil}]
  /\ tmp \in [Attempts -> Contents \union {Nil, Torn}]
  /\ answer \in [Attempts -> {"none", "ok", "permanent", "transient"}]
  /\ stored \subseteq Attempts

(* Past the read an attempt holds a whole content; before the rename its
   temporary file is that content *)
CopiesWhole ==
  \A a \in Attempts :
    /\ fileAt[a] \in {"put", "write", "rename"} => data[a] \in Contents
    /\ fileAt[a] = "rename" => tmp[a] = data[a]

(* The answer is given once, and by then the destination is settled *)
AnswersSettle ==
  \A a \in Attempts :
    /\ fileAt[a] # "done" => answer[a] = "none"
    /\ fileAt[a] \in {"idle", "get", "put", "write", "rename"} => a \notin stored
    /\ fileAt[a] = "check" => a \in stored

FileInv == FileTypes /\ CopiesWhole /\ AnswersSettle /\ AnswersAreTrue

(* Nothing of another attempt changes but what is stored under its destination *)
LEMMA FileKeeps ==
  ASSUME FileInv, [FileNext]_fileVars
  PROVE  FileInv'
  <1> USE FileAssumption DEF FileInv
  <1>1. CASE Dies
    BY <1>1 DEF Dies, FileTypes, FileStages, CopiesWhole, AnswersSettle, AnswersAreTrue
  <1>2. ASSUME NEW a \in Attempts, NEW j, Parse(a, j)
        PROVE  FileInv'
    <2>1. FileTypes'
      BY <1>2 DEF Parse, FileGoes, FileAnswers, FileTypes, FileStages
    <2>2. CopiesWhole' /\ AnswersSettle'
      BY <1>2 DEF Parse, FileGoes, FileAnswers, FileTypes, CopiesWhole, AnswersSettle
    <2>3. AnswersAreTrue'
      BY <1>2 DEF Parse, FileGoes, FileAnswers, FileTypes, AnswersSettle, AnswersAreTrue
    <2> QED
      BY <2>1, <2>2, <2>3
  <1>3. ASSUME NEW a \in Attempts, ContextEnds(a)
        PROVE  FileInv'
    BY <1>3 DEF ContextEnds, FileTypes, CopiesWhole, AnswersSettle, AnswersAreTrue
  <1>4. ASSUME NEW a \in Attempts, Reads(a)
        PROVE  FileInv'
    <2>1. file[fileJob[a].src] \in Contents
      BY <1>4 DEF Reads, FileTypes
    <2>2. FileTypes' /\ CopiesWhole'
      BY <1>4, <2>1 DEF Reads, FileGoes, FileAnswers, FileTypes, FileStages, CopiesWhole
    <2>3. AnswersSettle' /\ AnswersAreTrue'
      BY <1>4 DEF Reads, FileGoes, FileAnswers, FileTypes, AnswersSettle, AnswersAreTrue
    <2> QED
      BY <2>2, <2>3
  <1>5. ASSUME NEW a \in Attempts, GetFails(a) \/ PutRefuses(a)
        PROVE  FileInv'
    <2>1. PICK o \in {"permanent", "transient"} : FileAnswers(a, o)
      BY <1>5 DEF GetFails, PutRefuses
    <2>2. UNCHANGED <<file, fileJob, data, tmp, stored>> /\ fileAt[a] \in {"get", "put"}
      BY <1>5 DEF GetFails, PutRefuses
    <2> QED
      BY <2>1, <2>2 DEF FileAnswers, FileGoes, FileTypes, FileStages, CopiesWhole, AnswersSettle, AnswersAreTrue
  <1>6. ASSUME NEW a \in Attempts, CreateTemp(a) \/ Write(a)
        PROVE  FileInv'
    <2>1. FileTypes'
      BY <1>6 DEF CreateTemp, Write, FileGoes, FileTypes, FileStages
    <2>2. CopiesWhole'
      BY <1>6 DEF CreateTemp, Write, FileGoes, FileTypes, CopiesWhole
    <2>3. AnswersSettle' /\ AnswersAreTrue'
      BY <1>6 DEF CreateTemp, Write, FileGoes, FileTypes, AnswersSettle, AnswersAreTrue
    <2> QED
      BY <2>1, <2>2, <2>3
  <1>7. ASSUME NEW a \in Attempts, Rename(a)
        PROVE  FileInv'
    <2>1. tmp[a] \in Contents
      BY <1>7 DEF Rename, CopiesWhole
    <2>2. FileTypes'
      BY <1>7, <2>1 DEF Rename, FileGoes, FileTypes, FileStages
    <2>3. CopiesWhole' /\ AnswersSettle' /\ AnswersAreTrue'
      BY <1>7 DEF Rename, FileGoes, FileTypes, CopiesWhole, AnswersSettle, AnswersAreTrue
    <2> QED
      BY <2>2, <2>3
  <1>8. ASSUME NEW a \in Attempts, Checks(a)
        PROVE  FileInv'
    BY <1>8 DEF Checks, FileGoes, FileAnswers, FileTypes, FileStages, CopiesWhole, AnswersSettle, AnswersAreTrue
  <1>9. ASSUME NEW a \in Attempts, PutFails(a)
        PROVE  FileInv'
    <2>1. FileTypes' /\ CopiesWhole'
      BY <1>9 DEF PutFails, FileGoes, FileAnswers, FileTypes, FileStages, CopiesWhole
    <2>2. AnswersSettle' /\ AnswersAreTrue'
      BY <1>9 DEF PutFails, FileGoes, FileAnswers, FileTypes, AnswersSettle, AnswersAreTrue
    <2> QED
      BY <2>1, <2>2
  <1>10. ASSUME NEW a \in Attempts, PutObject(a)
         PROVE  FileInv'
    <2>1. PICK o \in {"ok", "permanent", "transient"} :
            /\ FileAnswers(a, o)
            /\ \/ /\ o # "permanent" /\ stored' = stored \union {a}
                  /\ file' = [file EXCEPT ![fileJob[a].dst] = data[a]]
               \/ o # "ok" /\ UNCHANGED <<file, stored>>
      BY <1>10 DEF PutObject
    <2>2. UNCHANGED <<fileJob, data, tmp>> /\ fileAt[a] = "put" /\ data[a] \in Contents
      BY <1>10 DEF PutObject, CopiesWhole
    <2>3. FileTypes'
      BY <2>1, <2>2 DEF FileAnswers, FileGoes, FileTypes, FileStages
    <2>4. CopiesWhole' /\ AnswersSettle' /\ AnswersAreTrue'
      BY <2>1, <2>2 DEF FileAnswers, FileGoes, FileTypes, CopiesWhole, AnswersSettle, AnswersAreTrue
    <2> QED
      BY <2>3, <2>4
  <1>11. CASE UNCHANGED fileVars
    BY <1>11 DEF fileVars, FileTypes, CopiesWhole, AnswersSettle, AnswersAreTrue
  <1> QED
    BY <1>1, <1>2, <1>3, <1>4, <1>5, <1>6, <1>7, <1>8, <1>9, <1>10, <1>11 DEF FileNext

(* The invariant holds before the first attempt *)
LEMMA FilesStart == FileInit => FileInv
  BY FileAssumption DEF FileInit, FileInv, FileTypes, FileStages, CopiesWhole, AnswersSettle, AnswersAreTrue

(* No destination ever holds a part of a file (LocalFSStorage.Put) *)
THEOREM FilesStayWhole == FileSpec => []FilesAreWhole
  <1>1. FileInv => FilesAreWhole
    BY FileAssumption DEF FileInv, FileTypes, FilesAreWhole
  <1> QED
    BY FilesStart, FileKeeps, <1>1, PTL DEF FileSpec

(* An answer says what became of the destination (Process, Put) *)
THEOREM AnswersStayTrue == FileSpec => []AnswersAreTrue
  <1>1. FileInv => AnswersAreTrue
    BY DEF FileInv
  <1> QED
    BY FilesStart, FileKeeps, <1>1, PTL DEF FileSpec

(* Type correctness of the file attempts: none holds more than the cap, and
   an attempt ends with its answer *)
THEOREM FileTypeCorrect == FileSpec => []FileTypeOK
  <1> USE FileAssumption
  <1>1. FileInit => FileTypeOK
    BY DEF FileInit, FileTypeOK, Refs, WellFormed
  <1>2. FileInv /\ FileTypeOK /\ [FileNext]_fileVars => FileTypeOK'
    <2> SUFFICES ASSUME FileInv, FileTypeOK, [FileNext]_fileVars
                 PROVE  FileTypeOK'
      OBVIOUS
    <2>1. CASE Dies
      BY <2>1 DEF Dies, Fault, FileTypeOK
    <2>2. ASSUME NEW a \in Attempts, NEW s \in Refs, NEW d \in Refs, NEW op \in {"copy", "sha256"},
                 Parse(a, [src |-> s, dst |-> d, op |-> op])
          PROVE  FileTypeOK'
      <3>1. [src |-> s, dst |-> d, op |-> op] \in [src : Refs, dst : Refs, op : {"copy", "sha256"}]
        OBVIOUS
      <3>2. fileJob' \in [Attempts -> [src : Refs, dst : Refs, op : {"copy", "sha256"}]]
        BY <2>2, <3>1 DEF Parse, FileTypeOK
      <3>3. CASE FileAnswers(a, "permanent")
        BY <2>2, <3>2, <3>3 DEF Parse, FileGoes, FileAnswers, FileTypeOK
      <3>4. CASE FileGoes(a, "get") /\ UNCHANGED answer
        BY <2>2, <3>2, <3>4 DEF Parse, FileGoes, FileTypeOK
      <3> QED
        BY <2>2, <3>3, <3>4 DEF Parse
    <2>3. ASSUME NEW a \in Attempts, ContextEnds(a) \/ Checks(a)
          PROVE  FileTypeOK'
      <3>1. CASE ContextEnds(a)
        BY <3>1 DEF ContextEnds, FileTypeOK
      <3>2. CASE Checks(a)
        <4>1. PICK o \in {"ok", "transient"} : FileAnswers(a, o)
          BY <3>2 DEF Checks
        <4> QED
          BY <3>2, <4>1 DEF Checks, FileGoes, FileAnswers, FileTypeOK
      <3> QED
        BY <2>3, <3>1, <3>2
    <2>4. ASSUME NEW a \in Attempts, Reads(a)
          PROVE  FileTypeOK'
      <3>1. file[fileJob[a].src] \in Contents \ Big
        BY <2>4 DEF Reads, FileInv, FileTypes
      <3> QED
        BY <2>4, <3>1 DEF Reads, FileGoes, FileAnswers, FileTypeOK
    <2>5. ASSUME NEW a \in Attempts, GetFails(a) \/ PutRefuses(a)
          PROVE  FileTypeOK'
      <3>1. PICK o \in {"permanent", "transient"} : FileAnswers(a, o)
        BY <2>5 DEF GetFails, PutRefuses
      <3>2. UNCHANGED <<file, fileJob, data, tmp, ended, stored>> /\ faults' \in 0..MaxFaults
        BY <2>5 DEF GetFails, PutRefuses, Fault, FileTypeOK
      <3> QED
        BY <3>1, <3>2 DEF FileAnswers, FileGoes, FileTypeOK
    <2>6. ASSUME NEW a \in Attempts, CreateTemp(a) \/ Write(a)
          PROVE  FileTypeOK'
      <3>1. CASE CreateTemp(a)
        BY <3>1 DEF CreateTemp, FileGoes, FileTypeOK
      <3>2. CASE Write(a)
        <4>1. data[a] \in Contents
          BY <3>2 DEF Write, FileInv, CopiesWhole
        <4> QED
          BY <3>2, <4>1 DEF Write, FileGoes, FileTypeOK
      <3> QED
        BY <2>6, <3>1, <3>2
    <2>7. ASSUME NEW a \in Attempts, Rename(a)
          PROVE  FileTypeOK'
      BY <2>7 DEF Rename, FileGoes, FileTypeOK
    <2>8. ASSUME NEW a \in Attempts, PutFails(a)
          PROVE  FileTypeOK'
      BY <2>8 DEF PutFails, FileGoes, FileAnswers, Fault, FileTypeOK
    <2>9. ASSUME NEW a \in Attempts, PutObject(a)
          PROVE  FileTypeOK'
      <3>1. PICK o \in {"ok", "permanent", "transient"} : FileAnswers(a, o)
        BY <2>9 DEF PutObject
      <3>2. file' \in [WellFormed -> Contents \union {Nil, Torn}] /\ stored' \in SUBSET Attempts
        BY <2>9 DEF PutObject, FileTypeOK
      <3>3. UNCHANGED <<fileJob, data, tmp, ended>> /\ faults' \in 0..MaxFaults
        BY <2>9 DEF PutObject, Fault, FileTypeOK
      <3> QED
        BY <3>1, <3>2, <3>3 DEF FileAnswers, FileGoes, FileTypeOK
    <2>10. CASE UNCHANGED fileVars
      BY <2>10 DEF fileVars, FileTypeOK
    <2> QED
      BY <2>1, <2>2, <2>3, <2>4, <2>5, <2>6, <2>7, <2>8, <2>9, <2>10 DEF FileNext
  <1> QED
    BY <1>1, <1>2, FilesStart, FileKeeps, PTL DEF FileSpec

=============================================================================
