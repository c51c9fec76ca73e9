---------------------------- MODULE AccessProofs ----------------------------
(***************************************************************************)
(* How clients get at the API, for any number of callers, people, keys and *)
(* tabs: the rate limiter in front of it, the accounts, tokens and keys it *)
(* identifies them by, and the dashboard's sessions.                       *)
(***************************************************************************)
EXTENDS RateLimit, Credentials, Dashboard, TLAPS

-----------------------------------------------------------------------------
(***************************************************************************)
(* The buckets bound a caller from both sides, for any number of callers   *)
(* and requests and however long a request waits for the lock.  A request  *)
(* whose clock lies behind takes tokens out and sets the bucket's clock    *)
(* back, so the next one earns the same time again: what is kept is the    *)
(* sum of both, which is the inductive invariant.                          *)
(***************************************************************************)

(* What is in a bucket and what it has still to earn *)
Balance(c) == tokens[c] + (clock - last[c])

ClocksPassed == \A r \in Reqs : req[r].now <= clock

(* A bucket holds no more than it was given; and what it holds and has granted
   since it was last full is just what it has earned on top of a full one *)
Balanced ==
  \A c \in buckets :
    /\ last[c] <= clock
    /\ Balance(c) >= 0
    /\ spent[c] + tokens[c] <= Capacity + (last[c] - born[c])
    /\ tokens[c] + since[c] = Capacity + (last[c] - full[c])

LimitInv == LimitTypeOK /\ ClocksPassed /\ Balanced

-----------------------------------------------------------------------------
(* A refill is an integer and no more than a full bucket (the cap in Allow) *)
LEMMA RefilledType ==
  ASSUME LimitTypeOK, NEW c \in Callers, NEW now \in 0..MaxTime
  PROVE  Refilled(c, now) \in Int /\ Refilled(c, now) <= Capacity
  BY LimitAssumption DEF LimitTypeOK, Refilled

(* Dropping the map never brings a bucket into it but the caller's own *)
LEMMA WithCaller ==
  ASSUME NEW c, NEW d \in With(c)
  PROVE  d = c \/ d \in buckets
  BY DEF With

LEMMA InitInv == LimitInit => LimitInv
  BY LimitAssumption DEF LimitInit, LimitInv, LimitTypeOK, ClocksPassed, Balanced

(* Allow keeps a balanced bucket balanced and makes a new one so *)
LEMMA AllowBalances ==
  ASSUME LimitInv, NEW r \in Reqs, Allow(r)
  PROVE  LimitInv'
  <1> DEFINE c == req[r].key
             now == req[r].now
             t == Refilled(c, now)
  <1>1. c \in Callers /\ now \in 0..MaxTime /\ now <= clock
    BY DEF LimitInv, LimitTypeOK, ClocksPassed
  <1>2. t \in Int /\ t <= Capacity
    BY <1>1, RefilledType DEF LimitInv
  <1>3. Earned(c) \in Nat
    BY <1>1 DEF LimitInv, LimitTypeOK, Earned
  <1>4. LimitTypeOK'
    <2>1. buckets' \subseteq Callers
      BY <1>1, WithCaller DEF Allow, LimitInv, LimitTypeOK
    <2>2. tokens' \in [Callers -> Int] /\ \A d \in Callers : tokens'[d] <= Capacity
      BY <1>1, <1>2, LimitAssumption DEF Allow, LimitInv, LimitTypeOK
    <2>3. {last', born', full'} \subseteq [Callers -> 0..MaxTime]
      BY <1>1 DEF Allow, LimitInv, LimitTypeOK
    <2>4. spent' \in [Callers -> Nat] /\ since' \in [Callers -> Nat]
      BY <1>1, <1>3, LimitAssumption DEF Allow, LimitInv, LimitTypeOK
    <2>5. /\ req' \in [Reqs -> [at : {"idle", "locking", "allowed", "refused"}, key : Callers, now : 0..MaxTime]]
          /\ clock' \in 0..MaxTime
      BY DEF Allow, LimitInv, LimitTypeOK
    <2> QED
      BY <2>1, <2>2, <2>3, <2>4, <2>5 DEF LimitTypeOK
  <1>5. ClocksPassed'
    BY DEF Allow, LimitInv, LimitTypeOK, ClocksPassed
  <1>6. ASSUME NEW d \in buckets'
        PROVE  /\ last'[d] <= clock'
               /\ Balance(d)' >= 0
               /\ spent'[d] + tokens'[d] <= Capacity + (last'[d] - born'[d])
               /\ tokens'[d] + since'[d] = Capacity + (last'[d] - full'[d])
    <2>1. CASE d # c
      <3>1. d \in buckets /\ d \in Callers
        BY <2>1, <1>6, WithCaller DEF Allow, LimitInv, LimitTypeOK
      <3>2. /\ last'[d] = last[d] /\ tokens'[d] = tokens[d] /\ spent'[d] = spent[d]
            /\ born'[d] = born[d] /\ clock' = clock /\ full'[d] = full[d] /\ since'[d] = since[d]
        BY <2>1, <3>1 DEF Allow, LimitInv, LimitTypeOK
      <3> QED
        BY <3>1, <3>2 DEF LimitInv, Balanced, Balance
    <2>2. CASE d = c
      <3>1. /\ last'[c] = now /\ clock' = clock
            /\ tokens'[c] = IF t >= Cost THEN t - Cost ELSE t
            /\ spent'[c] = IF t >= Cost THEN Earned(c) + Cost ELSE Earned(c)
            /\ born'[c] = IF c \in buckets THEN born[c] ELSE now
            /\ full'[c] = IF t = Capacity THEN now ELSE full[c]
            /\ since'[c] = (IF t = Capacity THEN 0 ELSE since[c]) + (IF t >= Cost THEN Cost ELSE 0)
            /\ since[c] \in Nat /\ full[c] \in Nat
        BY <1>1 DEF Allow, LimitInv, LimitTypeOK
      <3>2. /\ tokens'[c] + spent'[c] = t + Earned(c)
            /\ t >= Cost => tokens'[c] >= 0
            /\ t < Cost => tokens'[c] = t
        BY <3>1, <1>2, <1>3, LimitAssumption
      <3>3. CASE c \in buckets
        <4>1. /\ tokens[c] \in Int /\ last[c] \in Int /\ born[c] \in Int /\ spent[c] \in Nat
              /\ last[c] <= clock /\ tokens[c] + (clock - last[c]) >= 0
              /\ spent[c] + tokens[c] <= Capacity + (last[c] - born[c])
              /\ tokens[c] + since[c] = Capacity + (last[c] - full[c])
          BY <3>3, <1>1 DEF LimitInv, LimitTypeOK, Balanced, Balance
        <4>2. /\ Earned(c) = spent[c]
              /\ t <= tokens[c] + (now - last[c])
              /\ t = tokens[c] + (now - last[c]) \/ t = Capacity
          BY <3>3, <4>1, <1>1, LimitAssumption DEF Refilled, Earned
        <4>3. clock \in Int /\ now \in Int /\ Capacity \in Nat /\ Cost \in Nat
          BY <1>1, LimitAssumption DEF LimitInv, LimitTypeOK
        <4>4. tokens'[c] \in Int /\ spent'[c] \in Int
          BY <3>1, <1>2, <1>3, <4>3
        <4> QED
          BY <2>2, <3>1, <3>2, <3>3, <4>1, <4>2, <4>3, <4>4, <1>1, <1>2 DEF Balance
      <3>4. CASE c \notin buckets
        <4>1. Earned(c) = 0 /\ t = Capacity
          BY <3>4 DEF Earned, Refilled
        <4>2. clock \in Int /\ now \in Int /\ Capacity \in Nat /\ Cost \in Nat /\ Cost <= Capacity
          BY <1>1, LimitAssumption DEF LimitInv, LimitTypeOK
        <4> QED
          BY <2>2, <3>1, <3>2, <3>4, <4>1, <4>2, <1>1 DEF Balance
      <3> QED
        BY <3>3, <3>4
    <2> QED
      BY <2>1, <2>2
  <1>7. Balanced'
    BY <1>6 DEF Balanced
  <1> QED
    BY <1>4, <1>5, <1>7 DEF LimitInv

LEMMA StepInv == LimitInv /\ [LimitNext]_limitVars => LimitInv'
  <1> SUFFICES ASSUME LimitInv, [LimitNext]_limitVars PROVE LimitInv'
    OBVIOUS
  <1>1. CASE Tick
    <2>1. LimitTypeOK'
      BY <1>1, LimitAssumption DEF Tick, LimitInv, LimitTypeOK
    <2>2. ClocksPassed'
      BY <1>1 DEF Tick, LimitInv, LimitTypeOK, ClocksPassed
    <2>3. Balanced'
      BY <1>1, LimitAssumption DEF Tick, LimitInv, LimitTypeOK, Balanced, Balance
    <2> QED
      BY <2>1, <2>2, <2>3 DEF LimitInv
  <1>2. ASSUME NEW r \in Reqs, NEW c \in Callers, Arrive(r, c) PROVE LimitInv'
    BY <1>2 DEF Arrive, LimitInv, LimitTypeOK, ClocksPassed, Balanced, Balance
  <1>3. ASSUME NEW r \in Reqs, Allow(r) PROVE LimitInv'
    BY <1>3, AllowBalances
  <1>4. CASE UNCHANGED limitVars
    BY <1>4 DEF limitVars, LimitInv, LimitTypeOK, ClocksPassed, Balanced, Balance
  <1> QED
    BY <1>1, <1>2, <1>3, <1>4 DEF LimitNext

(* The invariant of the limiter *)
THEOREM LimitInvariant == LimitSpec => []LimitInv
  <1> QED
    BY InitInv, StepInv, PTL DEF LimitSpec

(* Buckets and requests keep their types, tokens never exceed the burst *)
THEOREM LimitTypeCorrect == LimitSpec => []LimitTypeOK
  <1>1. LimitInv => LimitTypeOK
    BY DEF LimitInv
  <1> QED
    BY <1>1, LimitInvariant, PTL

(* A caller never gets more than its burst and what time has earned *)
THEOREM RateBounded == LimitSpec => []RateIsBounded
  <1>1. LimitInv => RateIsBounded
    <2> SUFFICES ASSUME LimitInv, NEW c \in buckets
                 PROVE  spent[c] <= Capacity + (clock - born[c])
      BY DEF RateIsBounded
    <2> QED
      BY LimitAssumption DEF LimitInv, LimitTypeOK, Balanced, Balance
  <1> QED
    BY <1>1, LimitInvariant, PTL

(* Who is refused has spent, since its bucket was last full, a burst and what
   time has earned since (Allow, for requests in any order at the lock) *)
THEOREM RefusalsEarned == LimitSpec => RefusalIsEarned
  <1> DEFINE Refusal == \A r \in Reqs : LET c == req[r].key IN
                          req[r].at = "locking" /\ req'[r].at = "refused" =>
                            since'[c] + Cost > Capacity + (req[r].now - full'[c])
  <1>1. LimitInv /\ [LimitNext]_limitVars => [Refusal]_limitVars
    <2> SUFFICES ASSUME LimitInv, LimitNext, NEW r \in Reqs,
                        req[r].at = "locking", req'[r].at = "refused"
                 PROVE  since'[req[r].key] + Cost > Capacity + (req[r].now - full'[req[r].key])
      OBVIOUS
    <2>1. Allow(r)
      BY DEF LimitNext, Tick, Arrive, Allow, LimitInv, LimitTypeOK
    <2> DEFINE c == req[r].key
               now == req[r].now
               t == Refilled(c, now)
    <2>2. c \in Callers /\ now \in 0..MaxTime /\ t \in Int
      BY RefilledType DEF LimitInv, LimitTypeOK
    <2>3. t < Cost /\ t # Capacity /\ since'[c] = since[c] /\ full'[c] = full[c]
      BY <2>1, <2>2, LimitAssumption DEF Allow, LimitInv, LimitTypeOK
    <2>4. c \in buckets /\ t = tokens[c] + (now - last[c])
      BY <2>2, <2>3, LimitAssumption DEF Refilled, LimitInv, LimitTypeOK
    <2>5. tokens[c] + since[c] = Capacity + (last[c] - full[c])
      BY <2>4 DEF LimitInv, Balanced
    <2> QED
      BY <2>2, <2>3, <2>4, <2>5, LimitAssumption DEF LimitInv, LimitTypeOK
  <1> QED
    BY <1>1, LimitInvariant, PTL DEF RefusalIsEarned, LimitSpec

-----------------------------------------------------------------------------
(***************************************************************************)
(* Accounts.  What speaks for an account was given out for a row of the    *)
(* primary: a token for the account whose password was shown, a key by a   *)
(* request that already acted for the account.  No standby has a row that  *)
(* the primary does not have.                                              *)
(***************************************************************************)

CredentialRows ==
  {UserRow(p, e) : p \in People, e \in Emails} \union {KeyRow(e, k) : e \in Emails, k \in ApiKeys}
    \union {Revocation(k) : k \in ApiKeys}

HasAccount(p, e) == UserRow(p, e) \in Primary

CredentialTypes ==
  /\ log \in Seq(CredentialRows) /\ applied \in [Standbys -> 0..Len(log)]
  /\ token \in [People -> Emails \union {Nobody}]
  /\ shown \in [People -> SUBSET ApiKeys]
  /\ inUse \in [People -> ApiKeys \union {NoKey}]
  /\ request \in [People -> [as : Emails \union {Nobody}, op : {"none", "create", "revoke"}, key : ApiKeys \union {NoKey}]]
  /\ registered \subseteq People \X Emails

(* An address has one account *)
OneAccount == \A p, q \in People : \A e \in Emails : HasAccount(p, e) /\ HasAccount(q, e) => p = q

(* Whoever was told that an account is created has it *)
ToldOwn == \A p \in People : \A e \in Emails : <<p, e>> \in registered => HasAccount(p, e)

(* Tokens and requests act for their own account *)
ActForOwn ==
  \A p \in People : /\ token[p] # Nobody => HasAccount(p, token[p])
                    /\ request[p].as # Nobody => HasAccount(p, request[p].as)
                    /\ request[p].op = "create" => request[p].as # Nobody

(* A key that was shown to somebody is a key of an account of theirs *)
KeysOfOwn ==
  \A p \in People :
    /\ inUse[p] \in shown[p] \union {NoKey}
    /\ \A k \in shown[p] : Given(k) /\ \A e \in Emails : KeyRow(e, k) \in Primary => HasAccount(p, e)

CredentialInv == CredentialTypes /\ OneAccount /\ ToldOwn /\ ActForOwn /\ KeysOfOwn

(* A commit adds one row to the primary *)
LEMMA CommitAdds ==
  ASSUME log \in Seq(CredentialRows), NEW row \in CredentialRows, Commits(row)
  PROVE  /\ log' \in Seq(CredentialRows) /\ Len(log') = Len(log) + 1
         /\ Primary' = Primary \union {row}
  <1>1. /\ log' \in Seq(CredentialRows) /\ Len(log') = Len(log) + 1 /\ Len(log) \in Nat
        /\ \A i \in 1..Len(log) : log'[i] = log[i]
        /\ log'[Len(log) + 1] = row
    BY DEF Commits
  <1>2. 1..(Len(log) + 1) = (1..Len(log)) \union {Len(log) + 1}
    BY <1>1
  <1>3. {log'[i] : i \in 1..(Len(log) + 1)} = {log[i] : i \in 1..Len(log)} \union {row}
    BY <1>1, <1>2
  <1> QED
    BY <1>1, <1>3 DEF Primary, CommitsUpTo

(* The three kinds of rows are told apart by their fields *)
LEMMA RowsDiffer ==
  /\ \A p, q \in People : \A e, f \in Emails : UserRow(p, e) = UserRow(q, f) <=> p = q /\ e = f
  /\ \A e, f \in Emails : \A k, j \in ApiKeys : KeyRow(e, k) = KeyRow(f, j) <=> e = f /\ k = j
  /\ \A p \in People : \A e, f \in Emails : \A j \in ApiKeys : UserRow(p, e) # KeyRow(f, j)
  /\ \A p \in People : \A e \in Emails : \A j \in ApiKeys : UserRow(p, e) # Revocation(j)
  /\ \A e \in Emails : \A k, j \in ApiKeys : KeyRow(e, k) # Revocation(j)
  BY DEF UserRow, KeyRow, Revocation

(* A standby has rows of the primary only *)
LEMMA ReplicaLags == CredentialTypes => \A s \in Standbys : Replica(s) \subseteq Primary
  BY DEF CredentialTypes, Replica, Primary, CommitsUpTo

(* The account a key speaks for is the one in its row *)
LEMMA KeySpeaks ==
  ASSUME CredentialTypes, NEW s \in Standbys, NEW k, NEW e \in KeyOwners(s, k)
  PROVE  k \in ApiKeys /\ e \in Emails /\ KeyRow(e, k) \in Primary
  <1>1. PICK r \in Replica(s) : r.row = "key" /\ r.key = k /\ e = r.email
    BY DEF KeyOwners
  <1>2. r \in Primary /\ r \in CredentialRows
    BY <1>1, ReplicaLags DEF CredentialTypes, Primary, CommitsUpTo
  <1>3. PICK f \in Emails, j \in ApiKeys : r = KeyRow(f, j)
    BY <1>1, <1>2 DEF CredentialRows, UserRow, KeyRow, Revocation
  <1>4. f = e /\ j = k
    BY <1>1, <1>3 DEF KeyRow
  <1> QED
    BY <1>2, <1>3, <1>4

(* The invariant holds before the first registration *)
LEMMA CredentialsStart == CredentialInit => CredentialInv
  BY CredentialAssumption DEF CredentialInit, CredentialInv, CredentialTypes, NoRequest, NoKey, OneAccount, ToldOwn,
     ActForOwn, KeysOfOwn, HasAccount, Primary, CommitsUpTo

(* Without a commit the primary stays what it is *)
LEMMA SamePrimary ==
  ASSUME UNCHANGED log
  PROVE  /\ Primary' = Primary
         /\ \A p, e : HasAccount(p, e)' <=> HasAccount(p, e)
         /\ \A k : Given(k)' <=> Given(k)
  BY DEF Primary, CommitsUpTo, HasAccount, Given

(* ON CONFLICT lets in the first of an address only *)
LEMMA RegisterKeeps ==
  ASSUME CredentialInv, NEW p \in People, NEW e \in Emails, Register(p, e)
  PROVE  CredentialInv'
  <1> USE DEF CredentialInv, Register
  <1>1. UserRow(p, e) \in CredentialRows
    BY DEF CredentialRows
  <1>2. log' \in Seq(CredentialRows) /\ Len(log') = Len(log) + 1 /\ Primary' = Primary \union {UserRow(p, e)}
    BY <1>1, CommitAdds DEF CredentialTypes
  <1>3. \A q \in People : ~HasAccount(q, e)
    BY DEF Taken, HasAccount, UserRow
  <1>4. \A q \in People : \A f \in Emails : HasAccount(q, f)' <=> HasAccount(q, f) \/ (q = p /\ f = e)
    BY <1>2, RowsDiffer DEF HasAccount
  <1>5. \A f \in Emails, k \in ApiKeys : KeyRow(f, k) \in Primary' <=> KeyRow(f, k) \in Primary
    BY <1>2, RowsDiffer
  <1>6. CredentialTypes'
    BY <1>2 DEF CredentialTypes
  <1>7. OneAccount'
    BY <1>3, <1>4 DEF OneAccount
  <1>8. ToldOwn'
    BY <1>4 DEF ToldOwn
  <1>9. ActForOwn'
    BY <1>4 DEF ActForOwn, CredentialTypes
  <1>10. KeysOfOwn'
    BY <1>4, <1>5 DEF KeysOfOwn, CredentialTypes, Given
  <1> QED
    BY <1>6, <1>7, <1>8, <1>9, <1>10

(* A new key is nobody's yet, and carries the account that asked for it *)
LEMMA CreateKeyKeeps ==
  ASSUME CredentialInv, NEW p \in People, NEW k \in ApiKeys, CreateKey(p, k)
  PROVE  CredentialInv'
  <1> DEFINE as == request[p].as
  <1> USE CredentialAssumption DEF CredentialInv, CreateKey
  <1>1. as \in Emails /\ HasAccount(p, as)
    BY DEF CredentialTypes, ActForOwn
  <1>2. KeyRow(as, k) \in CredentialRows
    BY <1>1 DEF CredentialRows
  <1>3. log' \in Seq(CredentialRows) /\ Len(log') = Len(log) + 1 /\ Primary' = Primary \union {KeyRow(as, k)}
    BY <1>2, CommitAdds DEF CredentialTypes
  <1>4. \A q \in People : \A f \in Emails : HasAccount(q, f)' <=> HasAccount(q, f)
    BY <1>1, <1>3, RowsDiffer DEF HasAccount
  <1>5. \A f \in Emails, j \in ApiKeys :
          KeyRow(f, j) \in Primary' <=> KeyRow(f, j) \in Primary \/ (f = as /\ j = k)
    BY <1>1, <1>3, RowsDiffer
  <1>6. \A q \in People : k \notin shown[q]
    BY DEF KeysOfOwn
  <1>7. shown' = shown \/ shown' = [shown EXCEPT ![p] = @ \union {k}]
    OBVIOUS
  <1>8. request' = [request EXCEPT ![p] = NoRequest] /\ NoRequest.as = Nobody /\ NoRequest.op = "none"
    BY DEF NoRequest
  <1>9. CredentialTypes'
    <2>1. shown' \in [People -> SUBSET ApiKeys]
      BY <1>7 DEF CredentialTypes
    <2>2. NoRequest \in [as : Emails \union {Nobody}, op : {"none", "create", "revoke"}, key : ApiKeys \union {NoKey}]
      BY DEF NoRequest
    <2>3. applied' \in [Standbys -> 0..Len(log')]
      BY <1>3 DEF CredentialTypes
    <2>4. request' \in [People -> [as : Emails \union {Nobody}, op : {"none", "create", "revoke"}, key : ApiKeys \union {NoKey}]]
      BY <1>8, <2>2 DEF CredentialTypes
    <2> QED
      BY <1>3, <2>1, <2>3, <2>4 DEF CredentialTypes
  <1>10. OneAccount' /\ ToldOwn'
    BY <1>4 DEF OneAccount, ToldOwn
  <1>11. ActForOwn'
    BY <1>4, <1>8 DEF ActForOwn, CredentialTypes
  <1>12. KeysOfOwn'
    <2> SUFFICES ASSUME NEW q \in People
                 PROVE  /\ inUse[q] \in shown'[q] \union {NoKey}
                        /\ \A j \in shown'[q] :
                             Given(j)' /\ \A f \in Emails : KeyRow(f, j) \in Primary' => HasAccount(q, f)'
      BY DEF KeysOfOwn
    <2>1. shown[q] \subseteq shown'[q] /\ shown'[q] \subseteq shown[q] \union {k} /\ (k \in shown'[q] => q = p)
      BY <1>6, <1>7 DEF CredentialTypes
    <2>2. inUse[q] \in shown'[q] \union {NoKey}
      BY <2>1 DEF KeysOfOwn
    <2>3. ASSUME NEW j \in shown'[q]
          PROVE  Given(j)' /\ \A f \in Emails : KeyRow(f, j) \in Primary' => HasAccount(q, f)'
      <3>1. CASE j = k
        <4>1. q = p
          BY <2>1, <2>3, <3>1
        <4>2. Given(k)'
          BY <1>1, <1>3 DEF Given
        <4>3. \A f \in Emails : KeyRow(f, k) \notin Primary
          BY DEF Given
        <4>4. \A f \in Emails : KeyRow(f, k) \in Primary' => f = as
          BY <1>5, <4>3
        <4> QED
          BY <1>1, <1>4, <3>1, <4>1, <4>2, <4>4
      <3>2. CASE j # k
        <4>1. j \in shown[q] /\ j \in ApiKeys
          BY <2>1, <2>3, <3>2 DEF CredentialTypes
        <4>2. Given(j) /\ \A f \in Emails : KeyRow(f, j) \in Primary => HasAccount(q, f)
          BY <4>1 DEF KeysOfOwn
        <4>3. Given(j)'
          BY <4>2, <1>3 DEF Given
        <4> QED
          BY <1>4, <1>5, <3>2, <4>1, <4>2, <4>3
      <3> QED
        BY <3>1, <3>2
    <2> QED
      BY <2>2, <2>3
  <1> QED
    BY <1>9, <1>10, <1>11, <1>12

(* A revocation adds a row that no account and no key depends on *)
LEMMA RevokeKeyKeeps ==
  ASSUME CredentialInv, NEW p \in People, RevokeKey(p)
  PROVE  CredentialInv'
  <1> DEFINE k == request[p].key
  <1> USE DEF CredentialInv, RevokeKey
  <1>1. request' = [request EXCEPT ![p] = NoRequest] /\ NoRequest.as = Nobody /\ NoRequest.op = "none"
        /\ NoRequest \in [as : Emails \union {Nobody}, op : {"none", "create", "revoke"}, key : ApiKeys \union {NoKey}]
    BY DEF NoRequest
  <1>2. CASE UNCHANGED log
    <2>1. CredentialTypes'
      BY <1>1, <1>2 DEF CredentialTypes
    <2>2. OneAccount' /\ ToldOwn'
      BY <1>2, SamePrimary DEF OneAccount, ToldOwn
    <2>3. ActForOwn' /\ KeysOfOwn'
      BY <1>1, <1>2, SamePrimary DEF ActForOwn, KeysOfOwn, CredentialTypes
    <2> QED
      BY <2>1, <2>2, <2>3
  <1>3. CASE Revokes(request[p].as, k) /\ Commits(Revocation(k))
    <2>1. k \in ApiKeys
      <3>1. KeyRow(request[p].as, k) \in CredentialRows
        BY <1>3 DEF Revokes, CredentialTypes, Primary, CommitsUpTo
      <3>2. PICK f \in Emails, j \in ApiKeys : KeyRow(request[p].as, k) = KeyRow(f, j)
        <4> DEFINE r == KeyRow(request[p].as, k)
        <4>1. r.row = "key" /\ r \in CredentialRows
          BY <3>1 DEF KeyRow
        <4> HIDE DEF r
        <4>2. \E f \in Emails, j \in ApiKeys : r = KeyRow(f, j)
          BY <4>1 DEF CredentialRows, UserRow, KeyRow, Revocation
        <4> QED
          BY <4>2 DEF r
      <3>3. KeyRow(request[p].as, k).key = k /\ KeyRow(f, j).key = j
        BY DEF KeyRow
      <3> QED
        BY <3>2, <3>3
    <2>2. Revocation(k) \in CredentialRows
      BY <2>1 DEF CredentialRows
    <2>3. log' \in Seq(CredentialRows) /\ Len(log') = Len(log) + 1 /\ Primary' = Primary \union {Revocation(k)}
      BY <1>3, <2>2, CommitAdds DEF CredentialTypes
    <2>4. \A q \in People : \A f \in Emails : HasAccount(q, f)' <=> HasAccount(q, f)
      BY <2>1, <2>3, RowsDiffer DEF HasAccount
    <2>5. \A f \in Emails, j \in ApiKeys : KeyRow(f, j) \in Primary' <=> KeyRow(f, j) \in Primary
      BY <2>1, <2>3, RowsDiffer
    <2>6. CredentialTypes'
      BY <1>1, <2>3 DEF CredentialTypes
    <2>7. OneAccount' /\ ToldOwn'
      BY <2>4 DEF OneAccount, ToldOwn
    <2>8. ActForOwn' /\ KeysOfOwn'
      BY <1>1, <2>4, <2>5 DEF ActForOwn, KeysOfOwn, CredentialTypes, Given
    <2> QED
      BY <2>6, <2>7, <2>8
  <1> QED
    BY <1>2, <1>3

(* RequireAuth attaches an account the request may act for *)
LEMMA IdentifiedKeeps ==
  ASSUME CredentialInv, NEW p \in People, NEW op \in {"create", "revoke"}, NEW k \in ApiKeys \union {NoKey},
         Identified(p, op, k)
  PROVE  CredentialInv'
  <1> USE CredentialAssumption DEF CredentialInv, Identified
  <1>1. PICK e \in Emails : HasAccount(p, e) /\ request' = [request EXCEPT ![p] = [as |-> e, op |-> op, key |-> k]]
    <2>1. CASE token[p] # Nobody /\ request' = [request EXCEPT ![p] = [as |-> token[p], op |-> op, key |-> k]]
      BY <2>1 DEF CredentialTypes, ActForOwn
    <2>2. ASSUME NEW s \in Standbys, NEW e \in KeyOwners(s, inUse[p]),
                 request' = [request EXCEPT ![p] = [as |-> e, op |-> op, key |-> k]]
          PROVE  e \in Emails /\ HasAccount(p, e)
      BY <2>2, KeySpeaks DEF KeysOfOwn, NoKey, ApiKeys
    <2> QED
      BY <2>1, <2>2
  <1>2. CredentialTypes'
    BY <1>1 DEF CredentialTypes
  <1>3. OneAccount' /\ ToldOwn' /\ KeysOfOwn'
    BY SamePrimary DEF OneAccount, ToldOwn, KeysOfOwn
  <1>4. ActForOwn'
    BY <1>1, SamePrimary DEF ActForOwn, CredentialTypes
  <1> QED
    BY <1>2, <1>3, <1>4

(* A login shows the password of the account; the other steps add nothing *)
LEMMA OtherCredentials ==
  ASSUME CredentialInv,
         \/ UNCHANGED credentialVars \/ \E s \in Standbys : Replicate(s)
         \/ \E p \in People : TokenExpires(p) \/ \E e \in Emails : Login(p, e)
         \/ \E p \in People, k \in ApiKeys : Rotate(p, k)
  PROVE  CredentialInv'
  <1> USE CredentialAssumption DEF CredentialInv
  <1>1. UNCHANGED <<log, request, registered, shown>>
    BY DEF credentialVars, Replicate, TokenExpires, Login, Rotate
  <1>2. OneAccount' /\ ToldOwn'
    BY <1>1, SamePrimary DEF OneAccount, ToldOwn
  <1>3. CASE UNCHANGED <<token, inUse>> /\ applied' \in [Standbys -> 0..Len(log)]
    BY <1>1, <1>2, <1>3, SamePrimary DEF CredentialTypes, ActForOwn, KeysOfOwn
  <1>4. ASSUME NEW p \in People, TokenExpires(p) \/ \E e \in Emails : Login(p, e)
        PROVE  CredentialInv'
    <2>1. PICK e \in Emails \union {Nobody} : token' = [token EXCEPT ![p] = e] /\ (e = Nobody \/ HasAccount(p, e))
      BY <1>4, ReplicaLags DEF TokenExpires, Login, Accepts, HasAccount
    <2>2. UNCHANGED <<applied, inUse>>
      BY <1>4 DEF TokenExpires, Login
    <2>3. CredentialTypes' /\ KeysOfOwn'
      BY <1>1, <2>1, <2>2, SamePrimary DEF CredentialTypes, KeysOfOwn
    <2>4. ActForOwn'
      BY <1>1, <2>1, SamePrimary DEF ActForOwn, CredentialTypes
    <2> QED
      BY <1>2, <2>3, <2>4
  <1>5. ASSUME NEW p \in People, NEW k \in ApiKeys, Rotate(p, k)
        PROVE  CredentialInv'
    <2>1. CredentialTypes' /\ KeysOfOwn' /\ ActForOwn'
      BY <1>1, <1>5, SamePrimary DEF Rotate, CredentialTypes, KeysOfOwn, ActForOwn
    <2> QED
      BY <1>2, <2>1
  <1>6. (\E s \in Standbys : Replicate(s)) \/ UNCHANGED credentialVars =>
          UNCHANGED <<token, inUse>> /\ applied' \in [Standbys -> 0..Len(log)]
    BY DEF Replicate, credentialVars, CredentialTypes
  <1> QED
    BY <1>3, <1>4, <1>5, <1>6

LEMMA CredentialInvariant == CredentialSpec => []CredentialInv
  <1>1. CredentialInv /\ [CredentialNext]_credentialVars => CredentialInv'
    BY RegisterKeeps, CreateKeyKeeps, RevokeKeyKeeps, IdentifiedKeeps, OtherCredentials
       DEF CredentialNext, AsksForKey, AsksToRevoke
  <1> QED
    BY CredentialsStart, <1>1, PTL DEF CredentialSpec

(* Nobody else's request ever acts for an account (CreateUser,
   GetUserByEmail, LookupActive) *)
THEOREM AccountsStayOwn == CredentialSpec => []AccountsAreOwn
  <1>1. CredentialInv => AccountsAreOwn
    BY CredentialAssumption DEF CredentialInv, AccountsAreOwn, ToldOwn, OneAccount, ActForOwn, HasAccount, CredentialTypes
  <1> QED
    BY CredentialInvariant, <1>1, PTL

-----------------------------------------------------------------------------
(***************************************************************************)
(* Rotation.  A standby's state of now and every state it has yet to go    *)
(* through accepts some key of a service that it ever let in: the primary  *)
(* accepts the key in use, which nobody revokes, and with each commit each *)
(* standby has one more state to come, the primary of now.                 *)
(***************************************************************************)

(* The states of a standby, in a history of commits *)
RowsUpTo(commits, n) == {commits[i] : i \in 1..n}
Accepted(commits, n, keys) == \E k \in keys : Active(RowsUpTo(commits, n), k)

(* The key in use is not revoked, and its service does not ask for it *)
KeyInUse ==
  \A p \in People : /\ inUse[p] # NoKey => Revocation(inUse[p]) \notin Primary
                    /\ request[p].op = "revoke" => request[p].key # inUse[p]

AcceptedFromNowOn ==
  \A p \in People, s \in Standbys : <<p, s>> \in worked =>
    inUse[p] # NoKey /\ \A n \in applied[s]..Len(log) : Accepted(log, n, shown[p])

RotationInv == worked \subseteq People \X Standbys /\ lost \in 0..MaxLost /\ KeyInUse /\ AcceptedFromNowOn

(* The key in use is a key of its service, and has a row *)
LEMMA InUseIsGiven ==
  ASSUME CredentialInv, NEW p \in People, inUse[p] # NoKey
  PROVE  inUse[p] \in ApiKeys /\ inUse[p] \in shown[p] /\ Given(inUse[p])
  BY DEF CredentialInv, KeysOfOwn, CredentialTypes

(* What a commit leaves of the states to come *)
LEMMA CommitComes ==
  ASSUME log \in Seq(CredentialRows), NEW row \in CredentialRows, Commits(row)
  PROVE  /\ \A n \in 0..Len(log) : RowsUpTo(log', n) = RowsUpTo(log, n)
         /\ RowsUpTo(log', Len(log')) = Primary \union {row}
  <1>1. /\ Len(log') = Len(log) + 1 /\ Len(log) \in Nat
        /\ \A i \in 1..Len(log) : log'[i] = log[i]
    BY DEF Commits
  <1>2. ASSUME NEW n \in 0..Len(log) PROVE RowsUpTo(log', n) = RowsUpTo(log, n)
    <2>1. \A i \in 1..n : log'[i] = log[i]
      BY <1>1, <1>2
    <2> QED
      BY <2>1 DEF RowsUpTo
  <1>3. Primary' = Primary \union {row}
    BY CommitAdds
  <1> QED
    BY <1>2, <1>3 DEF RowsUpTo, Primary, CommitsUpTo

(* A commit that revokes no key in use *)
LEMMA CommitsKeepAccess ==
  ASSUME CredentialInv, RotationInv, NEW row \in CredentialRows, Commits(row),
         UNCHANGED <<applied, inUse, worked>>, \A p \in People : shown[p] \subseteq shown'[p],
         \A p \in People : row # Revocation(inUse[p]) \/ inUse[p] = NoKey
  PROVE  /\ AcceptedFromNowOn'
         /\ \A p \in People : inUse[p] # NoKey => Revocation(inUse[p]) \notin Primary'
  <1> USE DEF RotationInv
  <1>1. log \in Seq(CredentialRows) /\ Len(log) \in Nat /\ \A s \in Standbys : applied[s] \in 0..Len(log)
    BY DEF CredentialInv, CredentialTypes
  <1>2. /\ Len(log') = Len(log) + 1 /\ Primary' = Primary \union {row}
        /\ \A n \in 0..Len(log) : RowsUpTo(log', n) = RowsUpTo(log, n)
        /\ RowsUpTo(log', Len(log')) = Primary \union {row}
    BY <1>1, CommitAdds, CommitComes
  <1>3. \A p \in People : inUse[p] # NoKey => Revocation(inUse[p]) \notin Primary'
    BY <1>2 DEF KeyInUse
  <1>4. ASSUME NEW p \in People, NEW s \in Standbys, <<p, s>> \in worked, NEW n \in applied[s]..Len(log')
        PROVE  Accepted(log', n, shown'[p])
    <2>1. CASE n \in applied[s]..Len(log)
      <3>1. Accepted(log, n, shown[p]) /\ RowsUpTo(log', n) = RowsUpTo(log, n) /\ shown[p] \subseteq shown'[p]
        BY <1>1, <1>2, <1>4, <2>1 DEF AcceptedFromNowOn
      <3> QED
        BY <3>1 DEF Accepted
    <2>2. CASE n = Len(log')
      <3>1. inUse[p] # NoKey
        BY <1>4 DEF AcceptedFromNowOn
      <3>2. inUse[p] \in shown'[p] /\ Given(inUse[p])
        BY <1>4, <3>1, InUseIsGiven
      <3>3. PICK e \in Emails : KeyRow(e, inUse[p]) \in Primary \union {row}
        BY <3>2 DEF Given
      <3>4. Revocation(inUse[p]) \notin Primary \union {row}
        BY <1>2, <1>3, <1>4, <3>1
      <3>5. KeyRow(e, inUse[p]).row = "key" /\ KeyRow(e, inUse[p]).key = inUse[p]
        BY DEF KeyRow
      <3>6. Active(RowsUpTo(log', n), inUse[p])
        BY <1>2, <2>2, <3>3, <3>4, <3>5 DEF Active
      <3> QED
        BY <3>2, <3>6 DEF Accepted
    <2> QED
      BY <1>1, <1>2, <1>4, <2>1, <2>2
  <1> QED
    BY <1>3, <1>4 DEF AcceptedFromNowOn

LEMMA RegisterLetsIn ==
  ASSUME CredentialInv, RotationInv, NEW p \in People, NEW e \in Emails, Register(p, e)
  PROVE  RotationInv'
  <1>1. UserRow(p, e) \in CredentialRows
    BY DEF CredentialRows
  <1>2. \A k : UserRow(p, e) # Revocation(k)
    BY DEF UserRow, Revocation
  <1>3. Commits(UserRow(p, e)) /\ UNCHANGED <<applied, shown, inUse, request, worked>> /\ lost' \in 0..MaxLost
    BY CredentialAssumption DEF Register, RotationInv
  <1> QED
    BY <1>1, <1>2, <1>3, CommitsKeepAccess DEF RotationInv, KeyInUse

LEMMA CreateKeyLetsIn ==
  ASSUME CredentialInv, RotationInv, NEW p \in People, NEW k \in ApiKeys, CreateKey(p, k)
  PROVE  RotationInv'
  <1> DEFINE as == request[p].as
  <1>1. as \in Emails
    BY DEF CreateKey, CredentialInv, CredentialTypes, ActForOwn
  <1>2. KeyRow(as, k) \in CredentialRows
    BY <1>1 DEF CredentialRows
  <1>3. \A j : KeyRow(as, k) # Revocation(j)
    BY DEF KeyRow, Revocation
  <1>4. /\ Commits(KeyRow(as, k)) /\ UNCHANGED <<applied, inUse, worked>> /\ lost' \in 0..MaxLost
        /\ request' = [request EXCEPT ![p] = NoRequest]
    BY CredentialAssumption DEF CreateKey, RotationInv
  <1>5. \A q \in People : shown[q] \subseteq shown'[q]
    BY DEF CreateKey, CredentialInv, CredentialTypes
  <1>6. /\ AcceptedFromNowOn'
        /\ \A q \in People : inUse[q] # NoKey => Revocation(inUse[q]) \notin Primary'
    BY <1>2, <1>3, <1>4, <1>5, CommitsKeepAccess
  <1>7. KeyInUse'
    BY <1>4, <1>6 DEF KeyInUse, RotationInv, NoRequest, CredentialInv, CredentialTypes
  <1> QED
    BY <1>4, <1>6, <1>7 DEF RotationInv

(* A service's own request spares the key in use; another's cannot name it, *)
(* for its account is not the key's (Revokes)                               *)
LEMMA RevokeKeyLetsIn ==
  ASSUME CredentialInv, RotationInv, NEW p \in People, RevokeKey(p)
  PROVE  RotationInv'
  <1> DEFINE k == request[p].key
             as == request[p].as
  <1> USE DEF CredentialInv, RotationInv
  <1>1. /\ request' = [request EXCEPT ![p] = NoRequest] /\ NoRequest.op = "none"
        /\ UNCHANGED <<applied, shown, inUse, worked, lost>>
    BY DEF RevokeKey, NoRequest
  <1>2. CASE UNCHANGED log
    BY <1>1, <1>2, SamePrimary DEF KeyInUse, AcceptedFromNowOn, CredentialTypes
  <1>3. CASE Revokes(as, k) /\ Commits(Revocation(k))
    <2>1. as \in Emails /\ k \in ApiKeys
      <3> DEFINE r == KeyRow(as, k)
      <3>1. r.row = "key" /\ r.email = as /\ r.key = k /\ r \in CredentialRows
        BY <1>3 DEF KeyRow, Revokes, CredentialTypes, Primary, CommitsUpTo
      <3> HIDE DEF r
      <3>2. PICK f \in Emails, j \in ApiKeys : r = KeyRow(f, j)
        BY <3>1 DEF CredentialRows, UserRow, KeyRow, Revocation
      <3> QED
        BY <3>1, <3>2 DEF KeyRow
    <2>2. KeyRow(as, k) \in Primary /\ HasAccount(p, as)
      BY <1>3, <2>1, CredentialAssumption DEF Revokes, ActForOwn
    <2>3. ASSUME NEW q \in People, inUse[q] # NoKey PROVE k # inUse[q]
      <3>1. CASE q = p
        BY <3>1 DEF KeyInUse, RevokeKey
      <3>2. CASE q # p
        <4>1. SUFFICES ASSUME k \in shown[q] PROVE FALSE
          BY <2>3, InUseIsGiven
        <4>2. HasAccount(q, as)
          BY <2>1, <2>2, <4>1 DEF KeysOfOwn
        <4> QED
          BY <2>1, <2>2, <3>2, <4>2 DEF OneAccount
      <3> QED
        BY <3>1, <3>2
    <2>4. Revocation(k) \in CredentialRows
      BY <2>1 DEF CredentialRows
    <2>5. \A q \in People : Revocation(k) # Revocation(inUse[q]) \/ inUse[q] = NoKey
      <3>1. \A j : Revocation(k) = Revocation(j) => k = j
        BY DEF Revocation
      <3> QED
        BY <2>3, <3>1
    <2>6. /\ AcceptedFromNowOn'
          /\ \A q \in People : inUse[q] # NoKey => Revocation(inUse[q]) \notin Primary'
      BY <1>1, <1>3, <2>4, <2>5, CommitsKeepAccess
    <2>7. KeyInUse'
      BY <1>1, <2>6 DEF KeyInUse, CredentialTypes
    <2> QED
      BY <1>1, <2>6, <2>7
  <1> QED
    BY <1>2, <1>3 DEF RevokeKey

(* An accepted key stays accepted: the standby will not lose its row, and   *)
(* the primary has not revoked it                                           *)
LEMMA IdentifiedLetsIn ==
  ASSUME CredentialInv, RotationInv, NEW p \in People, NEW op \in {"create", "revoke"},
         NEW k \in ApiKeys \union {NoKey}, op = "revoke" => k # inUse[p], Identified(p, op, k)
  PROVE  RotationInv'
  <1> USE DEF CredentialInv, RotationInv
  <1>1. /\ UNCHANGED <<log, applied, shown, inUse, lost>>
        /\ \E e : request' = [request EXCEPT ![p] = [as |-> e, op |-> op, key |-> k]]
    BY DEF Identified
  <1>2. KeyInUse'
    <2>1. PICK e : request' = [request EXCEPT ![p] = [as |-> e, op |-> op, key |-> k]]
      BY <1>1
    <2>2. /\ request'[p].op = op /\ request'[p].key = k
          /\ \A q \in People \ {p} : request'[q] = request[q]
      BY <2>1 DEF CredentialTypes
    <2> QED
      BY <1>1, <2>2, SamePrimary DEF KeyInUse
  <1>3. CASE UNCHANGED worked
    BY <1>1, <1>2, <1>3 DEF AcceptedFromNowOn
  <1>4. ASSUME NEW s \in Standbys, NEW e \in KeyOwners(s, inUse[p]), worked' = worked \union {<<p, s>>}
        PROVE  RotationInv'
    <2> DEFINE u == inUse[p]
    <2>1. u \in ApiKeys /\ u # NoKey
      BY <1>4, KeySpeaks DEF ApiKeys, NoKey
    <2>2. u \in shown[p] /\ Revocation(u) \notin Primary
      BY <2>1 DEF KeysOfOwn, KeyInUse
    <2>3. PICK r \in Replica(s) : r.row = "key" /\ r.key = u
      BY <1>4 DEF KeyOwners
    <2>4. ASSUME NEW n \in applied[s]..Len(log) PROVE Active(RowsUpTo(log, n), u)
      <3>1. 1..applied[s] \subseteq 1..n /\ 1..n \subseteq 1..Len(log)
        BY <2>4 DEF CredentialTypes
      <3>2. r \in RowsUpTo(log, n) /\ Revocation(u) \notin RowsUpTo(log, n)
        BY <2>2, <3>1 DEF RowsUpTo, Replica, Primary, CommitsUpTo
      <3> QED
        BY <2>3, <3>2 DEF Active
    <2>5. \A n \in applied[s]..Len(log) : Accepted(log, n, shown[p])
      BY <2>2, <2>4 DEF Accepted
    <2> HIDE DEF u
    <2>6. AcceptedFromNowOn'
      BY <1>1, <1>4, <2>1, <2>5 DEF AcceptedFromNowOn, u
    <2> QED
      BY <1>1, <1>2, <1>4, <2>6
  <1> QED
    BY <1>3, <1>4 DEF Identified

(* Another key of the service is in use, which is not revoked either; a     *)
(* standby moves on to a state it had to come                               *)
LEMMA OthersLetIn ==
  ASSUME CredentialInv, RotationInv,
         \/ UNCHANGED credentialVars \/ \E s \in Standbys : Replicate(s)
         \/ \E p \in People : TokenExpires(p) \/ \E e \in Emails : Login(p, e)
         \/ \E p \in People, k \in ApiKeys : Rotate(p, k)
  PROVE  RotationInv'
  <1> USE DEF CredentialInv, RotationInv
  <1>1. UNCHANGED <<log, request, shown, worked, lost>>
    BY DEF credentialVars, Replicate, TokenExpires, Login, Rotate
  <1>2. CASE UNCHANGED <<applied, inUse>>
    BY <1>1, <1>2, SamePrimary DEF KeyInUse, AcceptedFromNowOn
  <1>3. ASSUME NEW s \in Standbys, Replicate(s) PROVE RotationInv'
    <2>1. inUse' = inUse /\ applied' = [applied EXCEPT ![s] = @ + 1]
      BY <1>3 DEF Replicate
    <2>2. \A t \in Standbys : applied'[t]..Len(log) \subseteq applied[t]..Len(log)
      BY <2>1 DEF CredentialTypes
    <2> QED
      BY <1>1, <2>1, <2>2, SamePrimary DEF KeyInUse, AcceptedFromNowOn
  <1>4. ASSUME NEW p \in People, NEW k \in ApiKeys, Rotate(p, k) PROVE RotationInv'
    <2>1. /\ inUse'[p] = k /\ \A q \in People \ {p} : inUse'[q] = inUse[q]
          /\ Revocation(k) \notin Primary /\ request[p].op # "revoke" /\ k # NoKey /\ applied' = applied
      BY <1>4 DEF Rotate, NoRequest, CredentialTypes, ApiKeys, NoKey
    <2>2. KeyInUse'
      BY <1>1, <2>1, SamePrimary DEF KeyInUse
    <2>3. AcceptedFromNowOn'
      BY <1>1, <2>1 DEF AcceptedFromNowOn
    <2> QED
      BY <1>1, <2>2, <2>3
  <1> QED
    BY <1>2, <1>3, <1>4 DEF credentialVars, TokenExpires, Login

LEMMA RotationInvariant == CredentialSpec => []RotationInv
  <1>1. CredentialInit => RotationInv
    BY CredentialAssumption DEF CredentialInit, RotationInv, KeyInUse, AcceptedFromNowOn, NoRequest
  <1>2. CredentialInv /\ RotationInv /\ [CredentialNext]_credentialVars => RotationInv'
    <2> SUFFICES ASSUME CredentialInv, RotationInv, [CredentialNext]_credentialVars PROVE RotationInv'
      OBVIOUS
    <2>1. ASSUME NEW p \in People, AsksForKey(p) PROVE RotationInv'
      BY <2>1, IdentifiedLetsIn DEF AsksForKey
    <2>2. ASSUME NEW p \in People, NEW k \in ApiKeys, AsksToRevoke(p, k) PROVE RotationInv'
      BY <2>2, IdentifiedLetsIn DEF AsksToRevoke
    <2> QED
      BY <2>1, <2>2, RegisterLetsIn, CreateKeyLetsIn, RevokeKeyLetsIn, OthersLetIn DEF CredentialNext
  <1> QED
    BY <1>1, <1>2, CredentialInvariant, PTL DEF CredentialSpec

(* Type correctness of accounts, tokens, keys and requests                  *)
THEOREM CredentialTypeCorrect == CredentialSpec => []CredentialTypeOK
  <1>1. CredentialInv /\ RotationInv => CredentialTypeOK
    BY DEF CredentialInv, RotationInv, CredentialTypes, CredentialRows, CredentialTypeOK
  <1> QED
    BY <1>1, CredentialInvariant, RotationInvariant, PTL

(* A service that takes its new key before it revokes the old one is never  *)
(* without a key at a standby that has accepted one of its requests,        *)
(* however far that standby lags (RequireAuth, NewAPIKeysHandler)           *)
THEOREM RotationsKeepAccess == CredentialSpec => []RotationKeepsAccess
  <1>1. CredentialInv /\ RotationInv => RotationKeepsAccess
    <2> SUFFICES ASSUME CredentialInv, RotationInv, NEW p \in People, NEW s \in Standbys, <<p, s>> \in worked
                 PROVE  \E k \in shown[p] : Active(Replica(s), k)
      BY DEF RotationKeepsAccess
    <2>1. applied[s] \in applied[s]..Len(log)
      BY DEF CredentialInv, CredentialTypes
    <2>2. Accepted(log, applied[s], shown[p])
      BY <2>1 DEF RotationInv, AcceptedFromNowOn
    <2>3. RowsUpTo(log, applied[s]) = Replica(s)
      BY DEF RowsUpTo, Replica, CommitsUpTo
    <2> QED
      BY <2>2, <2>3 DEF Accepted
  <1> QED
    BY <1>1, CredentialInvariant, RotationInvariant, PTL

-----------------------------------------------------------------------------
(***************************************************************************)
(* Redirects.  For a tab that waits for a page the redirects it has still  *)
(* to go are counted, as far as its cookie and the jar tell: one change of *)
(* the session makes them one more at most, and a redirect that is         *)
(* followed one fewer.  A click has three to go at most.                   *)
(***************************************************************************)

(* Where redirects lead *)
Targets == {"/", "/login", "/jobs/id"}

(* A request with a cookie, when the browser holds a cookie now *)
AskedToGo(path, cookie, held, dead) ==
  IF path = "/login" THEN IF cookie = NoCookie THEN 0 ELSE IF held = NoCookie THEN 3 ELSE 2
  ELSE IF cookie = NoCookie THEN IF held = NoCookie THEN 2 ELSE 3
  ELSE IF cookie \in dead THEN 1 ELSE 0

(* An answer on its way that redirects *)
AnsweredToGo(to, cookie, held, dead) ==
  IF cookie = NoCookie THEN 1
  ELSE IF cookie # Keep THEN IF cookie \in dead THEN 2 ELSE 1
  ELSE IF (to = "/login") <=> (held = NoCookie) THEN 2 ELSE 3

(* The answers that redirect: to the form with or without its cookie, or to *)
(* a page, a new session to the front page                                  *)
Proper(answer) ==
  \/ answer.to = Here /\ answer.jar = Keep
  \/ answer.to \in Targets /\ answer.jar = Keep
  \/ answer.to = "/login" /\ answer.jar = NoCookie
  \/ answer.to = "/" /\ answer.jar \in 1..opened

Asked(t) ==
  IF tab[t].path \in Targets THEN hops[t] + AskedToGo(tab[t].path, tab[t].cookie, jar, expired) <= 3 + changes[t]
  ELSE hops[t] = 0

Answered(t) ==
  /\ Proper(tab[t])
  /\ IF tab[t].to = Here THEN hops[t] <= 3 + changes[t]
     ELSE hops[t] + AnsweredToGo(tab[t].to, tab[t].jar, jar, expired) <= 3 + changes[t]

Counted(t) ==
  /\ tab[t].at = "page" => hops[t] = 0 /\ changes[t] = 0
  /\ tab[t].at = "asked" => Asked(t)
  /\ tab[t].at = "answered" => Answered(t)

HopsCounted == \A t \in Tabs : Counted(t)

DashInv == DashTypeOK /\ HopsCounted

LEMMA DashStart == DashInit => DashInv
  BY DashboardAssumption DEF DashInit, DashInv, DashTypeOK, HopsCounted, Counted, AtRest, Paths, Pages, Forms, Here, NoCookie, Keep

(* What the pages that redirects lead to answer, and what all of them do *)
LEMMA Answers ==
  ASSUME NEW path \in Paths, NEW cookie, NEW a \in MayAnswer(path, cookie)
  PROVE  /\ a \in {Shows, RedirectLogin, Answer("/", opened + 1), Redirects("/"), Redirects("/login"), Redirects("/jobs/id")}
         /\ path = "/login" => a = IF cookie = NoCookie THEN Shows ELSE Redirects("/")
         /\ path \in {"/", "/jobs/id"} =>
              IF cookie = NoCookie THEN a = Redirects("/login")
              ELSE a = Shows \/ (cookie \in expired /\ a = RedirectLogin)
  <1>1. CASE path = "/login"
    BY <1>1 DEF MayAnswer
  <1>2. CASE path \in {"/register", "/logout", "POST/login", "POST/register"}
    BY <1>2 DEF MayAnswer
  <1>3. CASE path \in {"/", "/jobs", "/jobs/new", "/jobs/id", "/partials", "POST/jobs", "POST/jobs/id"}
    <2>1. a \in BehindSession(path, cookie)
      BY <1>3 DEF MayAnswer
    <2>2. CASE cookie = NoCookie
      BY <1>3, <2>1, <2>2 DEF BehindSession
    <2>3. CASE cookie # NoCookie /\ path \in {"/jobs", "/jobs/new"}
      BY <2>1, <2>3 DEF BehindSession
    <2>4. CASE cookie # NoCookie /\ path \notin {"/jobs", "/jobs/new"}
      <3>1. a = OnError(path) \/ (cookie \in expired /\ a = OnRefusal(path)) \/ a \in OnSuccess(path)
        BY <1>3, <2>1, <2>4 DEF BehindSession
      <3>2. OnError(path) = IF path = "POST/jobs/id" THEN Redirects("/jobs/id") ELSE Shows
        BY DEF OnError
      <3>3. OnRefusal(path) = IF path = "/partials" THEN Redirects("/login") ELSE RedirectLogin
        BY DEF OnRefusal
      <3>4. /\ path \notin {"POST/jobs", "POST/jobs/id"} => OnSuccess(path) = {Shows}
            /\ path = "POST/jobs" => OnSuccess(path) = {Redirects("/jobs/id")}
            /\ path = "POST/jobs/id" => OnSuccess(path) = {Redirects("/jobs/id"), Redirects("/")}
        BY DEF OnSuccess
      <3> QED
        BY <1>3, <2>4, <3>1, <3>2, <3>3, <3>4
    <2> QED
      BY <2>2, <2>3, <2>4
  <1> QED
    BY <1>1, <1>2, <1>3 DEF Paths, Pages, Forms

(* A change of the session is worth one redirect at most *)
LEMMA ChangeCosts ==
  ASSUME DashTypeOK, NEW t \in Tabs, Counted(t), tab'[t] = tab[t], hops'[t] = hops[t], opened' = opened,
         expired \subseteq expired', changes[t] \in Nat,
         changes'[t] = IF tab[t].at # "page" THEN changes[t] + 1 ELSE changes[t]
  PROVE  Counted(t)'
  <1>1. hops[t] \in Nat
    BY DashboardAssumption DEF DashTypeOK
  <1>2. CASE tab[t].at = "page"
    BY <1>2 DEF Counted
  <1>3. CASE tab[t].at = "asked"
    <2>1. Asked(t)'
      BY <1>1, <1>3 DEF Counted, Asked, AskedToGo
    <2> QED
      BY <1>3, <2>1 DEF Counted
  <1>4. CASE tab[t].at = "answered"
    <2>1. Answered(t)'
      BY <1>1, <1>4 DEF Counted, Answered, AnsweredToGo, Proper
    <2> QED
      BY <1>4, <2>1 DEF Counted
  <1> QED
    BY <1>2, <1>3, <1>4 DEF Counted

(* Nothing a tab's count depends on has changed *)
LEMMA SameCount ==
  ASSUME DashTypeOK, NEW t \in Tabs, Counted(t), tab'[t] = tab[t], hops'[t] = hops[t], changes'[t] = changes[t],
         jar' = jar, expired' = expired, opened' \in {opened, opened + 1}
  PROVE  Counted(t)'
  BY DEF DashTypeOK, Counted, Asked, Answered, Proper

(* A click has three redirects to go at most *)
LEMMA ClicksCount ==
  ASSUME DashInv, NEW t \in Tabs, NEW path \in Paths, Clicks(t, path)
  PROVE  DashInv'
  <1> USE DEF DashInv, Clicks
  <1>1. Asking(path, jar) = [at |-> "asked", path |-> path, cookie |-> jar, to |-> Here, jar |-> Keep]
    BY DEF Asking
  <1>2. /\ tab'[t] = [at |-> "asked", path |-> path, cookie |-> jar, to |-> Here, jar |-> Keep]
        /\ \A u \in Tabs \ {t} : tab'[u] = tab[u]
    BY <1>1 DEF DashTypeOK
  <1>3. DashTypeOK'
    BY <1>1 DEF DashTypeOK
  <1>4. hops[t] = 0 /\ changes[t] = 0
    BY DEF HopsCounted, Counted
  <1>5. Counted(t)'
    BY <1>2, <1>4 DEF Counted, Asked, AskedToGo
  <1>6. \A u \in Tabs \ {t} : Counted(u)'
    BY <1>2, SameCount DEF HopsCounted
  <1> QED
    BY <1>3, <1>5, <1>6 DEF HopsCounted

(* The answers a page gives have no more to go than it had *)
LEMMA ServesCount ==
  ASSUME DashInv, NEW t \in Tabs, Serves(t)
  PROVE  DashInv'
  <1> USE DEF DashInv
  <1>1. PICK a \in MayAnswer(tab[t].path, tab[t].cookie) :
          /\ a.jar = opened + 1 => opened < MaxLogins
          /\ tab' = [tab EXCEPT ![t].at = "answered", ![t].to = a.to, ![t].jar = a.jar]
          /\ opened' = IF a.jar = opened + 1 THEN opened + 1 ELSE opened
    BY Zenon DEF Serves
  <1>2. /\ tab[t].at = "asked" /\ UNCHANGED <<jar, expired, hops, changes>>
        /\ tab[t].path \in Paths /\ tab[t].cookie \in 0..opened
        /\ opened \in Nat /\ opened <= MaxLogins /\ hops[t] \in Nat /\ changes[t] \in Nat
    BY DashboardAssumption DEF Serves, DashTypeOK
  <1>3. /\ a \in {Shows, RedirectLogin, Answer("/", opened + 1), Redirects("/"), Redirects("/login"), Redirects("/jobs/id")}
        /\ tab[t].path = "/login" => a = IF tab[t].cookie = NoCookie THEN Shows ELSE Redirects("/")
        /\ tab[t].path \in {"/", "/jobs/id"} =>
             IF tab[t].cookie = NoCookie THEN a = Redirects("/login")
             ELSE a = Shows \/ (tab[t].cookie \in expired /\ a = RedirectLogin)
    BY <1>1, <1>2, Answers
  <1>4. /\ a.jar \in {Keep, NoCookie, opened + 1} /\ a.to \in {Here, "/", "/login", "/jobs/id"}
        /\ a.jar = NoCookie => a.to = "/login"
        /\ a.jar = opened + 1 => a.to = "/" /\ opened' = opened + 1
        /\ a.jar # opened + 1 => opened' = opened
    BY <1>1, <1>2, <1>3, DashboardAssumption DEF Shows, RedirectLogin, Redirects, Answer, Keep, NoCookie, Here
  <1>5. /\ tab'[t].at = "answered" /\ tab'[t].path = tab[t].path /\ tab'[t].cookie = tab[t].cookie
        /\ tab'[t].to = a.to /\ tab'[t].jar = a.jar
        /\ \A u \in Tabs \ {t} : tab'[u] = tab[u]
    BY <1>1 DEF DashTypeOK
  <1>6. opened' \in {opened, opened + 1} /\ opened' \in 0..MaxLogins
    BY <1>1, <1>2, <1>4, DashboardAssumption
  <1>7. DashTypeOK'
    <2>1. opened' <= MaxLogins /\ opened' \in Nat /\ opened <= opened'
      BY <1>2, <1>6
    <2>2. /\ a.to \in Paths \union {Here}
          /\ a.jar \in 0..opened' \union {Keep}
      BY <1>2, <1>4, <1>6 DEF Paths, Pages, NoCookie
    <2>3. tab' \in [Tabs -> [at : {"page", "asked", "answered"}, path : Paths, cookie : 0..opened',
                             to : Paths \union {Here}, jar : 0..opened' \union {Keep}]]
      <3>1. tab \in [Tabs -> [at : {"page", "asked", "answered"}, path : Paths, cookie : 0..opened',
                              to : Paths \union {Here}, jar : 0..opened' \union {Keep}]]
        BY <1>2, <2>1 DEF DashTypeOK
      <3>2. tab[t] \in [at : {"page", "asked", "answered"}, path : Paths, cookie : 0..opened',
                        to : Paths \union {Here}, jar : 0..opened' \union {Keep}]
        BY <3>1
      <3>3. [tab[t] EXCEPT !.at = "answered", !.to = a.to, !.jar = a.jar]
              \in [at : {"page", "asked", "answered"}, path : Paths, cookie : 0..opened',
                   to : Paths \union {Here}, jar : 0..opened' \union {Keep}]
        BY <2>2, <3>2
      <3>4. tab' = [tab EXCEPT ![t] = [tab[t] EXCEPT !.at = "answered", !.to = a.to, !.jar = a.jar]]
        BY <1>1, <3>1
      <3> QED
        BY <3>1, <3>3, <3>4
    <2> QED
      BY <1>2, <2>1, <2>3 DEF DashTypeOK
  <1>8. Proper(tab[t])'
    BY <1>2, <1>4, <1>5 DEF Proper, Targets, Here
  <1>9. Counted(t)'
    <2>1. Asked(t)
      BY <1>2 DEF HopsCounted, Counted
    <2>2. CASE a.to = Here
      BY <1>2, <1>5, <1>8, <2>1, <2>2 DEF Asked, AskedToGo, Counted, Answered
    <2>3. CASE a.to # Here
      <3>1. hops[t] + AnsweredToGo(a.to, a.jar, jar, expired) <= 3 + changes[t]
        <4>1. CASE tab[t].path \notin Targets
          BY <1>2, <2>1, <4>1 DEF Asked, AnsweredToGo
        <4>2. CASE tab[t].path = "/login"
          <5>1. tab[t].cookie # NoCookie /\ a.to = "/" /\ a.jar = Keep
            BY <1>3, <2>3, <4>2 DEF Shows, Redirects, Answer
          <5>2. Keep # NoCookie
            BY DashboardAssumption DEF Keep, NoCookie
          <5> QED
            BY <1>2, <2>1, <4>2, <5>1, <5>2 DEF Asked, AskedToGo, AnsweredToGo, Targets
        <4>3. CASE tab[t].path \in {"/", "/jobs/id"} /\ tab[t].cookie = NoCookie
          <5>1. a.to = "/login" /\ a.jar = Keep
            BY <1>3, <4>3 DEF Redirects, Answer
          <5>2. Keep # NoCookie
            BY DashboardAssumption DEF Keep, NoCookie
          <5> QED
            BY <1>2, <2>1, <4>3, <5>1, <5>2 DEF Asked, AskedToGo, AnsweredToGo, Targets
        <4>4. CASE tab[t].path \in {"/", "/jobs/id"} /\ tab[t].cookie # NoCookie
          <5>1. tab[t].cookie \in expired /\ a.jar = NoCookie
            BY <1>3, <2>3, <4>4 DEF Shows, RedirectLogin, Answer
          <5> QED
            BY <1>2, <2>1, <4>4, <5>1 DEF Asked, AskedToGo, AnsweredToGo, Targets
        <4> QED
          BY <4>1, <4>2, <4>3, <4>4 DEF Targets
      <3> QED
        BY <1>2, <1>5, <1>8, <2>3, <3>1 DEF Counted, Answered
    <2> QED
      BY <2>2, <2>3
  <1>10. \A u \in Tabs \ {t} : Counted(u)'
    BY <1>2, <1>5, <1>6, SameCount DEF HopsCounted
  <1> QED
    BY <1>7, <1>9, <1>10 DEF HopsCounted

(* A redirect that is followed leaves one fewer to go *)
LEMMA ReceivesCount ==
  ASSUME DashInv, NEW t \in Tabs, Receives(t)
  PROVE  DashInv'
  <1> USE DEF DashInv
  <1> DEFINE held == IF tab[t].jar = Keep THEN jar ELSE tab[t].jar
             others == IF jar' = jar THEN changes ELSE Notice(Tabs \ {t})
  <1>1. /\ tab[t].at = "answered" /\ jar' = held /\ UNCHANGED <<opened, expired>>
        /\ opened \in Nat /\ hops[t] \in Nat /\ hops[t] <= MaxHops /\ changes[t] \in Nat
        /\ tab[t].to \in Paths \union {Here} /\ tab[t].jar \in 0..opened \union {Keep}
    BY DashboardAssumption DEF Receives, DashTypeOK
  <1>2. Answered(t)
    BY <1>1 DEF HopsCounted, Counted
  <1>3. held \in 0..opened
    BY <1>1 DEF DashTypeOK
  <1>4. /\ others \in [Tabs -> Nat] /\ others[t] = changes[t]
        /\ \A u \in Tabs \ {t} : others[u] = IF jar' # jar /\ tab[u].at # "page" THEN changes[u] + 1 ELSE changes[u]
    BY DEF Notice, DashTypeOK
  <1>5. \/ /\ tab[t].to = Here \/ hops[t] = MaxHops
           /\ tab' = [tab EXCEPT ![t] = AtRest]
           /\ hops' = [hops EXCEPT ![t] = 0] /\ changes' = [others EXCEPT ![t] = 0]
        \/ /\ ~(tab[t].to = Here \/ hops[t] = MaxHops)
           /\ tab' = [tab EXCEPT ![t] = Asking(tab[t].to, jar')]
           /\ hops' = [hops EXCEPT ![t] = hops[t] + 1] /\ changes' = others
    BY DEF Receives
  <1> HIDE DEF held, others
  <1>6. /\ \A u \in Tabs \ {t} : tab'[u] = tab[u] /\ hops'[u] = hops[u] /\ changes'[u] = others[u]
        /\ changes' \in [Tabs -> Nat]
    BY <1>4, <1>5 DEF DashTypeOK
  <1>7. \A u \in Tabs \ {t} : Counted(u)'
    <2> SUFFICES ASSUME NEW u \in Tabs \ {t} PROVE Counted(u)'
      OBVIOUS
    <2>1. Counted(u) /\ changes[u] \in Nat
      BY DEF HopsCounted, DashTypeOK
    <2>2. CASE jar' = jar
      BY <1>1, <1>4, <1>6, <2>1, <2>2, SameCount
    <2>3. CASE jar' # jar
      BY <1>1, <1>4, <1>6, <2>1, <2>3, ChangeCosts
    <2> QED
      BY <2>2, <2>3
  <1>8. CASE tab' = [tab EXCEPT ![t] = AtRest] /\ hops' = [hops EXCEPT ![t] = 0] /\ changes' = [others EXCEPT ![t] = 0]
    <2>1. AtRest \in [at : {"page", "asked", "answered"}, path : Paths, cookie : 0..opened,
                      to : Paths \union {Here}, jar : 0..opened \union {Keep}]
      BY <1>1 DEF AtRest, Paths, Pages, NoCookie
    <2>2. DashTypeOK'
      <3>1. tab' \in [Tabs -> [at : {"page", "asked", "answered"}, path : Paths, cookie : 0..opened,
                              to : Paths \union {Here}, jar : 0..opened \union {Keep}]]
        BY <1>8, <2>1 DEF DashTypeOK
      <3>2. hops' \in [Tabs -> 0..MaxHops]
        BY <1>1, <1>8, DashboardAssumption DEF DashTypeOK
      <3> QED
        BY <1>1, <1>3, <1>6, <3>1, <3>2 DEF DashTypeOK
    <2>3. tab'[t] = AtRest /\ hops'[t] = 0 /\ changes'[t] = 0
      BY <1>4, <1>8 DEF DashTypeOK
    <2>4. Counted(t)'
      BY <2>3 DEF Counted, AtRest
    <2> QED
      BY <1>7, <2>2, <2>4 DEF HopsCounted
  <1>9. CASE /\ ~(tab[t].to = Here \/ hops[t] = MaxHops)
             /\ tab' = [tab EXCEPT ![t] = Asking(tab[t].to, jar')]
             /\ hops' = [hops EXCEPT ![t] = hops[t] + 1] /\ changes' = others
    <2>1. Asking(tab[t].to, held) = [at |-> "asked", path |-> tab[t].to, cookie |-> held, to |-> Here, jar |-> Keep]
      BY DEF Asking
    <2>2. tab' = [tab EXCEPT ![t] = Asking(tab[t].to, held)]
      BY <1>1, <1>9
    <2>3. Asking(tab[t].to, held) \in [at : {"page", "asked", "answered"}, path : Paths, cookie : 0..opened,
                                       to : Paths \union {Here}, jar : 0..opened \union {Keep}]
      BY <1>1, <1>3, <1>9, <2>1
    <2>4. DashTypeOK'
      <3>1. tab' \in [Tabs -> [at : {"page", "asked", "answered"}, path : Paths, cookie : 0..opened,
                              to : Paths \union {Here}, jar : 0..opened \union {Keep}]]
        BY <2>2, <2>3 DEF DashTypeOK
      <3>2. hops' \in [Tabs -> 0..MaxHops]
        <4>1. hops[t] + 1 \in 0..MaxHops
          BY <1>1, <1>9, DashboardAssumption
        <4> QED
          BY <1>9, <4>1 DEF DashTypeOK
      <3> QED
        BY <1>1, <1>3, <1>6, <3>1, <3>2 DEF DashTypeOK
    <2>5. /\ tab'[t].at = "asked" /\ tab'[t].path = tab[t].to /\ tab'[t].cookie = held
          /\ hops'[t] = hops[t] + 1 /\ changes'[t] = changes[t]
      BY <1>4, <1>9, <2>1, <2>2 DEF DashTypeOK
    <2>6. tab[t].to \in Targets
      BY <1>2, <1>9 DEF Answered, Proper, Targets
    <2>7. 1 + AskedToGo(tab[t].to, held, held, expired) <= AnsweredToGo(tab[t].to, tab[t].jar, jar, expired)
      <3>1. Keep # NoCookie /\ Keep \notin 1..opened
        BY <1>1, DashboardAssumption DEF Keep, NoCookie, DashTypeOK
      <3>2. Proper(tab[t]) /\ tab[t].to # Here
        BY <1>2, <1>9 DEF Answered
      <3>3. CASE tab[t].jar = Keep
        BY <2>6, <3>1, <3>3 DEF held, AskedToGo, AnsweredToGo, Targets
      <3>4. CASE tab[t].jar = NoCookie /\ tab[t].to = "/login"
        BY <3>1, <3>4 DEF held, AskedToGo, AnsweredToGo
      <3>5. CASE tab[t].jar \in 1..opened /\ tab[t].to = "/"
        BY <1>1, <3>1, <3>5 DEF held, AskedToGo, AnsweredToGo, NoCookie
      <3> QED
        BY <3>2, <3>3, <3>4, <3>5 DEF Proper
    <2>8. /\ AskedToGo(tab[t].to, held, held, expired) \in Int
          /\ AnsweredToGo(tab[t].to, tab[t].jar, jar, expired) \in Int
      BY DEF AskedToGo, AnsweredToGo
    <2>9. hops[t] + 1 + AskedToGo(tab[t].to, held, held, expired) <= 3 + changes[t]
      BY <1>1, <1>2, <1>9, <2>7, <2>8 DEF Answered
    <2>10. Asked(t)'
      BY <1>1, <2>5, <2>6, <2>9 DEF Asked
    <2> QED
      BY <1>7, <2>4, <2>5, <2>10 DEF HopsCounted, Counted
  <1> QED
    BY <1>5, <1>8, <1>9

(* The session changes under every tab *)
LEMMA OutsideCounts ==
  ASSUME DashInv, UNCHANGED <<opened, tab, hops>>, changes' = Notice(Tabs), jar' \in 0..opened,
         expired' \subseteq 1..opened, expired \subseteq expired'
  PROVE  DashInv'
  <1> USE DEF DashInv
  <1>1. /\ changes' \in [Tabs -> Nat]
        /\ \A u \in Tabs : changes'[u] = IF tab[u].at # "page" THEN changes[u] + 1 ELSE changes[u]
    BY DEF Notice, DashTypeOK
  <1>2. DashTypeOK'
    BY <1>1 DEF DashTypeOK
  <1>3. ASSUME NEW u \in Tabs PROVE Counted(u)'
    <2>1. Counted(u) /\ changes[u] \in Nat
      BY DEF HopsCounted, DashTypeOK
    <2> QED
      BY <1>1, <2>1, ChangeCosts
  <1> QED
    BY <1>2, <1>3 DEF HopsCounted

LEMMA DashStep ==
  ASSUME DashInv, [DashNext]_dashVars
  PROVE  DashInv'
  <1>1. CASE Forgets
    BY <1>1, OutsideCounts DEF Forgets, DashInv, DashTypeOK, NoCookie
  <1>2. ASSUME NEW s \in Sessions, Expires(s) PROVE DashInv'
    BY <1>2, OutsideCounts DEF Expires, DashInv, DashTypeOK
  <1>3. ASSUME NEW t \in Tabs, Serves(t) PROVE DashInv'
    BY <1>3, ServesCount
  <1>4. ASSUME NEW t \in Tabs, Receives(t) PROVE DashInv'
    BY <1>4, ReceivesCount
  <1>5. ASSUME NEW t \in Tabs, NEW path \in Paths, Clicks(t, path) PROVE DashInv'
    BY <1>5, ClicksCount
  <1>6. CASE UNCHANGED dashVars
    <2>1. DashTypeOK'
      BY <1>6 DEF dashVars, DashInv, DashTypeOK
    <2>2. ASSUME NEW u \in Tabs PROVE Counted(u)'
      BY <1>6, SameCount DEF dashVars, DashInv, HopsCounted
    <2> QED
      BY <2>1, <2>2 DEF DashInv, HopsCounted
  <1> QED
    BY <1>1, <1>2, <1>3, <1>4, <1>5, <1>6 DEF DashNext

LEMMA DashInvariant == DashSpec => []DashInv
  <1>1. DashInit => DashInv
    BY DashStart
  <1>2. DashInv /\ [DashNext]_dashVars => DashInv'
    BY DashStep
  <1> QED
    BY <1>1, <1>2, PTL DEF DashSpec

(* Every state of the browser's tabs and of its cookie jar is well-typed.   *)
THEOREM DashTypeCorrect == DashSpec => []DashTypeOK
  <1>1. DashInv => DashTypeOK
    BY DEF DashInv
  <1> QED
    BY <1>1, DashInvariant, PTL

(* However the tabs' requests, the expiry of tokens and the loss of the     *)
(* cookie interleave, a click is redirected three times at most, and once   *)
(* more for each time the session changed meanwhile: the login form and the *)
(* dashboard never send a browser to each other and back for ever           *)
(* (redirectLogin, routeLogin, requireSession).                             *)
THEOREM RedirectsBounded == DashSpec => []RedirectsEnd
  <1>1. DashInv => RedirectsEnd
    <2> SUFFICES ASSUME DashInv, NEW t \in Tabs PROVE hops[t] <= 3 + changes[t]
      BY DEF RedirectsEnd
    <2>1. /\ Counted(t) /\ hops[t] \in Int /\ changes[t] \in Nat
          /\ tab[t].at \in {"page", "asked", "answered"}
      BY DashboardAssumption DEF DashInv, HopsCounted, DashTypeOK
    <2>2. CASE tab[t].at = "page"
      BY <2>1, <2>2 DEF Counted
    <2>3. CASE tab[t].at = "asked"
      BY <2>1, <2>3 DEF Counted, Asked, AskedToGo
    <2>4. CASE tab[t].at = "answered"
      BY <2>1, <2>4 DEF Counted, Answered, AnsweredToGo
    <2> QED
      BY <2>1, <2>2, <2>3, <2>4
  <1> QED
    BY <1>1, DashInvariant, PTL

=============================================================================
