---------------------------- MODULE Credentials -----------------------------
(***************************************************************************)
(* Accounts, session tokens and API keys.  They are written to the primary *)
(* database; logins and the lookup of a key read one of the standbys the   *)
(* proxy spreads reads over, each of which applies the primary's commits   *)
(* in their order, at a pace of its own: a later read may see less than an *)
(* earlier one.  A request is identified first and acts afterwards, with   *)
(* other requests in between.                                              *)
(* (src/internal/api/middleware/auth.go, src/internal/api/handlers/auth.go *)
(* and apikeys.go, src/internal/storage/auth, src/internal/storage/users,  *)
(* src/docker/haproxy/haproxy.cfg)                                         *)
(***************************************************************************)
EXTENDS Naturals, Sequences

CONSTANTS
  People,      \* those who register, each with a password of their own
  Emails,      \* the addresses they register
  Standbys,    \* the databases behind the proxy's read port
  MaxKeys,     \* bound: API keys; the number of a key is its place in api_keys
  MaxLost,     \* bound: answers that are lost
  Nobody       \* no email

ASSUME CredentialAssumption == Nobody \notin Emails /\ {MaxKeys, MaxLost} \subseteq Nat

ApiKeys == 1..MaxKeys
NoKey == 0

VARIABLES
  log,        \* the primary's commits: users, api_keys and revocations
  applied,    \* per standby: how many of them it has
  token,      \* per person: the account its session token names, or Nobody
  shown,      \* per person: the keys it was shown
  inUse,      \* per person: the key its service presents, or NoKey
  request,    \* per person: the identified request: [as, op, key]
  registered, \* history: the registrations answered 201
  worked,     \* history: the <<person, standby>> pairs where the person's key in use was accepted
  lost        \* history: answers lost so far

credentialVars == <<log, applied, token, shown, inUse, request, registered, worked, lost>>

\* INSERT INTO users and api_keys, UPDATE api_keys
UserRow(p, e) == [row |-> "user", email |-> e, who |-> p, key |-> NoKey]
KeyRow(e, k) == [row |-> "key", email |-> e, who |-> Nobody, key |-> k]
Revocation(k) == [row |-> "revoked", email |-> Nobody, who |-> Nobody, key |-> k]
NoRequest == [as |-> Nobody, op |-> "none", key |-> NoKey]

CommitsUpTo(n) == {log[i] : i \in 1..n}
Primary == CommitsUpTo(Len(log))
Replica(s) == CommitsUpTo(applied[s])

\* WHERE key_hash = $1 AND revoked_at IS NULL
Active(rows, k) == Revocation(k) \notin rows /\ \E r \in rows : r.row = "key" /\ r.key = k

CredentialTypeOK ==
  /\ \A i \in DOMAIN log :
       log[i] \in {UserRow(p, e) : p \in People, e \in Emails}
                  \union {KeyRow(e, k) : e \in Emails, k \in ApiKeys} \union {Revocation(k) : k \in ApiKeys}
  /\ applied \in [Standbys -> 0..Len(log)]
  /\ token \in [People -> Emails \union {Nobody}]
  /\ shown \in [People -> SUBSET ApiKeys]
  /\ inUse \in [People -> ApiKeys \union {NoKey}]
  /\ request \in [People -> [as : Emails \union {Nobody}, op : {"none", "create", "revoke"}, key : ApiKeys \union {NoKey}]]
  /\ registered \subseteq People \X Emails
  /\ worked \subseteq People \X Standbys /\ lost \in 0..MaxLost

CredentialInit ==
  /\ log = <<>> /\ applied = [s \in Standbys |-> 0]
  /\ token = [p \in People |-> Nobody]
  /\ shown = [p \in People |-> {}]
  /\ inUse = [p \in People |-> NoKey]
  /\ request = [p \in People |-> NoRequest]
  /\ registered = {} /\ worked = {} /\ lost = 0

Commits(row) == log' = Append(log, row)

-----------------------------------------------------------------------------
\* Mutant: the handler looks the address up, where reads go, and inserts
TakenOnReplica(e) == \A s \in Standbys : \E r \in Replica(s) : r.row = "user" /\ r.email = e

\* ON CONFLICT (email) DO NOTHING
Taken(e) == \E r \in Primary : r.row = "user" /\ r.email = e

\* The answer is 201, or 409 when the address is taken; either may get lost.
Register(p, e) ==
  /\ ~Taken(e)
  /\ Commits(UserRow(p, e))
  /\ \/ registered' = registered \union {<<p, e>>} /\ UNCHANGED lost
     \/ lost < MaxLost /\ lost' = lost + 1 /\ UNCHANGED registered
  /\ UNCHANGED <<applied, token, shown, inUse, request, worked>>

\* GetUserByEmail reads a standby; an address it does not have and a password
\* that is not the account's are answered alike, by 401.
Accepts(s, p, e) == UserRow(p, e) \in Replica(s)

Login(p, e) ==
  /\ \E s \in Standbys : Accepts(s, p, e)
  /\ token' = [token EXCEPT ![p] = e]
  /\ UNCHANGED <<log, applied, shown, inUse, request, registered, worked, lost>>

TokenExpires(p) ==
  /\ token[p] # Nobody
  /\ token' = [token EXCEPT ![p] = Nobody]
  /\ UNCHANGED <<log, applied, shown, inUse, request, registered, worked, lost>>

-----------------------------------------------------------------------------
\* RequireAuth attaches the user: a token speaks for itself, a key is looked
\* up.  Without either the answer is 401 and nothing has happened.
KeyOwners(s, k) == {r.email : r \in {x \in Replica(s) : x.row = "key" /\ x.key = k /\ Active(Replica(s), k)}}

Identified(p, op, k) ==
  LET Attaches(e) == request' = [request EXCEPT ![p] = [as |-> e, op |-> op, key |-> k]] IN
  /\ request[p] = NoRequest
  /\ \/ token[p] # Nobody /\ Attaches(token[p]) /\ UNCHANGED worked
     \/ \E s \in Standbys : \E e \in KeyOwners(s, inUse[p]) : Attaches(e) /\ worked' = worked \union {<<p, s>>}
  /\ UNCHANGED <<log, applied, token, shown, inUse, registered, lost>>

\* A service creates keys, and revokes those it was shown but the one in use; it
\* may also name the key of another account.
AsksForKey(p) == Identified(p, "create", NoKey)
AsksToRevoke(p, k) == k # inUse[p] /\ Identified(p, "revoke", k)

Given(k) == \E e \in Emails : KeyRow(e, k) \in Primary

\* The handler of POST /v1/keys; the plaintext is shown in the answer, once.
CreateKey(p, k) ==
  /\ request[p].op = "create"
  /\ ~Given(k) /\ \A j \in 1..(k - 1) : Given(j)
  /\ Commits(KeyRow(request[p].as, k))
  /\ \/ shown' = [shown EXCEPT ![p] = @ \union {k}] /\ UNCHANGED lost
     \/ lost < MaxLost /\ lost' = lost + 1 /\ UNCHANGED shown
  /\ request' = [request EXCEPT ![p] = NoRequest]
  /\ UNCHANGED <<applied, token, inUse, registered, worked>>

\* Mutant: the statement does not name the key's user
RevokesAnyones(u, k) == Active(Primary, k)

\* WHERE key_id = $1 AND user_id = $2 AND revoked_at IS NULL
Revokes(u, k) == Active(Primary, k) /\ KeyRow(u, k) \in Primary

\* The handler of POST /v1/keys/revoke; no row is a 404.
RevokeKey(p) ==
  /\ request[p].op = "revoke"
  /\ IF Revokes(request[p].as, request[p].key) THEN Commits(Revocation(request[p].key)) ELSE UNCHANGED log
  /\ request' = [request EXCEPT ![p] = NoRequest]
  /\ UNCHANGED <<applied, token, shown, inUse, registered, worked, lost>>

-----------------------------------------------------------------------------
\* The service is given another key, and the old one may go.
Rotate(p, k) ==
  /\ k \in shown[p] \ {inUse[p]} /\ request[p] = NoRequest
  /\ Revocation(k) \notin Primary
  /\ inUse' = [inUse EXCEPT ![p] = k]
  /\ UNCHANGED <<log, applied, token, shown, request, registered, worked, lost>>

\* A standby applies the next commit.
Replicate(s) ==
  /\ applied[s] < Len(log) /\ applied' = [applied EXCEPT ![s] = @ + 1]
  /\ UNCHANGED <<log, token, shown, inUse, request, registered, worked, lost>>

CredentialNext ==
  \/ \E s \in Standbys : Replicate(s)
  \/ \E p \in People :
       \/ \E e \in Emails : Register(p, e) \/ Login(p, e)
       \/ TokenExpires(p) \/ AsksForKey(p) \/ RevokeKey(p)
       \/ \E k \in ApiKeys : AsksToRevoke(p, k) \/ CreateKey(p, k) \/ Rotate(p, k)

CredentialSpec == CredentialInit /\ [][CredentialNext]_credentialVars

-----------------------------------------------------------------------------
\* Of those who register one address at the same time one is told that the
\* account is created, and nobody else's request ever acts for it: not by a
\* token, and not by a key (CreateUser's ON CONFLICT, GetUserByEmail's row with
\* the password, and the user_id each key carries).
AccountsAreOwn ==
  /\ \A r \in registered : \A q \in People : UserRow(q, r[2]) \in Primary <=> q = r[1]
  /\ \A p \in People : request[p].as # Nobody => UserRow(p, request[p].as) \in Primary

\* "services can rotate" (NewAPIKeysHandler's comment): a service that takes a
\* new key before it revokes the old one has, at every standby and from the
\* first request that was accepted there on, always a key that this standby
\* accepts, whatever anybody else creates or revokes, which answers get lost and
\* how far each standby lags.  (Of the standbys that have accepted none of its
\* requests nothing is said: a key that one accepts another may not have yet.)
RotationKeepsAccess ==
  \A p \in People, s \in Standbys : <<p, s>> \in worked => \E k \in shown[p] : Active(Replica(s), k)

\* ARCHITECTURE.md, Scaling strategy: "Read-your-writes consistency is handled
\* by reading from the primary immediately after a mutation": whoever was
\* answered 201 by POST /v1/auth/register can log in.
FreshAccountsLogIn == \A r \in registered, s \in Standbys : Accepts(s, r[1], r[2])
=============================================================================
