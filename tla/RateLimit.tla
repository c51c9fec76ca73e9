----------------------------- MODULE RateLimit -----------------------------
(***************************************************************************)
(* The API's per-caller token buckets.  A request reads the clock before   *)
(* it takes the limiter's lock, so requests of one caller may reach its    *)
(* bucket out of the order of their clocks.  Tokens and time are counted   *)
(* in the unit a bucket earns per tick: a request costs Cost units and a   *)
(* full bucket holds Capacity.                                             *)
(* (src/internal/api/middleware/ratelimit.go)                              *)
(***************************************************************************)
EXTENDS Integers, FiniteSets

CONSTANTS
  Callers,     \* values of callerKey
  Reqs,        \* request goroutines
  Cost,        \* one token
  Capacity,    \* burst tokens
  MaxBuckets,  \* the size at which the map is dropped (100000)
  MaxTime      \* bound: ticks of the clock

ASSUME LimitAssumption ==
  /\ {Cost, Capacity, MaxBuckets} \subseteq Nat \ {0} /\ MaxTime \in Nat
  /\ Cost <= Capacity

VARIABLES
  clock,
  buckets,  \* the callers in the map of the same name
  tokens, last,  \* the fields of a bucket
  born,     \* history: the clock of the request that made the bucket
  spent,    \* history: what the bucket has granted since
  full,     \* history: the clock of the last request that found the bucket full
  since,    \* history: what it has granted from that request on
  req       \* the requests: where they are, whose they are, their clock

limitVars == <<clock, buckets, tokens, last, born, spent, full, since, req>>

LimitTypeOK ==
  /\ clock \in 0..MaxTime
  /\ buckets \subseteq Callers
  /\ tokens \in [Callers -> Int] /\ \A c \in Callers : tokens[c] <= Capacity
  /\ last \in [Callers -> 0..MaxTime]
  /\ born \in [Callers -> 0..MaxTime]
  /\ full \in [Callers -> 0..MaxTime]
  /\ {spent, since} \subseteq [Callers -> Nat]
  /\ req \in [Reqs -> [at : {"idle", "locking", "allowed", "refused"}, key : Callers, now : 0..MaxTime]]

LimitInit ==
  /\ clock = 0 /\ buckets = {}
  /\ tokens = [c \in Callers |-> 0] /\ last = [c \in Callers |-> 0]
  /\ born = [c \in Callers |-> 0] /\ spent = [c \in Callers |-> 0]
  /\ full = [c \in Callers |-> 0] /\ since = [c \in Callers |-> 0]
  /\ req \in [Reqs -> [at : {"idle"}, key : Callers, now : {0}]]

Tick ==
  /\ clock < MaxTime /\ clock' = clock + 1
  /\ UNCHANGED <<buckets, tokens, last, born, spent, full, since, req>>

\* Allow up to its lock: the caller's key and time.Now.
Arrive(r, c) ==
  /\ req[r].at # "locking"
  /\ req' = [req EXCEPT ![r] = [at |-> "locking", key |-> c, now |-> clock]]
  /\ UNCHANGED <<clock, buckets, tokens, last, born, spent, full, since>>

\* Mutant: only tokens are kept, a clock that is behind earns nothing
NeverBack(c, now) ==
  IF c \notin buckets THEN Capacity
  ELSE IF now < last[c] THEN tokens[c]
  ELSE IF tokens[c] + (now - last[c]) > Capacity THEN Capacity ELSE tokens[c] + (now - last[c])

\* Mutant: a bucket earns nothing
NeverRefilled(c, now) == IF c \notin buckets THEN Capacity ELSE tokens[c]

\* What is in c's bucket for a request of that clock: a new one is full, an
\* old one has earned the time between the two clocks, which may be negative.
Refilled(c, now) ==
  IF c \notin buckets THEN Capacity
  ELSE IF tokens[c] + (now - last[c]) > Capacity THEN Capacity ELSE tokens[c] + (now - last[c])

\* The map with c in it; one bucket too many and only c's is left.
With(c) ==
  IF c \in buckets THEN buckets
  ELSE IF Cardinality(buckets) >= MaxBuckets THEN {c} ELSE buckets \union {c}

Earned(c) == IF c \in buckets THEN spent[c] ELSE 0

\* Allow under its lock, for the request that gets it.
Allow(r) ==
  /\ req[r].at = "locking"
  /\ LET c == req[r].key
         t == Refilled(c, req[r].now)
         ok == t >= Cost
     IN  /\ buckets' = With(c)
         /\ born' = IF c \in buckets THEN born ELSE [born EXCEPT ![c] = req[r].now]
         /\ last' = [last EXCEPT ![c] = req[r].now]
         /\ tokens' = [tokens EXCEPT ![c] = IF ok THEN t - Cost ELSE t]
         /\ spent' = [spent EXCEPT ![c] = IF ok THEN Earned(c) + Cost ELSE Earned(c)]
         /\ full' = IF t = Capacity THEN [full EXCEPT ![c] = req[r].now] ELSE full
         /\ since' = [since EXCEPT ![c] = (IF t = Capacity THEN 0 ELSE @) + (IF ok THEN Cost ELSE 0)]
         /\ req' = [req EXCEPT ![r] =
                      [at |-> IF ok THEN "allowed" ELSE "refused", key |-> c, now |-> req[r].now]]
  /\ UNCHANGED clock

LimitNext ==
  \/ Tick
  \/ \E r \in Reqs : Allow(r) \/ \E c \in Callers : Arrive(r, c)

LimitSpec == LimitInit /\ [][LimitNext]_limitVars

-----------------------------------------------------------------------------
\* A caller gets no more out of its bucket than a full one and what time has
\* earned since it was made, in whatever order requests reach the lock
\* (RateLimiter's comment: a burst from one client must not deplete the
\* capacity of the others).
RateIsBounded == \A c \in buckets : spent[c] <= Capacity + (clock - born[c])

\* A refusal is earned: counted from the last request that found the bucket
\* full, the caller's grants and the token it asks for are more than a burst and
\* what the time up to this request's clock has earned.  (Tokens that time was
\* owed and did not get would show here, and so would an empty new bucket.)
RefusalIsEarned ==
  [][\A r \in Reqs : LET c == req[r].key IN
       req[r].at = "locking" /\ req'[r].at = "refused" =>
         since'[c] + Cost > Capacity + (req[r].now - full'[c])]_limitVars
=============================================================================
