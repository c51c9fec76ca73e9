----------------------------- MODULE MCRequests -----------------------------
(***************************************************************************)
(* What a request or an attempt may leave behind: creations and retries    *)
(* under an idempotency key, the rate limiter, accounts and keys, the      *)
(* dashboard's sessions, and the attempts of e-mail and file jobs.         *)
(* They share no variable, so every step of one is independent of every    *)
(* step of another: a behaviour takes the steps of one of them, `part',    *)
(* which a run may choose among its Parts, while the others stay where     *)
(* they started.                                                           *)
(***************************************************************************)
EXTENDS CreateKeys, RetryKeys, RateLimit, Credentials, Dashboard, EmailSend, FileCopy, TLC

CONSTANTS a1, a2, small, big, path, object, escape, nokey, Parts

VARIABLE part

requestVars == <<keysVars, retryVars, limitVars, credentialVars, dashVars, emailVars, fileVars, part>>

\* What differs from run to run of one handler is fixed for the others.
RequestsInit ==
  /\ part \in Parts
  /\ KeysInit /\ RetryInit /\ LimitInit /\ CredentialInit /\ DashInit /\ EmailInit /\ FileInit
  /\ part # "limit" => \A q \in Reqs : req[q].key = CHOOSE c \in Callers : TRUE
  /\ part # "email" => valid /\ ~dryRun
  /\ part # "file" => \A r \in WellFormed : file[r] = Nil

\* Nobody's name is looked at, nor an address's, a standby's or a tab's: the
\* first account may as well be this one.
FirstAccount == log # <<>> => log[1] = UserRow(CHOOSE p \in People : TRUE, CHOOSE e \in Emails : TRUE)
Interchangeable == Permutations(Standbys) \union Permutations(Tabs)

apiVars == <<keysVars, retryVars, limitVars>>
handlerVars == <<emailVars, fileVars>>

RequestsNext ==
  /\ \/ part = "create" /\ KeysNext /\ UNCHANGED <<retryVars, limitVars>>
     \/ part = "retry" /\ RetryNext /\ UNCHANGED <<keysVars, limitVars>>
     \/ part = "limit" /\ LimitNext /\ UNCHANGED <<keysVars, retryVars>>
     \/ part \notin {"create", "retry", "limit"} /\ UNCHANGED apiVars
  /\ \/ part = "credentials" /\ CredentialNext /\ FirstAccount' /\ UNCHANGED dashVars
     \/ part = "dashboard" /\ DashNext /\ UNCHANGED credentialVars
     \/ part \notin {"credentials", "dashboard"} /\ UNCHANGED <<credentialVars, dashVars>>
  /\ \/ part = "email" /\ EmailNext /\ UNCHANGED fileVars
     \/ part = "file" /\ FileNext /\ UNCHANGED emailVars
     \/ part \notin {"email", "file"} /\ UNCHANGED handlerVars
  /\ UNCHANGED part

RequestsSpec == RequestsInit /\ [][RequestsNext]_requestVars
=============================================================================
