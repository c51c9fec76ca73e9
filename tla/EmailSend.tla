----------------------------- MODULE EmailSend -----------------------------
(***************************************************************************)
(* The attempts of one e-mail job against an SMTP server: where the        *)
(* dialogue can fail, what the attempt then answers and what the server    *)
(* has accepted by then.  After the dial no step looks at the context, so  *)
(* an attempt that timed out goes on next to the one that retries it; and  *)
(* an attempt that sent the message is repeated when its process dies, or  *)
(* Complete fails, before the row is closed.                               *)
(* (src/internal/task/handlers/email.go)                                   *)
(***************************************************************************)
EXTENDS Naturals, Sequences

CONSTANTS
  MaxAttempts,   \* bound: attempts of the job
  Authenticates  \* SMTP_USER is set

EmailAttempts == 1..MaxAttempts

ASSUME EmailAssumption == MaxAttempts \in Nat \ {0} /\ Authenticates \in BOOLEAN

VARIABLES
  valid,      \* the payload passes ParseEmailPayload
  dryRun,     \* EMAIL_DRY_RUN is set, or there is no SMTP_HOST
  smtp,       \* per attempt: idle, the step it is at, done, or dead
  outcome,    \* per attempt: none, ok, permanent or transient
  abandoned,  \* the attempts runWithTimeout, or the reaper, has given up on
  completed,  \* the row is completed
  accepted    \* the copies of each attempt that the server took

givenVars == <<valid, dryRun>>
emailVars == <<givenVars, smtp, outcome, abandoned, completed, accepted>>

\* Send's dialogue
Dialogue == <<"parse", "dial", "greeting", "starttls", "auth", "mail", "rcpt", "data", "write", "close", "quit", "done">>
Steps == {Dialogue[i] : i \in DOMAIN Dialogue}

EmailTypeOK ==
  /\ {valid, dryRun, completed} \subseteq BOOLEAN
  /\ smtp \in [EmailAttempts -> Steps \union {"idle", "dead"}]
  /\ outcome \in [EmailAttempts -> {"none", "ok", "permanent", "transient"}]
  /\ \A a \in EmailAttempts : outcome[a] # "none" <=> smtp[a] = "done"
  /\ abandoned \subseteq EmailAttempts
  /\ accepted \in [EmailAttempts -> 0..1]

EmailInit ==
  /\ valid \in BOOLEAN /\ dryRun \in BOOLEAN
  /\ completed = FALSE
  /\ smtp = [a \in EmailAttempts |-> "idle"]
  /\ outcome = [a \in EmailAttempts |-> "none"]
  /\ abandoned = {}
  /\ accepted = [a \in EmailAttempts |-> 0]

Running(a) == smtp[a] \notin {"idle", "done", "dead"}

\* The first attempt, and a repeat once every earlier one has ended or was
\* given up: after an error (permanent errors are retried as well), a timeout
\* or a death, and after a success the row was not told of.
Starts(a) ==
  /\ smtp[a] = "idle" /\ ~completed
  /\ \A b \in 1..(a - 1) : smtp[b] \in {"done", "dead"} \/ b \in abandoned
  /\ smtp' = [smtp EXCEPT ![a] = "parse"]
  /\ UNCHANGED <<givenVars, outcome, abandoned, completed, accepted>>

\* runWithTimeout gives up, or the reaper reclaims a row whose heartbeats do
\* not arrive; the handler goes on.
Abandon(a) ==
  /\ Running(a) /\ a \notin abandoned
  /\ abandoned' = abandoned \union {a}
  /\ UNCHANGED <<givenVars, smtp, outcome, completed, accepted>>

\* What the server has taken by the end of the step the attempt is at, when no
\* answer tells: if the data was being closed, perhaps the message
MaybeTaken(a) ==
  \/ UNCHANGED accepted
  \/ smtp[a] = "close" /\ accepted' = [accepted EXCEPT ![a] = @ + 1]

\* The worker's process dies in the middle of the dialogue.
SenderDies(a) ==
  /\ Running(a)
  /\ smtp' = [smtp EXCEPT ![a] = "dead"]
  /\ MaybeTaken(a)
  /\ UNCHANGED <<givenVars, outcome, abandoned, completed>>

\* What follows a step that succeeds
After(step) == Dialogue[(CHOOSE i \in DOMAIN Dialogue : Dialogue[i] = step) + 1]

SmtpAnswers(a, o) ==
  /\ smtp' = [smtp EXCEPT ![a] = "done"]
  /\ outcome' = [outcome EXCEPT ![a] = o]

\* A success is written to the row, by the worker that still holds it, unless
\* Complete fails or the process dies before it.
Reports(a) ==
  /\ SmtpAnswers(a, "ok")
  /\ completed' \in {completed, completed \/ a \notin abandoned}

\* A step succeeds; closing the data writer is what hands the message over.
\* A server without STARTTLS and a sender without a user have those steps for
\* nothing.
Succeeds(a) ==
  /\ Running(a)
  /\ smtp[a] = "parse" => valid /\ ~dryRun
  /\ IF smtp[a] = "quit" THEN Reports(a)
     ELSE smtp' = [smtp EXCEPT ![a] = After(smtp[a])] /\ UNCHANGED <<outcome, completed>>
  /\ accepted' = IF smtp[a] = "close" THEN [accepted EXCEPT ![a] = @ + 1] ELSE accepted
  /\ UNCHANGED <<givenVars, abandoned>>

\* A dry run, and a payload that is refused, answer before the network.
Refuses(a) ==
  smtp[a] = "parse" /\ ~valid /\ SmtpAnswers(a, "permanent") /\ UNCHANGED <<givenVars, abandoned, completed, accepted>>
DryRuns(a) ==
  smtp[a] = "parse" /\ valid /\ dryRun /\ Reports(a) /\ UNCHANGED <<givenVars, abandoned, accepted>>

\* Mutant: a refused message is taken for a refused address
AnyRefusal(step) == step \in {"auth", "mail", "rcpt", "data", "close"}

\* The errors wrapped with PermanentMsg
Permanent(step) == step \in {"auth", "mail", "rcpt"}

\* A step fails.  When the answer to the data is lost, the server may have
\* taken the message.
Fails(a) ==
  /\ Running(a) /\ smtp[a] # "parse"
  /\ smtp[a] = "auth" => Authenticates
  /\ SmtpAnswers(a, IF Permanent(smtp[a]) THEN "permanent" ELSE "transient")
  /\ MaybeTaken(a)
  /\ UNCHANGED <<givenVars, abandoned, completed>>

EmailNext ==
  \E a \in EmailAttempts :
    Starts(a) \/ Abandon(a) \/ SenderDies(a) \/ Succeeds(a) \/ Fails(a) \/ Refuses(a) \/ DryRuns(a)

EmailSpec == EmailInit /\ [][EmailNext]_emailVars

-----------------------------------------------------------------------------
\* Whatever was repeated, timed out or died on the way: a completed row of a
\* real run has had its message taken from an attempt that answered so, and an
\* attempt that answered with a permanent error has left no copy behind (the
\* client who corrects the job and sends it again sends it once).
AnswersMatchDelivery ==
  /\ completed => valid /\ (dryRun \/ \E a \in EmailAttempts : outcome[a] = "ok" /\ accepted[a] = 1)
  /\ \A a \in EmailAttempts : outcome[a] = "permanent" => accepted[a] = 0
=============================================================================
