------------------------------ MODULE FileCopy ------------------------------
(***************************************************************************)
(* File jobs that run side by side over the same files and objects: what   *)
(* a payload may name, the read of the source, the write of the            *)
(* destination through a temporary file or a PUT, and what is left of them *)
(* when a step fails, the context ends or the process dies.                *)
(* (src/internal/task/handlers/file.go)                                    *)
(***************************************************************************)
EXTENDS Naturals

CONSTANTS
  Local, S3,        \* well-formed references: sandboxed paths, s3://bucket/key
  BadLocal, BadS3,  \* escapes from the sandbox, s3 URLs without bucket or key
  Attempts,         \* attempts of jobs, each with its handler goroutine
  Contents, Big,    \* what files hold, and what of it exceeds MaxBytes
  MaxFaults,        \* bound: steps that fail, requests that are refused, deaths
  Nil, Torn         \* no file; part of a content

Refs == Local \union S3 \union BadLocal \union BadS3
WellFormed == Local \union S3
OnS3(r) == r \in S3 \union BadS3

ASSUME FileAssumption ==
  /\ WellFormed \cap (BadLocal \union BadS3) = {} /\ Local \cap S3 = {} /\ BadLocal \cap BadS3 = {}
  /\ Local # {}
  /\ Big \subseteq Contents /\ {Nil, Torn} \cap Contents = {} /\ Nil # Torn
  /\ MaxFaults \in Nat

VARIABLES
  file,    \* what is stored under each reference
  fileJob, \* per attempt: src, dst and op
  fileAt,  \* per attempt: idle, get, put, write, rename, check, done or dead
  data,    \* per attempt: what it read
  tmp,     \* per attempt: its temporary file
  answer,  \* per attempt: none, ok, permanent or transient
  ended,   \* the attempts whose context has ended
  stored,  \* history: the attempts that replaced their destination
  faults

fileVars == <<file, fileJob, fileAt, data, tmp, answer, ended, stored, faults>>

FileTypeOK ==
  /\ file \in [WellFormed -> Contents \union {Nil, Torn}]
  /\ fileJob \in [Attempts -> [src : Refs, dst : Refs, op : {"copy", "sha256"}]]
  /\ fileAt \in [Attempts -> {"idle", "get", "put", "write", "rename", "check", "done", "dead"}]
  /\ data \in [Attempts -> (Contents \ Big) \union {Nil}]
  /\ tmp \in [Attempts -> Contents \union {Nil, Torn}]
  /\ answer \in [Attempts -> {"none", "ok", "permanent", "transient"}]
  /\ \A a \in Attempts : fileAt[a] = "done" <=> answer[a] # "none"
  /\ {ended, stored} \subseteq SUBSET Attempts
  /\ faults \in 0..MaxFaults

FileInit ==
  /\ file \in [WellFormed -> Contents \union {Nil}]
  /\ LET any == CHOOSE r \in Refs : TRUE IN
       fileJob = [a \in Attempts |-> [src |-> any, dst |-> any, op |-> "copy"]]
  /\ fileAt = [a \in Attempts |-> "idle"]
  /\ data = [a \in Attempts |-> Nil] /\ tmp = [a \in Attempts |-> Nil]
  /\ answer = [a \in Attempts |-> "none"]
  /\ ended = {} /\ stored = {} /\ faults = 0

Fault == faults < MaxFaults /\ faults' = faults + 1
FileGoes(a, step) == fileAt' = [fileAt EXCEPT ![a] = step]
FileAnswers(a, o) == FileGoes(a, "done") /\ answer' = [answer EXCEPT ![a] = o]

\* ParseFilePayload's test of s3 URLs: of the two it looks at the first that
\* is not empty, which is src.
Refused(j) == (OnS3(j.src) \/ OnS3(j.dst)) /\ j.src \notin S3

\* ProcessJobs takes up a payload.
Parse(a, j) ==
  /\ fileAt[a] = "idle"
  /\ fileJob' = [fileJob EXCEPT ![a] = j]
  /\ IF Refused(j)
       THEN FileAnswers(a, "permanent")
       ELSE FileGoes(a, "get") /\ UNCHANGED answer
  /\ UNCHANGED <<file, data, tmp, ended, stored, faults>>

\* The timeout or the shutdown ends a context; a handler does not notice.
ContextEnds(a) ==
  /\ fileAt[a] \notin {"idle", "done", "dead"} /\ a \notin ended
  /\ ended' = ended \union {a}
  /\ UNCHANGED <<file, fileJob, fileAt, data, tmp, answer, stored, faults>>

\* Get: a source that is there, within the cap, before the context ends.  A
\* file that is replaced meanwhile is read as it was opened.
Reads(a) ==
  LET src == fileJob[a].src IN
  /\ fileAt[a] = "get" /\ a \notin ended
  /\ src \in WellFormed /\ file[src] \notin Big \union {Nil}
  /\ data' = [data EXCEPT ![a] = file[src]]
  /\ IF fileJob[a].op = "sha256" THEN FileAnswers(a, "ok") ELSE FileGoes(a, "put") /\ UNCHANGED answer
  /\ UNCHANGED <<file, fileJob, tmp, ended, stored, faults>>

\* Get fails: a reference that does not resolve, more than the cap and a 4xx
\* are permanent; a local file that is not there, a context that has ended
\* and any other fault are transient.
GetFails(a) ==
  LET src == fileJob[a].src IN
  /\ fileAt[a] = "get"
  /\ \/ src \notin WellFormed /\ FileAnswers(a, "permanent") /\ UNCHANGED faults
     \/ src \in WellFormed /\ file[src] \in Big /\ FileAnswers(a, "permanent") /\ UNCHANGED faults
     \/ src \in S3 /\ file[src] = Nil /\ FileAnswers(a, "permanent") /\ UNCHANGED faults
     \/ src \in Local /\ file[src] = Nil /\ FileAnswers(a, "transient") /\ UNCHANGED faults
     \/ a \in ended /\ FileAnswers(a, "transient") /\ UNCHANGED faults
     \/ Fault /\ FileAnswers(a, "transient")
     \/ src \in S3 /\ Fault /\ FileAnswers(a, "permanent")
  /\ UNCHANGED <<file, fileJob, data, tmp, ended, stored>>

\* LocalFSStorage.Put up to CreateTemp
CreateTemp(a) ==
  /\ fileAt[a] = "put" /\ fileJob[a].dst \in Local
  /\ tmp' = [tmp EXCEPT ![a] = Torn] /\ FileGoes(a, "write")
  /\ UNCHANGED <<file, fileJob, data, answer, ended, stored, faults>>

\* Mutant: the result of the write is not looked at
WriteUnchecked(a) ==
  /\ fileAt[a] = "write"
  /\ \/ tmp' = [tmp EXCEPT ![a] = data[a]] /\ UNCHANGED faults
     \/ Fault /\ UNCHANGED tmp
  /\ FileGoes(a, "rename")
  /\ UNCHANGED <<file, fileJob, data, answer, ended, stored>>

\* io.Copy and Close
Write(a) ==
  /\ fileAt[a] = "write"
  /\ tmp' = [tmp EXCEPT ![a] = data[a]] /\ FileGoes(a, "rename")
  /\ UNCHANGED <<file, fileJob, data, answer, ended, stored, faults>>

\* Rename replaces the destination in one step.
Rename(a) ==
  /\ fileAt[a] = "rename"
  /\ file' = [file EXCEPT ![fileJob[a].dst] = tmp[a]]
  /\ tmp' = [tmp EXCEPT ![a] = Nil]
  /\ stored' = stored \union {a}
  /\ FileGoes(a, "check")
  /\ UNCHANGED <<fileJob, data, answer, ended, faults>>

\* The context is looked at only now.
Checks(a) ==
  /\ fileAt[a] = "check"
  /\ FileAnswers(a, IF a \in ended THEN "transient" ELSE "ok")
  /\ UNCHANGED <<file, fileJob, data, tmp, ended, stored, faults>>

\* A step of LocalFSStorage.Put fails; the deferred Remove runs.
PutFails(a) ==
  /\ fileAt[a] \in {"put", "write", "rename"} /\ fileJob[a].dst \in Local
  /\ Fault /\ FileAnswers(a, "transient")
  /\ tmp' = [tmp EXCEPT ![a] = Nil]
  /\ UNCHANGED <<file, fileJob, data, ended, stored>>

\* A destination that does not resolve: permanent, in either storage
PutRefuses(a) ==
  /\ fileAt[a] = "put" /\ fileJob[a].dst \notin WellFormed
  /\ FileAnswers(a, "permanent")
  /\ UNCHANGED <<file, fileJob, data, tmp, ended, stored, faults>>

\* Mutant: every failed PUT is permanent
PutObjectRefusing(a) ==
  /\ fileAt[a] = "put" /\ fileJob[a].dst \in S3
  /\ \/ /\ file' = [file EXCEPT ![fileJob[a].dst] = data[a]] /\ stored' = stored \union {a}
        /\ \/ a \notin ended /\ FileAnswers(a, "ok") /\ UNCHANGED faults
           \/ a \in ended /\ FileAnswers(a, "permanent") /\ UNCHANGED faults
           \/ Fault /\ FileAnswers(a, "permanent")
     \/ Fault /\ FileAnswers(a, "permanent") /\ UNCHANGED <<file, stored>>
  /\ UNCHANGED <<fileJob, data, tmp, ended>>

\* S3Storage.Put: the object is stored and the answer arrives, or it is lost;
\* or the object is not stored and the error is permanent (a 4xx) or not.
PutObject(a) ==
  /\ fileAt[a] = "put" /\ fileJob[a].dst \in S3
  /\ \/ /\ file' = [file EXCEPT ![fileJob[a].dst] = data[a]] /\ stored' = stored \union {a}
        /\ \/ a \notin ended /\ FileAnswers(a, "ok") /\ UNCHANGED faults
           \/ a \in ended /\ FileAnswers(a, "transient") /\ UNCHANGED faults
           \/ Fault /\ FileAnswers(a, "transient")
     \/ /\ Fault /\ \E o \in {"permanent", "transient"} : FileAnswers(a, o)
        /\ UNCHANGED <<file, stored>>
  /\ UNCHANGED <<fileJob, data, tmp, ended>>

\* The process dies with all its handlers; temporary files stay.
Dies ==
  /\ Fault
  /\ fileAt' = [a \in Attempts |-> IF fileAt[a] \in {"idle", "done"} THEN fileAt[a] ELSE "dead"]
  /\ UNCHANGED <<file, fileJob, data, tmp, answer, ended, stored>>

FileNext ==
  \/ Dies
  \/ \E a \in Attempts :
       \/ \E s, d \in Refs, op \in {"copy", "sha256"} : Parse(a, [src |-> s, dst |-> d, op |-> op])
       \/ ContextEnds(a) \/ Reads(a) \/ GetFails(a) \/ CreateTemp(a) \/ Write(a) \/ Rename(a) \/ Checks(a)
       \/ PutFails(a) \/ PutRefuses(a) \/ PutObject(a)

FileSpec == FileInit /\ [][FileNext]_fileVars

-----------------------------------------------------------------------------
\* No reader ever finds a part of a file under a destination, whatever runs
\* next to the write, fails in it or dies in it (Put's comment: "writes
\* atomically (temp file + rename)").
FilesAreWhole == \A r \in WellFormed : file[r] # Torn

\* An answer says what became of the destination: nil, that it was replaced;
\* permanent, that it was not touched.  (Transient says nothing: a context
\* that ended or a lost reply may have let the write through.)
AnswersAreTrue ==
  \A a \in Attempts :
    /\ answer[a] = "ok" /\ fileJob[a].op = "copy" => a \in stored
    /\ answer[a] = "permanent" => a \notin stored
=============================================================================
