------------------------------- MODULE Ingest -------------------------------
(***************************************************************************)
(* Handlers.Submit of internal/transport/httpapi/handlers.go behind the    *)
(* auth middleware: one request per job, from its arrival to its answer,   *)
(* the checks of its upload, and the temporary file it is spooled to.      *)
(*                                                                         *)
(* The environment is the client, which may disconnect (this cancels the   *)
(* request context), and the pool, which decides on the task, works on it  *)
(* and at last runs its Cleanup.                                           *)
(***************************************************************************)
EXTENDS JobStore, Naturals

CONSTANTS
  Uploads,   \* the requests a client may send
  TokenSet,  \* API_KEY is configured
  MaxBytes,  \* the limit on the audio
  FormBytes  \* what the multipart form adds to the file

\* The tokens in Authorization: Bearer and in X-API-Key; the form (not a
\* multipart form, or one without the audio field); the size of its file and
\* whether the type it declares is allowed.
Token      == {"none", "wrong", "right"}
UploadType == [bearer : Token, key : Token, form : {"ok", "missing", "broken"},
               size : Nat, allowed : BOOLEAN]

ASSUME UploadAssumption ==
  /\ Uploads \subseteq UploadType /\ Absent \notin Uploads
  /\ TokenSet \in BOOLEAN /\ MaxBytes \in Nat \ {0} /\ FormBytes \in Nat \ {0}

VARIABLES
  store,    \* the shared job store
  upload,   \* what each request carries
  req,      \* control state of each request's handler
  answer,   \* its response
  temp,     \* requests whose temporary file exists
  gone,     \* requests whose client has disconnected
  submit    \* what Pool.Submit did with the task (the pool's variable)

ingestVars == <<store, upload, req, answer, temp, gone, submit>>

ReqState == {"none", "validate", "spool", "create", "submit", "refuse", "done"}

Invalid == {"400", "401", "413", "415"}

\* "retry" is 503 with Retry-After.
Answer == {"none", "202", "500", "503", "retry"} \cup Invalid

Refusal == {"full", "rejected"}

Active == {j \in Job : req[j] \notin {"none", "done"}}

Init ==
  /\ store  = [j \in Job |-> Absent]
  /\ upload = [j \in Job |-> Absent]
  /\ req    = [j \in Job |-> "none"]
  /\ answer = [j \in Job |-> "none"]
  /\ temp   = {}
  /\ gone   = {}
  /\ submit = [j \in Job |-> "idle"]

-----------------------------------------------------------------------------
Goes(j, from, to) ==
  /\ req[j] = from
  /\ req' = [req EXCEPT ![j] = to]

Answers(j, from, code) ==
  /\ Goes(j, from, "done")
  /\ answer' = [answer EXCEPT ![j] = code]

Arrive(j) ==
  /\ Goes(j, "none", "validate")
  /\ \E u \in Uploads : upload' = [upload EXCEPT ![j] = u]
  /\ UNCHANGED <<store, answer, temp, gone, submit>>

\* auth, presentedToken: a bearer token hides the other one.
Presented(u)  == IF u.bearer # "none" THEN u.bearer ELSE u.key
Authorized(u) == TokenSet => Presented(u) = "right"

\* Mutant: the size is only checked for zero.
VerdictAnySize(u) ==
  IF ~Authorized(u) THEN "401"
  ELSE IF u.form # "ok" \/ u.size = 0 THEN "400"
  ELSE IF ~u.allowed THEN "415" ELSE "ok"

\* Mutant: a body of exactly the limit is over it.
VerdictOffByOne(u) ==
  IF ~Authorized(u) THEN "401"
  ELSE IF u.form = "broken" THEN "400"
  ELSE IF u.size + FormBytes >= MaxBytes THEN "413"
  ELSE IF u.form = "missing" \/ u.size = 0 THEN "400"
  ELSE IF ~u.allowed THEN "415" ELSE "ok"

\* The checks in their order.  MaxBytesReader counts the whole body, so the
\* check of the file's own size never comes to fail.
Verdict(u) ==
  IF ~Authorized(u) THEN "401"
  ELSE IF u.form = "broken" THEN "400"
  ELSE IF u.size + FormBytes > MaxBytes THEN "413"
  ELSE IF u.form = "missing" \/ u.size = 0 THEN "400"
  ELSE IF u.size > MaxBytes THEN "413"
  ELSE IF ~u.allowed THEN "415" ELSE "ok"

Reject(j) ==
  /\ Answers(j, "validate", Verdict(upload[j]))
  /\ Verdict(upload[j]) # "ok"
  /\ UNCHANGED <<store, upload, temp, gone, submit>>

\* The body breaks off: the client, or the read timeout, ends it.
BodyFails(j) ==
  /\ Answers(j, "validate", "400")
  /\ Authorized(upload[j])
  /\ UNCHANGED <<store, upload, temp, gone, submit>>

\* spool: CreateTemp, then the copy and the close, whose failures remove the
\* file again.
SpoolCreates(j) ==
  /\ Goes(j, "validate", "spool")
  /\ Verdict(upload[j]) = "ok"
  /\ temp' = temp \cup {j}
  /\ UNCHANGED <<store, upload, answer, gone, submit>>

SpoolCreateFails(j) ==
  /\ Answers(j, "validate", "500")
  /\ Verdict(upload[j]) = "ok"
  /\ UNCHANGED <<store, upload, temp, gone, submit>>

SpoolCopies(j) ==
  /\ Goes(j, "spool", "create")
  /\ UNCHANGED <<store, upload, answer, temp, gone, submit>>

SpoolCopyFails(j) ==
  /\ Answers(j, "spool", "500")
  /\ temp' = temp \ {j}
  /\ UNCHANGED <<store, upload, gone, submit>>

Create(j) ==
  /\ CreateOK(store, j, j \in gone)
  /\ Goes(j, "create", "submit")
  /\ store' = Put(store, j, NewJob)
  /\ UNCHANGED <<upload, answer, temp, gone, submit>>

\* Mutant: the error path forgets the temporary file.
CreateFailsLeaky(j) ==
  /\ ~CreateOK(store, j, j \in gone)
  /\ Answers(j, "create", "500")
  /\ UNCHANGED <<store, upload, temp, gone, submit>>

CreateFails(j) ==
  /\ ~CreateOK(store, j, j \in gone)
  /\ Answers(j, "create", "500")
  /\ temp' = temp \ {j}
  /\ UNCHANGED <<store, upload, gone, submit>>

\* Mutant: accepted whatever Submit returned.
SubmittedBlindly(j) ==
  /\ submit[j] # "idle"
  /\ Answers(j, "submit", "202")
  /\ UNCHANGED <<store, upload, temp, gone, submit>>

\* Mutant: the handler answers when the job is settled.
SubmittedWaits(j) ==
  /\ submit[j] = "accepted"
  /\ Terminal(store[j])
  /\ Answers(j, "submit", "202")
  /\ UNCHANGED <<store, upload, temp, gone, submit>>

\* Mutant: the handler saves its copy of the job once more.
SubmittedSaves(j) ==
  /\ submit[j] = "accepted"
  /\ Answers(j, "submit", "202")
  /\ store' = Put(store, j, NewJob)
  /\ UNCHANGED <<upload, temp, gone, submit>>

\* Mutant: the handler removes its file on every way out.
SubmittedRemoves(j) ==
  /\ submit[j] = "accepted"
  /\ Answers(j, "submit", "202")
  /\ temp' = temp \ {j}
  /\ UNCHANGED <<store, upload, gone, submit>>

Submitted(j) ==
  /\ submit[j] = "accepted"
  /\ Answers(j, "submit", "202")
  /\ UNCHANGED <<store, upload, temp, gone, submit>>

Refused(j) ==
  /\ submit[j] \in Refusal
  /\ Goes(j, "submit", "refuse")
  /\ temp' = temp \ {j}
  /\ UNCHANGED <<store, upload, answer, gone, submit>>

\* Mutant: the job is left queued.
RefuseOnly(j) ==
  /\ Answers(j, "refuse", IF submit[j] = "full" THEN "retry" ELSE "503")
  /\ UNCHANGED <<store, upload, temp, gone, submit>>

\* Mutant: the job is marked, the client gets no answer.
RefuseSilently(j) ==
  /\ Goes(j, "refuse", "done")
  /\ store' = IF UpdateOK(store, j, j \in gone)
              THEN Put(store, j, Fail(NewJob, "enqueue")) ELSE store
  /\ UNCHANGED <<upload, answer, temp, gone, submit>>

\* failQueued under the request's context, then the answer.
FailQueued(j) ==
  /\ Answers(j, "refuse", IF submit[j] = "full" THEN "retry" ELSE "503")
  /\ store' = IF UpdateOK(store, j, j \in gone)
              THEN Put(store, j, Fail(NewJob, "enqueue")) ELSE store
  /\ UNCHANGED <<upload, temp, gone, submit>>

Handler(j) ==
  \/ Reject(j) \/ BodyFails(j) \/ SpoolCreates(j) \/ SpoolCreateFails(j)
  \/ SpoolCopies(j) \/ SpoolCopyFails(j) \/ Create(j) \/ CreateFails(j)
  \/ Submitted(j) \/ Refused(j) \/ FailQueued(j)

Disconnect(j) ==
  /\ j \in Active
  /\ gone' = gone \cup {j}
  /\ UNCHANGED <<store, upload, req, answer, temp, submit>>

-----------------------------------------------------------------------------
\* The pool: Submit's outcome, the pipeline's updates, Cleanup.
Decide(j) ==
  /\ req[j] = "submit"
  /\ submit[j] = "idle"
  /\ \E outcome \in {"accepted"} \cup Refusal :
       submit' = [submit EXCEPT ![j] = outcome]
  /\ UNCHANGED <<store, upload, req, answer, temp, gone>>

Becomes(job) == {Start(job)} \cup {Complete(job, n) : n \in Notes}
                \cup {Fail(job, r) : r \in Reason \ {""}}

Work(j) ==
  /\ submit[j] = "accepted"
  /\ j \in temp
  /\ ~Terminal(store[j])
  /\ \E job \in Becomes(store[j]) : store' = Put(store, j, job)
  /\ UNCHANGED <<upload, req, answer, temp, gone, submit>>

Cleanup(j) ==
  /\ submit[j] = "accepted"
  /\ j \in temp
  /\ temp' = temp \ {j}
  /\ UNCHANGED <<store, upload, req, answer, gone, submit>>

Terminated ==
  /\ \A j \in Job : req[j] = "done"
  /\ UNCHANGED ingestVars

Next ==
  \/ \E j \in Job : Arrive(j) \/ Handler(j) \/ Disconnect(j)
                    \/ Decide(j) \/ Work(j) \/ Cleanup(j)
  \/ Terminated

Spec == Init /\ [][Next]_ingestVars

-----------------------------------------------------------------------------
\* Types; a handler has returned exactly when it has answered.
TypeOK ==
  /\ store \in [Job -> JobType \cup {Absent}]
  /\ upload \in [Job -> Uploads \cup {Absent}]
  /\ req \in [Job -> ReqState]
  /\ answer \in [Job -> Answer]
  /\ temp \subseteq Job
  /\ gone \subseteq Job
  /\ submit \in [Job -> {"idle", "accepted"} \cup Refusal]
  /\ \A j \in Job : (req[j] = "done") = (answer[j] # "none")

\* On every path the temporary file has exactly one owner: the handler, from
\* CreateTemp until it hands the task over or removes the file, or the pool,
\* until it runs Cleanup.  A request answered without an accepted task leaves
\* no file behind.
UploadHasOwner ==
  /\ \A j \in temp : req[j] \in {"spool", "create", "submit"}
                     \/ submit[j] = "accepted"
  /\ \A j \in Job : req[j] \in {"spool", "create"}
                    \/ (req[j] = "submit" /\ submit[j] # "accepted") => j \in temp

\* The client is told 202 exactly when the pool took the task, to retry
\* exactly when its buffer was full, and an accepted job can be looked up from
\* then on.
AnswerMatchesPool ==
  \A j \in Job : req[j] = "done" =>
    /\ (answer[j] = "202") = (submit[j] = "accepted")
    /\ (answer[j] = "retry") = (submit[j] = "full")
    /\ (answer[j] = "503") = (submit[j] = "rejected")
    /\ (submit[j] # "idle") = (store[j] # Absent)

\* No file, no job and no task comes of an upload that is not let in, holds
\* nothing, is over the limit or of a type that is not allowed, whichever of
\* its faults is found first.
OnlySoundKept ==
  \A j \in Job : j \in temp \/ store[j] # Absent \/ submit[j] # "idle" =>
    LET u == upload[j] IN
    /\ ~TokenSet \/ "right" \in {u.bearer, u.key}
    /\ u.form = "ok" /\ u.allowed
    /\ u.size \in 1..MaxBytes

\* A client is told what is wrong with its request: a file is only too large if
\* it leaves its form no room under the limit (which a file within the limit
\* itself may do), a type only wrong if the file is not too large, and a caller is
\* never sent away for its token with the right bearer token, nor with the right
\* key, unless it has put a wrong bearer token before it.  A 400 is free to be any
\* fault: a body that breaks off has one whatever it was going to be.
RefusalFitsUpload ==
  \A j \in Job : answer[j] \in Invalid =>
    LET u == upload[j] IN
    /\ answer[j] = "413" => u.size > MaxBytes - FormBytes
    /\ answer[j] = "415" => ~u.allowed /\ u.size \in 1..MaxBytes
    /\ answer[j] = "401" => /\ TokenSet /\ u.bearer # "right"
                            /\ u.key = "right" => u.bearer = "wrong"
    /\ answer[j] # "401" /\ TokenSet => "right" \in {u.bearer, u.key}

\* A refused job whose client stayed connected is settled as failed; nothing
\* else ever touches its record.
RefusedIsSettled ==
  \A j \in Job :
    /\ answer[j] \in {"retry", "503"} /\ j \notin gone => Terminal(store[j])
    /\ submit[j] \in Refusal =>
         store[j] \in {NewJob, Fail(NewJob, "enqueue")}

-----------------------------------------------------------------------------
\* What Submit's and failQueued's comments say of a task the pool refused:
\* "clean up the temp file and mark the job failed", "keeping store state
\* consistent".  The mark uses the request's context, which a disconnected
\* client has cancelled.
RefusedIsMarkedFailed ==
  \A j \in Job :
    answer[j] \in {"retry", "503"} => store[j].status = "failed"
=============================================================================
