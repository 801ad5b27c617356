------------------------------ MODULE JobStore ------------------------------
(***************************************************************************)
(* The job record of internal/domain/job.go and the in-memory store of     *)
(* internal/adapter/memstore/store.go, as operators on their values.  A    *)
(* store is a function from job ids to records, with Absent for a missing  *)
(* key.  Audio metadata and timestamps are left out: no decision reads     *)
(* them.  MemStore has the store's memory, and shows that its methods are  *)
(* these operators.                                                        *)
(***************************************************************************)
EXTENDS Note

CONSTANT Job

Status     == {"queued", "processing", "completed", "failed"}
\* The texts of the stages' errors, and failQueued's own.
StageError == {"transcription", "analysis", "delivery"}
Reason     == {"", "enqueue"} \cup StageError
JobType    == [status : Status, err : Reason, result : NoteType \cup {Absent}]

\* Absent is no record and no note.
ASSUME AbsentAssumption == Absent \notin JobType \cup NoteType

NewJob == [status |-> "queued", err |-> "", result |-> Absent]

Start(job) == [job EXCEPT !.status = "processing"]

\* Mutant: the result is not attached.
CompleteWithoutResult(job, note) ==
  [job EXCEPT !.status = "completed", !.err = ""]

Complete(job, note) ==
  [job EXCEPT !.status = "completed", !.err = "", !.result = note]

\* Mutant: a failure puts the job back in line.
FailRequeues(job, reason) == [job EXCEPT !.status = "queued"]

Fail(job, reason) == [job EXCEPT !.status = "failed", !.err = reason]

-----------------------------------------------------------------------------
\* Every operation begins by looking at its context, and then holds the
\* store's lock to the end: it either fails at once or happens atomically.
CreateOK(store, j, done) == ~done /\ store[j] = Absent
GetOK(store, j, done)    == ~done /\ store[j] # Absent
UpdateOK(store, j, done) == ~done /\ store[j] # Absent

\* Create and Update store a copy of the record, Get returns one.
Clone(job) == IF job.result = Absent THEN job
              ELSE [job EXCEPT !.result = CloneNote(@)]

Put(store, j, job) == [store EXCEPT ![j] = Clone(job)]

\* newStatusResponse: what a poll renders.
StatusResponse(job) ==
  [status |-> job.status, err |-> job.err,
   result |-> IF job.result = Absent THEN Absent ELSE DTO(job.result)]

-----------------------------------------------------------------------------
Terminal(job) == job # Absent /\ job.status \in {"completed", "failed"}

Rank(job) ==
  IF job = Absent THEN 0
  ELSE IF job.status = "queued" THEN 1
  ELSE IF job.status = "processing" THEN 2 ELSE 3

\* A poller never sees a job go back: absent, queued, processing, then one
\* terminal record that is never replaced by another.
NeverGoesBack(old, new) ==
  \/ new = old
  \/ Rank(old) = 0 /\ Rank(new) = 1
  \/ Rank(old) = 1 /\ Rank(new) \in {2, 3}
  \/ Rank(old) = 2 /\ Rank(new) = 3

\* What the status endpoint relies on: a result exactly when completed, a
\* reason exactly when failed.
WellFormed(job) ==
  /\ (job.result # Absent) = (job.status = "completed")
  /\ (job.err = "") = (job.status # "failed")
=============================================================================
