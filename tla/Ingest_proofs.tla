--------------------------- MODULE Ingest_proofs ---------------------------
(***************************************************************************)
(* The handler of one upload, for any jobs, notes, uploads and limits:     *)
(* what its record, its temporary file and the pool's decision are at each *)
(* point of Handlers.Submit, and from it the safety properties of Ingest.  *)
(***************************************************************************)
EXTENDS Ingest, TLAPS

Withdrawn == Fail(NewJob, "enqueue")

\* Nothing has come of the request yet.
Nothing(j) == store[j] = Absent /\ submit[j] = "idle" /\ j \notin temp

\* The upload is one the checks let through.
Sound(j) == upload[j] \in Uploads /\ Verdict(upload[j]) = "ok"

\* A code the checks answer the upload with, or its body broke off.
Faulty(j) ==
  /\ upload[j] \in Uploads
  /\ \/ answer[j] = Verdict(upload[j]) /\ Verdict(upload[j]) # "ok"
     \/ answer[j] = "400" /\ Authorized(upload[j])

\* In Pool.Submit and behind it, until the handler has read its outcome.
Submitting(j) ==
  /\ Sound(j) /\ store[j] # Absent
  /\ submit[j] # "accepted" => j \in temp /\ store[j] = NewJob

RefusedDone(j) ==
  /\ Sound(j) /\ j \notin temp
  /\ answer[j] = IF submit[j] = "full" THEN "retry" ELSE "503"
  /\ store[j] \in {NewJob, Withdrawn}
  /\ j \notin gone => store[j] = Withdrawn

Done(j) ==
  \/ Nothing(j) /\ (answer[j] = "500" \/ Faulty(j))
  \/ submit[j] = "accepted" /\ Sound(j) /\ store[j] # Absent /\ answer[j] = "202"
  \/ submit[j] \in Refusal /\ RefusedDone(j)

\* The request of one job.
Request(j) ==
  /\ req[j] = "none" => Nothing(j)
  /\ req[j] = "validate" => Nothing(j) /\ upload[j] \in Uploads
  /\ req[j] \in {"spool", "create"} =>
       Sound(j) /\ store[j] = Absent /\ submit[j] = "idle" /\ j \in temp
  /\ req[j] = "submit" => Submitting(j)
  /\ req[j] = "refuse" =>
       Sound(j) /\ submit[j] \in Refusal /\ j \notin temp /\ store[j] = NewJob
  /\ req[j] = "done" => Done(j)
  /\ store[j] # Absent => Terminal(store[j]) \/ store[j].result = Absent

IngestInv == TypeOK /\ \A j \in Job : Request(j)

-----------------------------------------------------------------------------
\* The two records the handler writes.
LEMMA HandlerRecords ==
  /\ NewJob \in JobType /\ NewJob # Absent /\ Clone(NewJob) = NewJob
  /\ NewJob.result = Absent /\ NewJob.status = "queued"
  /\ Withdrawn \in JobType /\ Withdrawn # Absent /\ Clone(Withdrawn) = Withdrawn
  /\ Terminal(Withdrawn)
<1>1. /\ NewJob \in JobType /\ NewJob.result = Absent /\ NewJob.status = "queued"
      /\ Withdrawn \in JobType /\ Withdrawn.result = Absent
      /\ Withdrawn.status = "failed"
  BY DEF NewJob, Withdrawn, Fail, JobType, Status, Reason, StageError
<1>2. QED
  BY <1>1, AbsentAssumption DEF Clone, Terminal

\* What the pipeline makes of a record that is not terminal, once stored.
LEMMA PipelineRecords ==
  ASSUME NEW rec \in JobType, rec.result = Absent, NEW new \in Becomes(rec)
  PROVE  /\ Clone(new) \in JobType
         /\ Clone(new) # Absent
         /\ Terminal(Clone(new)) \/ Clone(new).result = Absent
<1>1. CASE new = Start(rec)
  <2>1. new \in JobType /\ new.result = Absent
    BY <1>1 DEF Start, JobType, Status
  <2>2. QED
    BY <2>1, AbsentAssumption DEF Clone
<1>2. ASSUME NEW n \in Notes, new = Complete(rec, n)
      PROVE  Clone(new) \in JobType /\ Clone(new).status = "completed"
  <2>1. n # Absent /\ n \in NoteType /\ CloneNote(n) \in NoteType
    BY AbsentAssumption DEF NoteType
  <2>2. new \in JobType /\ new.result = n /\ new.status = "completed"
    BY <1>2, <2>1 DEF Complete, JobType, Status, Reason, StageError
  <2>3. Clone(new) = [new EXCEPT !.result = CloneNote(n)]
    BY <2>1, <2>2 DEF Clone
  <2>4. QED
    BY <2>1, <2>2, <2>3 DEF JobType
<1>3. ASSUME NEW r \in Reason \ {""}, new = Fail(rec, r)
      PROVE  Clone(new) \in JobType /\ Clone(new).status = "failed"
  <2>1. new \in JobType /\ new.result = Absent /\ new.status = "failed"
    BY <1>3 DEF Fail, JobType, Status, Reason, StageError
  <2>2. QED
    BY <2>1 DEF Clone
<1>4. QED
  BY <1>1, <1>2, <1>3, AbsentAssumption DEF Becomes, Terminal

\* A record that is stored takes its place in the table.
LEMMA Storing ==
  ASSUME NEW j \in Job, NEW rec, Clone(rec) \in JobType, TypeOK,
         store' = Put(store, j, rec)
  PROVE  /\ store' \in [Job -> JobType \cup {Absent}]
         /\ store'[j] = Clone(rec)
         /\ \A k \in Job \ {j} : store'[k] = store[k]
BY DEF Put, TypeOK

\* The checks answer with a code for an invalid request, or let it through.
LEMMA VerdictCodes ==
  ASSUME NEW u
  PROVE  Verdict(u) \in Invalid \cup {"ok"}
BY DEF Verdict, Invalid

-----------------------------------------------------------------------------
\* What another job's step leaves of job k.
Untouched(k) ==
  /\ store'[k] = store[k] /\ upload'[k] = upload[k] /\ req'[k] = req[k]
  /\ answer'[k] = answer[k] /\ submit'[k] = submit[k]
  /\ (k \in temp') = (k \in temp)
  /\ (k \in gone') = (k \in gone)

Advances(j) ==
  /\ TypeOK'
  /\ Request(j)'
  /\ \A k \in Job \ {j} : Untouched(k)

\* The request of another job is as it was.
LEMMA Elsewhere ==
  ASSUME NEW k, Request(k), Untouched(k)
  PROVE  Request(k)'
BY DEF Request, Untouched, Nothing, Sound, Faulty, Submitting, RefusedDone, Done

\* Before the first request.
LEMMA IngestInit == Init => IngestInv
BY DEF Init, IngestInv, TypeOK, ReqState, Answer, Request, Nothing

\* Arrival, the checks of the upload, and the spool.
LEMMA SpoolSteps ==
  ASSUME IngestInv, NEW j \in Job,
         \/ Arrive(j) \/ Reject(j) \/ BodyFails(j) \/ SpoolCreates(j)
         \/ SpoolCreateFails(j) \/ SpoolCopies(j) \/ SpoolCopyFails(j)
  PROVE  Advances(j)
<1> USE DEF IngestInv
<1>0. Request(j) /\ j \in Job
  OBVIOUS
<1>1. CASE Arrive(j)
  <2>1. TypeOK'
    BY <1>1 DEF Arrive, Goes, TypeOK, ReqState
  <2>2. Request(j)'
    BY <1>0, <1>1 DEF Arrive, Goes, TypeOK, Request, Nothing
  <2>3. QED
    BY <1>1, <2>1, <2>2 DEF Arrive, Goes, TypeOK, Advances, Untouched
<1>2. CASE Reject(j)
  <2>1. Verdict(upload[j]) \in Invalid
    BY <1>2, VerdictCodes DEF Reject
  <2>2. TypeOK'
    BY <1>2, <2>1 DEF Reject, Answers, Goes, TypeOK, ReqState, Answer, Invalid
  <2>3. Request(j)'
    BY <1>0, <1>2 DEF Reject, Answers, Goes, TypeOK, Request, Nothing, Done, Faulty
  <2>4. QED
    BY <1>2, <2>2, <2>3 DEF Reject, Answers, Goes, TypeOK, Advances, Untouched
<1>3. CASE BodyFails(j)
  <2>1. TypeOK'
    BY <1>3 DEF BodyFails, Answers, Goes, TypeOK, ReqState, Answer, Invalid
  <2>2. Request(j)'
    BY <1>0, <1>3 DEF BodyFails, Answers, Goes, TypeOK, Request, Nothing, Done, Faulty
  <2>3. QED
    BY <1>3, <2>1, <2>2 DEF BodyFails, Answers, Goes, TypeOK, Advances, Untouched
<1>4. CASE SpoolCreates(j)
  <2>1. TypeOK'
    BY <1>4 DEF SpoolCreates, Goes, TypeOK, ReqState
  <2>2. Request(j)'
    BY <1>0, <1>4 DEF SpoolCreates, Goes, TypeOK, Request, Nothing, Sound
  <2>3. QED
    BY <1>4, <2>1, <2>2 DEF SpoolCreates, Goes, TypeOK, Advances, Untouched
<1>5. CASE SpoolCreateFails(j)
  <2>1. TypeOK'
    BY <1>5 DEF SpoolCreateFails, Answers, Goes, TypeOK, ReqState, Answer
  <2>2. Request(j)'
    BY <1>0, <1>5 DEF SpoolCreateFails, Answers, Goes, TypeOK, Request, Nothing, Done
  <2>3. QED
    BY <1>5, <2>1, <2>2 DEF SpoolCreateFails, Answers, Goes, TypeOK, Advances, Untouched
<1>6. CASE SpoolCopies(j)
  <2>1. TypeOK'
    BY <1>6 DEF SpoolCopies, Goes, TypeOK, ReqState
  <2>2. Request(j)'
    BY <1>0, <1>6 DEF SpoolCopies, Goes, TypeOK, Request, Sound
  <2>3. QED
    BY <1>6, <2>1, <2>2 DEF SpoolCopies, Goes, TypeOK, Advances, Untouched
<1>7. CASE SpoolCopyFails(j)
  <2>1. TypeOK'
    BY <1>7 DEF SpoolCopyFails, Answers, Goes, TypeOK, ReqState, Answer
  <2>2. Request(j)'
    BY <1>0, <1>7 DEF SpoolCopyFails, Answers, Goes, TypeOK, Request, Nothing, Done
  <2>3. QED
    BY <1>7, <2>1, <2>2 DEF SpoolCopyFails, Answers, Goes, TypeOK, Advances, Untouched
<1>8. QED
  BY <1>1, <1>2, <1>3, <1>4, <1>5, <1>6, <1>7

\* Create, and what the handler makes of the pool's decision.
LEMMA SubmitSteps ==
  ASSUME IngestInv, NEW j \in Job,
         \/ Create(j) \/ CreateFails(j) \/ Submitted(j) \/ Refused(j) \/ FailQueued(j)
  PROVE  Advances(j)
<1> USE DEF IngestInv
<1>0. Request(j) /\ j \in Job
  OBVIOUS
<1>1. CASE Create(j)
  <2>1. /\ store' \in [Job -> JobType \cup {Absent}] /\ store'[j] = NewJob
        /\ \A k \in Job \ {j} : store'[k] = store[k]
    BY <1>1, HandlerRecords, Storing DEF Create
  <2>2. TypeOK'
    BY <1>1, <2>1 DEF Create, Goes, TypeOK, ReqState
  <2>3. Request(j)'
    BY <1>0, <1>1, <2>1, HandlerRecords DEF Create, Goes, TypeOK, Request, Sound, Submitting
  <2>4. QED
    BY <1>1, <2>1, <2>2, <2>3 DEF Create, Goes, TypeOK, Advances, Untouched
<1>2. CASE CreateFails(j)
  <2>1. TypeOK'
    BY <1>2 DEF CreateFails, Answers, Goes, TypeOK, ReqState, Answer
  <2>2. Request(j)'
    BY <1>0, <1>2 DEF CreateFails, Answers, Goes, TypeOK, Request, Nothing, Done
  <2>3. QED
    BY <1>2, <2>1, <2>2 DEF CreateFails, Answers, Goes, TypeOK, Advances, Untouched
<1>3. CASE Submitted(j)
  <2>1. TypeOK'
    BY <1>3 DEF Submitted, Answers, Goes, TypeOK, ReqState, Answer
  <2>2. Request(j)'
    BY <1>0, <1>3 DEF Submitted, Answers, Goes, TypeOK, Request, Sound, Submitting, Done
  <2>3. QED
    BY <1>3, <2>1, <2>2 DEF Submitted, Answers, Goes, TypeOK, Advances, Untouched
<1>4. CASE Refused(j)
  <2>1. TypeOK'
    BY <1>4 DEF Refused, Goes, TypeOK, ReqState
  <2>2. Request(j)'
    BY <1>0, <1>4 DEF Refused, Goes, TypeOK, Request, Sound, Submitting, Refusal
  <2>3. QED
    BY <1>4, <2>1, <2>2 DEF Refused, Goes, TypeOK, Advances, Untouched
<1>5. CASE FailQueued(j)
  <2>1. store[j] = NewJob /\ submit[j] \in Refusal /\ j \notin temp /\ Sound(j)
    BY <1>0, <1>5 DEF FailQueued, Answers, Goes, Request
  <2>2. /\ store' \in [Job -> JobType \cup {Absent}]
        /\ store'[j] = IF j \in gone THEN NewJob ELSE Withdrawn
        /\ \A k \in Job \ {j} : store'[k] = store[k]
    <3>1. CASE j \in gone
      BY <1>5, <2>1, <3>1 DEF FailQueued, UpdateOK, TypeOK
    <3>2. CASE j \notin gone
      <4>1. store' = Put(store, j, Withdrawn)
        BY <1>5, <2>1, <3>2, HandlerRecords DEF FailQueued, UpdateOK, Withdrawn
      <4>2. QED
        BY <3>2, <4>1, HandlerRecords, Storing
    <3>3. QED
      BY <3>1, <3>2
  <2>3. TypeOK'
    BY <1>5, <2>2 DEF FailQueued, Answers, Goes, TypeOK, ReqState, Answer
  <2>4. Done(j)'
    BY <1>5, <2>1, <2>2 DEF FailQueued, Answers, Goes, TypeOK, Done, RefusedDone, Sound
  <2>5. Request(j)'
    BY <1>5, <2>2, <2>4, HandlerRecords DEF FailQueued, Answers, Goes, TypeOK, Request
  <2>6. QED
    BY <1>5, <2>2, <2>3, <2>5 DEF FailQueued, Answers, Goes, TypeOK, Advances, Untouched
<1>6. QED
  BY <1>1, <1>2, <1>3, <1>4, <1>5

\* The client's disconnect, the pool's decision, its work and its cleanup.
LEMMA EnvironmentSteps ==
  ASSUME IngestInv, NEW j \in Job,
         Disconnect(j) \/ Decide(j) \/ Work(j) \/ Cleanup(j)
  PROVE  Advances(j)
<1> USE DEF IngestInv
<1>0. Request(j) /\ req[j] \in ReqState
  BY DEF TypeOK
<1>1. CASE Disconnect(j)
  <2>1. TypeOK'
    BY <1>1 DEF Disconnect, TypeOK
  <2>2. Request(j)'
    BY <1>0, <1>1 DEF Disconnect, Active, Request, Nothing, Sound, Submitting
  <2>3. QED
    BY <1>1, <2>1, <2>2 DEF Disconnect, Advances, Untouched
<1>2. CASE Decide(j)
  <2>1. PICK outcome \in {"accepted"} \cup Refusal :
          submit' = [submit EXCEPT ![j] = outcome]
    BY <1>2 DEF Decide
  <2>2. TypeOK'
    BY <1>2, <2>1 DEF Decide, TypeOK
  <2>3. Request(j)'
    BY <1>0, <1>2, <2>1 DEF Decide, TypeOK, Request, Sound, Submitting
  <2>4. QED
    BY <1>2, <2>1, <2>2, <2>3 DEF Decide, TypeOK, Advances, Untouched
<1>3. ASSUME submit[j] = "accepted", j \in temp
      PROVE  req[j] \in {"submit", "done"} /\ Sound(j) /\ store[j] # Absent
             /\ (req[j] = "done" => answer[j] = "202")
  BY <1>0, <1>3 DEF Request, ReqState, Nothing, Submitting, Done, Refusal
<1>4. CASE Work(j)
  <2>1. PICK rec \in Becomes(store[j]) : store' = Put(store, j, rec)
    BY <1>4 DEF Work
  <2>2. store[j] \in JobType /\ store[j].result = Absent
    BY <1>0, <1>3, <1>4 DEF Work, Request, TypeOK
  <2>3. /\ store' \in [Job -> JobType \cup {Absent}] /\ store'[j] # Absent
        /\ Terminal(store'[j]) \/ store'[j].result = Absent
        /\ \A k \in Job \ {j} : store'[k] = store[k]
    BY <2>1, <2>2, PipelineRecords, Storing
  <2>4. TypeOK'
    BY <1>4, <2>3 DEF Work, TypeOK
  <2>5. Request(j)'
    BY <1>3, <1>4, <2>3 DEF Work, Request, Sound, Submitting, Done
  <2>6. QED
    BY <1>4, <2>3, <2>4, <2>5 DEF Work, Advances, Untouched
<1>5. CASE Cleanup(j)
  <2>1. TypeOK'
    BY <1>5 DEF Cleanup, TypeOK
  <2>2. Request(j)'
    BY <1>0, <1>3, <1>5 DEF Cleanup, Request, Sound, Submitting, Done
  <2>3. QED
    BY <1>5, <2>1, <2>2 DEF Cleanup, Advances, Untouched
<1>6. QED
  BY <1>1, <1>2, <1>4, <1>5

\* Every step keeps every request.
LEMMA IngestStep == IngestInv /\ [Next]_ingestVars => IngestInv'
<1> SUFFICES ASSUME IngestInv, [Next]_ingestVars PROVE IngestInv'
  OBVIOUS
<1>1. ASSUME NEW j \in Job, Advances(j) PROVE IngestInv'
  <2>1. ASSUME NEW k \in Job PROVE Request(k)'
    <3>1. CASE k = j
      BY <1>1, <3>1 DEF Advances
    <3>2. CASE k # j
      <4>1. Request(k) /\ Untouched(k)
        BY <1>1, <3>2 DEF IngestInv, Advances
      <4>2. QED
        BY <4>1, Elsewhere
    <3>3. QED
      BY <3>1, <3>2
  <2>2. QED
    BY <1>1, <2>1 DEF IngestInv, Advances
<1>2. ASSUME NEW j \in Job,
             Arrive(j) \/ Handler(j) \/ Disconnect(j) \/ Decide(j) \/ Work(j) \/ Cleanup(j)
      PROVE  IngestInv'
  <2>1. Advances(j)
    BY <1>2, SpoolSteps, SubmitSteps, EnvironmentSteps DEF Handler
  <2>2. QED
    BY <1>1, <2>1
<1>3. CASE UNCHANGED ingestVars
  <2>1. TypeOK'
    BY <1>3 DEF ingestVars, IngestInv, TypeOK
  <2>2. ASSUME NEW k \in Job PROVE Request(k)'
    <3>1. Request(k) /\ Untouched(k)
      BY <1>3 DEF ingestVars, IngestInv, Untouched
    <3>2. QED
      BY <3>1, Elsewhere
  <2>3. QED
    BY <2>1, <2>2 DEF IngestInv
<1>4. QED
  BY <1>2, <1>3 DEF Next, Terminated

\* The request invariant holds in every state of Ingest.
LEMMA IngestHolds == Spec => []IngestInv
BY IngestInit, IngestStep, PTL DEF Spec

-----------------------------------------------------------------------------
\* The handler's state is well typed, and it has returned exactly when it has
\* answered.
THEOREM IngestTyped == Spec => []TypeOK
<1>1. IngestInv => TypeOK
  BY DEF IngestInv
<1>2. QED
  BY <1>1, IngestHolds, PTL

\* On every path through Submit the temporary file has exactly one owner.
THEOREM FileHasOwner == Spec => []UploadHasOwner
<1>1. ASSUME IngestInv PROVE UploadHasOwner
  <2>1. ASSUME NEW j \in temp
        PROVE  req[j] \in {"spool", "create", "submit"} \/ submit[j] = "accepted"
    <3>1. j \in Job /\ req[j] \in ReqState
      BY <1>1 DEF IngestInv, TypeOK
    <3>2. QED
      BY <1>1, <3>1 DEF IngestInv, ReqState, Request, Nothing, Done, RefusedDone
  <2>2. ASSUME NEW j \in Job,
               \/ req[j] \in {"spool", "create"}
               \/ req[j] = "submit" /\ submit[j] # "accepted"
        PROVE  j \in temp
    BY <1>1, <2>2 DEF IngestInv, Request, Submitting
  <2>3. QED
    BY <2>1, <2>2 DEF UploadHasOwner
<1>2. QED
  BY <1>1, IngestHolds, PTL

\* The answer tells what the pool decided, and a job that reached the pool is
\* in the store.
THEOREM AnswerIsPools == Spec => []AnswerMatchesPool
<1>1. ASSUME IngestInv PROVE AnswerMatchesPool
  <2> SUFFICES ASSUME NEW j \in Job, req[j] = "done"
               PROVE  /\ (answer[j] = "202") = (submit[j] = "accepted")
                      /\ (answer[j] = "retry") = (submit[j] = "full")
                      /\ (answer[j] = "503") = (submit[j] = "rejected")
                      /\ (submit[j] # "idle") = (store[j] # Absent)
    BY DEF AnswerMatchesPool
  <2>1. Done(j)
    BY <1>1 DEF IngestInv, Request
  <2>2. CASE Nothing(j) /\ (answer[j] = "500" \/ Faulty(j))
    <3>1. answer[j] \in {"500", "400", "401", "413", "415"}
      BY <2>2, VerdictCodes DEF Faulty, Invalid
    <3>2. QED
      BY <2>2, <3>1 DEF Nothing
  <2>3. CASE submit[j] = "accepted" /\ store[j] # Absent /\ answer[j] = "202"
    BY <2>3
  <2>4. CASE submit[j] \in Refusal /\ RefusedDone(j)
    BY <2>4, HandlerRecords DEF Refusal, RefusedDone
  <2>5. QED
    BY <2>1, <2>2, <2>3, <2>4 DEF Done
<1>2. QED
  BY <1>1, IngestHolds, PTL

\* A refused job is settled unless its client has gone, and nobody but the
\* handler touches it.
THEOREM RefusalSettles == Spec => []RefusedIsSettled
<1>1. ASSUME IngestInv PROVE RefusedIsSettled
  <2> SUFFICES ASSUME NEW j \in Job
               PROVE  /\ answer[j] \in {"retry", "503"} /\ j \notin gone
                           => Terminal(store[j])
                      /\ submit[j] \in Refusal => store[j] \in {NewJob, Withdrawn}
    BY DEF RefusedIsSettled, Withdrawn
  <2>1. Request(j) /\ req[j] \in ReqState
    BY <1>1 DEF IngestInv, TypeOK
  <2>2. ASSUME answer[j] \in {"retry", "503"}, j \notin gone
        PROVE  Terminal(store[j])
    <3>1. req[j] = "done" /\ Done(j)
      BY <1>1, <2>1, <2>2 DEF IngestInv, TypeOK, Request
    <3>2. ~Faulty(j)
      BY <2>2, VerdictCodes DEF Faulty, Invalid
    <3>3. QED
      BY <2>2, <3>1, <3>2, HandlerRecords DEF Done, RefusedDone
  <2>3. ASSUME submit[j] \in Refusal PROVE store[j] \in {NewJob, Withdrawn}
    BY <2>1, <2>3 DEF ReqState, Refusal, Request, Nothing, Submitting, Done, RefusedDone
  <2>4. QED
    BY <2>2, <2>3
<1>2. QED
  BY <1>1, IngestHolds, PTL

\* Nothing is kept of an upload with a fault, whichever is found first.
THEOREM SoundUploadsOnly == Spec => []OnlySoundKept
<1>1. ASSUME IngestInv PROVE OnlySoundKept
  <2> SUFFICES ASSUME NEW j \in Job, j \in temp \/ store[j] # Absent \/ submit[j] # "idle"
               PROVE  /\ ~TokenSet \/ "right" \in {upload[j].bearer, upload[j].key}
                      /\ upload[j].form = "ok" /\ upload[j].allowed
                      /\ upload[j].size \in 1..MaxBytes
    BY DEF OnlySoundKept
  <2>1. Sound(j)
    BY <1>1 DEF IngestInv, TypeOK, ReqState, Request, Nothing, Submitting, Done, RefusedDone
  <2>2. upload[j] \in UploadType
    BY <2>1, UploadAssumption DEF Sound
  <2>3. QED
    BY <2>1, <2>2, UploadAssumption
    DEF Sound, UploadType, Token, Verdict, Authorized, Presented
<1>2. QED
  BY <1>1, IngestHolds, PTL

\* An answer to a faulty request names a fault it has.
THEOREM RefusalsFit == Spec => []RefusalFitsUpload
<1>1. ASSUME IngestInv PROVE RefusalFitsUpload
  <2> SUFFICES ASSUME NEW j \in Job, answer[j] \in Invalid
               PROVE  LET u == upload[j] IN
                      /\ answer[j] = "413" => u.size > MaxBytes - FormBytes
                      /\ answer[j] = "415" => ~u.allowed /\ u.size \in 1..MaxBytes
                      /\ answer[j] = "401" => /\ TokenSet /\ u.bearer # "right"
                                              /\ u.key = "right" => u.bearer = "wrong"
                      /\ answer[j] # "401" /\ TokenSet => "right" \in {u.bearer, u.key}
    BY DEF RefusalFitsUpload
  <2>1. Faulty(j)
    <3>1. req[j] = "done"
      BY <1>1 DEF IngestInv, TypeOK, Invalid
    <3>2. QED
      BY <1>1, <3>1 DEF IngestInv, Request, Done, RefusedDone, Invalid
  <2>2. upload[j] \in UploadType
    BY <2>1, UploadAssumption DEF Faulty
  <2>3. QED
    BY <2>1, <2>2, UploadAssumption
    DEF Faulty, UploadType, Token, Verdict, Authorized, Presented
<1>2. QED
  BY <1>1, IngestHolds, PTL
=============================================================================
