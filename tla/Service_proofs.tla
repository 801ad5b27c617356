--------------------------- MODULE Service_proofs ---------------------------
(***************************************************************************)
(* The safety of the whole service, for any jobs, workers, capacity and    *)
(* uploads.  It is put together from the proofs about the components: each *)
(* step of the service is a step of the pool, of the processor and of the  *)
(* handler as their modules specify them (or leaves them alone), so their  *)
(* invariants hold of the service, and Linked relates them to each other.  *)
(***************************************************************************)
EXTENDS Service, TLAPS

PoolP == INSTANCE WorkerPool_proofs WITH Closer <- {Main}
ProcP == INSTANCE Processor_proofs WITH running <- Running, ctxDone <- Expired
HttpP == INSTANCE Ingest_proofs WITH submit <- Outcome

-----------------------------------------------------------------------------
(***************************************************************************)
(* The instances above are the components of Service over again, with what *)
(* is proved about them.                                                   *)
(***************************************************************************)
\* What the components assume of their constants.
LEMMA Assumptions ==
  /\ PoolP!PoolAssumption
  /\ ProcP!NoteAssumption /\ ProcP!AbsentAssumption
  /\ HttpP!NoteAssumption /\ HttpP!AbsentAssumption /\ HttpP!UploadAssumption
<1>1. PoolP!PoolAssumption
  BY ServiceAssumption DEF Pool!PoolAssumption, PoolP!PoolAssumption
<1>2. ProcP!AbsentAssumption
  BY ServiceAssumption
  DEF Proc!AbsentAssumption, ProcP!AbsentAssumption, Proc!JobType,
      ProcP!JobType, Proc!Status, ProcP!Status, Proc!Reason, ProcP!Reason,
      Proc!StageError, ProcP!StageError,
      Proc!NoteType, ProcP!NoteType, Proc!CloneNote, ProcP!CloneNote,
      Proc!NilIfEmpty, ProcP!NilIfEmpty, Proc!Notes, ProcP!Notes,
      Proc!Analysis, ProcP!Analysis, Proc!ToDomain, ProcP!ToDomain,
      Proc!Trimmed, ProcP!Trimmed, Proc!Trim, ProcP!Trim,
      Proc!Only, ProcP!Only, Proc!Kept, ProcP!Kept, Proc!Text, ProcP!Text,
      Proc!Item, ProcP!Item
<1>3. HttpP!AbsentAssumption
  BY ServiceAssumption
  DEF Proc!AbsentAssumption, HttpP!AbsentAssumption, Proc!JobType,
      HttpP!JobType, Proc!Status, HttpP!Status, Proc!Reason, HttpP!Reason,
      Proc!StageError, HttpP!StageError,
      Proc!NoteType, HttpP!NoteType, Proc!CloneNote, HttpP!CloneNote,
      Proc!NilIfEmpty, HttpP!NilIfEmpty, Proc!Notes, HttpP!Notes,
      Proc!Analysis, HttpP!Analysis, Proc!ToDomain, HttpP!ToDomain,
      Proc!Trimmed, HttpP!Trimmed, Proc!Trim, HttpP!Trim,
      Proc!Only, HttpP!Only, Proc!Kept, HttpP!Kept, Proc!Text, HttpP!Text,
      Proc!Item, HttpP!Item
<1>4. HttpP!UploadAssumption
  BY ServiceAssumption DEF HTTP!UploadAssumption, HttpP!UploadAssumption,
     HTTP!UploadType, HttpP!UploadType, HTTP!Token, HttpP!Token
<1>5. ProcP!NoteAssumption /\ HttpP!NoteAssumption
  BY ServiceAssumption
  DEF Proc!NoteAssumption, ProcP!NoteAssumption, HttpP!NoteAssumption,
      Proc!Text, ProcP!Text, HttpP!Text, Proc!Item, ProcP!Item, HttpP!Item
<1>6. QED
  BY <1>1, <1>2, <1>3, <1>4, <1>5

\* The pool's actions.
LEMMA SamePool == Pool!Next <=> PoolP!Next
BY DEF Pool!Next, PoolP!Next, Pool!SubmitAction, PoolP!SubmitAction,
       Pool!ShutdownAction, PoolP!ShutdownAction, Pool!WorkerAction,
       PoolP!WorkerAction, Pool!SubmitRLock, PoolP!SubmitRLock,
       Pool!SubmitProceeds, PoolP!SubmitProceeds, Pool!SubmitChecksClosed,
       PoolP!SubmitChecksClosed, Pool!SubmitSends, PoolP!SubmitSends,
       Pool!SubmitDefault, PoolP!SubmitDefault, Pool!SubmitSteps,
       PoolP!SubmitSteps, Pool!ShutdownLocks, PoolP!ShutdownLocks,
       Pool!ShutdownProceeds, PoolP!ShutdownProceeds, Pool!ShutdownAgain,
       PoolP!ShutdownAgain, Pool!ShutdownCloses, PoolP!ShutdownCloses,
       Pool!ShutdownDrained, PoolP!ShutdownDrained, Pool!ShutdownGraceOver,
       PoolP!ShutdownGraceOver, Pool!ShutdownUnwound, PoolP!ShutdownUnwound,
       Pool!CloserSteps, PoolP!CloserSteps, Pool!GraceExpires,
       PoolP!GraceExpires, Pool!Receive, PoolP!Receive, Pool!Exit, PoolP!Exit,
       Pool!Deadline, PoolP!Deadline, Pool!ProcessReturns,
       PoolP!ProcessReturns, Pool!Cleanup, PoolP!Cleanup, Pool!Terminated,
       PoolP!Terminated, Pool!Readers, PoolP!Readers, Pool!Writers,
       PoolP!Writers, Pool!AllExited, PoolP!AllExited, Pool!submitVars,
       PoolP!submitVars, Pool!closeVars, PoolP!closeVars, Pool!workVars,
       PoolP!workVars, Pool!poolVars, PoolP!poolVars

\* Process.
LEMMA SameProcess == ASSUME NEW j PROVE Proc!Process(j) <=> ProcP!Process(j)
BY DEF Proc!Process, ProcP!Process, Proc!Load, ProcP!Load, Proc!LoadFails,
       ProcP!LoadFails, Proc!Mark, ProcP!Mark, Proc!MarkFails,
       ProcP!MarkFails, Proc!Goes, ProcP!Goes, Proc!Copies, ProcP!Copies,
       Proc!Transcribe, ProcP!Transcribe, Proc!TranscribeFails,
       ProcP!TranscribeFails, Proc!Analyze, ProcP!Analyze, Proc!AnalyzeFails,
       ProcP!AnalyzeFails, Proc!Succeeds, ProcP!Succeeds, Proc!Fails,
       ProcP!Fails, Proc!Deliver, ProcP!Deliver, Proc!DeliverFails,
       ProcP!DeliverFails, Proc!Persist, ProcP!Persist, Proc!CompletePersists,
       ProcP!CompletePersists, Proc!FailPersists, ProcP!FailPersists,
       Proc!PersistFails, ProcP!PersistFails, Proc!GetOK, ProcP!GetOK,
       Proc!UpdateOK, ProcP!UpdateOK, Proc!Start, ProcP!Start, Proc!Fail,
       ProcP!Fail, Proc!Complete, ProcP!Complete, Proc!Put, ProcP!Put,
       Proc!Clone, ProcP!Clone, Proc!CloneNote, ProcP!CloneNote,
       Proc!NilIfEmpty, ProcP!NilIfEmpty, Proc!Row, ProcP!Row, Proc!Line,
       ProcP!Line, Proc!Text, ProcP!Text, Proc!Transcript, ProcP!Transcript,
       Proc!Trim, ProcP!Trim, Proc!Analysis, ProcP!Analysis, Proc!ToDomain,
       ProcP!ToDomain, Proc!Trimmed, ProcP!Trimmed, Proc!Only, ProcP!Only,
       Proc!Kept, ProcP!Kept, Proc!Item, ProcP!Item

\* The handler.
LEMMA SameHandler == ASSUME NEW j PROVE HTTP!Handler(j) <=> HttpP!Handler(j)
BY DEF HTTP!Handler, HttpP!Handler, HTTP!Reject, HttpP!Reject, HTTP!BodyFails,
       HttpP!BodyFails, HTTP!SpoolCreates, HttpP!SpoolCreates,
       HTTP!SpoolCreateFails, HttpP!SpoolCreateFails, HTTP!SpoolCopies,
       HttpP!SpoolCopies, HTTP!SpoolCopyFails, HttpP!SpoolCopyFails,
       HTTP!Create, HttpP!Create, HTTP!CreateFails, HttpP!CreateFails,
       HTTP!Submitted, HttpP!Submitted, HTTP!Refused, HttpP!Refused,
       HTTP!FailQueued, HttpP!FailQueued, HTTP!Answers, HttpP!Answers,
       HTTP!Goes, HttpP!Goes, HTTP!Verdict, HttpP!Verdict, HTTP!Authorized,
       HttpP!Authorized, HTTP!Presented, HttpP!Presented, HTTP!CreateOK,
       HttpP!CreateOK, HTTP!UpdateOK, HttpP!UpdateOK, HTTP!NewJob,
       HttpP!NewJob, HTTP!Fail, HttpP!Fail, HTTP!Put, HttpP!Put, HTTP!Clone,
       HttpP!Clone, HTTP!CloneNote, HttpP!CloneNote, HTTP!NilIfEmpty,
       HttpP!NilIfEmpty, HTTP!Refusal, HttpP!Refusal

\* The records of the processor and of the handler.
LEMMA SameRecords ==
  /\ ProcP!NewJob = HttpP!NewJob
  /\ ProcP!Notes = HttpP!Notes
  /\ \A rec : ProcP!Start(rec) = HttpP!Start(rec)
  /\ \A rec, n : ProcP!Complete(rec, n) = HttpP!Complete(rec, n)
  /\ \A rec, r : ProcP!Fail(rec, r) = HttpP!Fail(rec, r)
  /\ \A table, j, rec : ProcP!Put(table, j, rec) = HttpP!Put(table, j, rec)
  /\ \A rec : ProcP!Terminal(rec) <=> HttpP!Terminal(rec)
BY DEF ProcP!NewJob, HttpP!NewJob, ProcP!Start, HttpP!Start, ProcP!Complete,
       HttpP!Complete, ProcP!Fail, HttpP!Fail, ProcP!Put, HttpP!Put,
       ProcP!Terminal, HttpP!Terminal, ProcP!Clone, HttpP!Clone,
       ProcP!CloneNote, HttpP!CloneNote, ProcP!NilIfEmpty, HttpP!NilIfEmpty,
       ProcP!Notes, HttpP!Notes, ProcP!Analysis, HttpP!Analysis,
       ProcP!ToDomain, HttpP!ToDomain, ProcP!Trimmed, HttpP!Trimmed,
       ProcP!Trim, HttpP!Trim, ProcP!Only, HttpP!Only, ProcP!Kept, HttpP!Kept,
       ProcP!Text, HttpP!Text, ProcP!Item, HttpP!Item

\* The components' invariants are kept by their steps.
LEMMA PoolInvStep ==
  ASSUME PoolP!PoolInv, [PoolP!Next]_(PoolP!poolVars)
  PROVE  PoolP!PoolInv'
BY Assumptions, PoolP!PoolStep

\* The pipeline keeps its records.
LEMMA ProcInvStep ==
  ASSUME ProcP!PipelineInv, [ProcP!Next]_(ProcP!procVars)
  PROVE  ProcP!PipelineInv'
BY Assumptions, ProcP!PipelineStep

\* The handler keeps track of its files.
LEMMA HttpInvStep ==
  ASSUME HttpP!IngestInv, [HttpP!Next]_(HttpP!ingestVars)
  PROVE  HttpP!IngestInv'
BY Assumptions, HttpP!IngestStep
-----------------------------------------------------------------------------
(***************************************************************************)
(* How the components' states are related.                                 *)
(***************************************************************************)
Waiting(j) == \E i \in DOMAIN queue : queue[i] = j

Abandoned(j) == j \in timedOut \/ closer[Main] \in {"aborting", "err"}

\* The pipeline of a job starts when a worker takes its task, and its file
\* lives as long as the task; a failure that is not in the store has an excuse.
Linked(j) ==
  /\ stage[j] # "load" => submit[j] = "accepted" /\ ~Waiting(j)
  /\ Waiting(j) => store[j] = ProcP!NewJob
  /\ submit[j] = "accepted" => (j \in temp) = (j \notin finished)
  /\ j \in finished => stage[j] \in {"ok", "error"}
  /\ stage[j] = "error" => ProcP!Terminal(store[j]) \/ Abandoned(j)

\* A worker past Process has its result; main cancels after a drain or a grace
\* period, and exits after pool.Shutdown.
Ending ==
  /\ \A w \in Worker : worker[w] = "returned" => stage[task[w]] \in {"ok", "error"}
  /\ baseCancelled => closer[Main] \in {"aborting", "err", "nil"}
  /\ closer[Main] \in {"aborting", "err"} => Main \in graceOver
  /\ phase = "stopped" => closer[Main] \in {"err", "nil"}

ComponentInv == PoolP!PoolInv /\ ProcP!PipelineInv /\ HttpP!IngestInv

ServiceInv == ComponentInv /\ Ending /\ \A j \in Job : Linked(j)

\* A step as the processor and the handler see it.
Maps == [ProcP!Next]_(ProcP!procVars) /\ [HttpP!Next]_(HttpP!ingestVars)

-----------------------------------------------------------------------------
\* What the components read of the pool.
LEMMA Views ==
  /\ worker' = worker /\ task' = task => Running' = Running
  /\ baseCancelled' = baseCancelled /\ timedOut' = timedOut => Expired' = Expired
  /\ submit' = submit => Outcome' = Outcome
BY DEF Running, Expired, Pool!CtxDone, Outcome

\* Every step of the service is one of the pool or leaves it alone.
LEMMA PoolMaps ==
  ASSUME [Next]_vars
  PROVE  UNCHANGED Pool!poolVars \/ Pool!Next
<1> USE DEF Pool!poolVars
<1>1. ASSUME NEW j \in Job, Submit(j) PROVE Pool!Next
  BY <1>1 DEF Submit, Pool!Next
<1>2. ASSUME NEW j \in Job, Arrive(j) \/ Disconnect(j) \/ Handle(j) \/ Process(j)
      PROVE  UNCHANGED Pool!poolVars
  BY <1>2 DEF Arrive, Disconnect, Handle, Process, poolVars
<1>3. ASSUME NEW w \in Worker,
             WorkerMoves(w) \/ Deadline(w) \/ ProcessReturns(w) \/ Cleanup(w)
      PROVE  Pool!Next
  BY <1>3 DEF WorkerMoves, Deadline, ProcessReturns, Cleanup, Pool!Next, Pool!WorkerAction
<1>4. CASE GraceExpires \/ PoolShutdown
  BY <1>4 DEF GraceExpires, PoolShutdown, Pool!Next, Pool!ShutdownAction
<1>5. CASE Signal \/ ListenerFails \/ ServerShutdown \/ Exit
  BY <1>5 DEF Signal, ListenerFails, ServerShutdown, Exit, poolVars
<1>6. CASE UNCHANGED vars
  BY <1>6 DEF vars, poolVars
<1>7. QED
  BY <1>1, <1>2, <1>3, <1>4, <1>5, <1>6 DEF Next, Terminated

\* A task that a worker is at is accepted, unfinished and nobody else's.
LEMMA RunningTasks ==
  ASSUME PoolP!PoolInv, NEW j \in Running
  PROVE  /\ j \in Job /\ submit[j] = "accepted" /\ j \notin finished /\ ~Waiting(j)
         /\ \E w \in Worker : worker[w] = "running" /\ task[w] = j
         /\ \A w \in Worker : task[w] = j => worker[w] = "running"
         /\ ~PoolP!AllExited
<1>1. PICK w \in Worker : worker[w] = "running" /\ task[w] = j
  BY DEF Running
<1>2. j \in Job /\ task[w] # None
  BY <1>1, Assumptions DEF PoolP!PoolInv, PoolP!TypeOK, PoolP!Holding
<1>3. submit[j] = "accepted" /\ j \notin finished /\ ~Waiting(j)
  BY <1>1, <1>2 DEF PoolP!PoolInv, PoolP!Placement, Waiting
<1>4. \A v \in Worker : task[v] = j => v = w
  BY <1>1, <1>2 DEF PoolP!PoolInv, PoolP!Placement
<1>5. QED
  BY <1>1, <1>2, <1>3, <1>4 DEF PoolP!AllExited

\* A context ends by its deadline, or under a Shutdown that has given up.
LEMMA ExpiredTasks ==
  ASSUME PoolP!PoolInv, Ending, NEW j \in Running, j \in Expired
  PROVE  Abandoned(j)
<1>1. ~PoolP!AllExited
  BY RunningTasks
<1>2. closer[Main] # "nil"
  BY <1>1 DEF PoolP!PoolInv, PoolP!Ending
<1>3. QED
  BY <1>2 DEF Expired, Pool!CtxDone, Abandoned, Ending

-----------------------------------------------------------------------------
\* Requests: Arrive, Disconnect and the handler's steps.
LEMMA RequestMaps ==
  ASSUME ServiceInv, NEW j \in Job, Arrive(j) \/ Disconnect(j) \/ Handle(j)
  PROVE  Maps
<1> USE DEF ServiceInv, ComponentInv
<1>1. /\ UNCHANGED <<Running, Expired, Outcome>>
      /\ UNCHANGED <<stage, job, note, rows>>
  BY Views DEF Arrive, Disconnect, Handle, poolVars, procVars
<1>2. HttpP!Arrive(j) \/ HttpP!Disconnect(j) \/ HttpP!Handler(j)
  BY SameHandler DEF Arrive, Disconnect, Handle, HTTP!Arrive, HttpP!Arrive,
     HTTP!Disconnect, HttpP!Disconnect, HTTP!Active, HttpP!Active,
     HTTP!Goes, HttpP!Goes
<1>3. [HttpP!Next]_(HttpP!ingestVars)
  BY <1>2 DEF HttpP!Next
<1>4. CASE HttpP!Create(j)
  <2>1. ProcP!Enqueue(j)
    BY <1>1, <1>4, SameRecords DEF HttpP!Create, HttpP!CreateOK, ProcP!Enqueue
  <2>2. QED
    BY <1>3, <2>1 DEF Maps, ProcP!Next, ProcP!Environment
<1>5. CASE HttpP!FailQueued(j)
  <2>1. store[j] = ProcP!NewJob /\ submit[j] # "accepted"
    BY <1>5, SameRecords
    DEF HttpP!FailQueued, HttpP!Answers, HttpP!Goes, HttpP!IngestInv, HttpP!Request,
        HttpP!Refusal, Outcome
  <2>2. stage[j] = "load" /\ j \notin Running
    BY <2>1, RunningTasks DEF Linked
  <2>3. CASE store' = store
    BY <1>1, <1>3, <2>3 DEF Maps, ProcP!procVars
  <2>4. CASE store' # store
    <3>1. store' = ProcP!Put(store, j, ProcP!Fail(store[j], "enqueue"))
      BY <1>5, <2>1, <2>4, SameRecords DEF HttpP!FailQueued
    <3>2. ProcP!Withdraw(j)
      BY <1>1, <2>1, <2>2, <3>1 DEF ProcP!Withdraw
    <3>3. QED
      BY <1>3, <3>2 DEF Maps, ProcP!Next, ProcP!Environment
  <2>5. QED
    BY <2>3, <2>4
<1>6. CASE ~HttpP!Create(j) /\ ~HttpP!FailQueued(j)
  <2>1. store' = store
    BY <1>2, <1>6 DEF HttpP!Arrive, HttpP!Disconnect, HttpP!Handler, HttpP!Reject,
       HttpP!BodyFails, HttpP!SpoolCreates, HttpP!SpoolCreateFails,
       HttpP!SpoolCopies, HttpP!SpoolCopyFails, HttpP!CreateFails,
       HttpP!Submitted, HttpP!Refused
  <2>2. QED
    BY <1>1, <1>3, <2>1 DEF Maps, ProcP!procVars
<1>7. QED
  BY <1>4, <1>5, <1>6

\* Pool.Submit decides on the task in its last step.
LEMMA SubmitMaps ==
  ASSUME ServiceInv, NEW j \in Job, Submit(j)
  PROVE  Maps
<1> USE DEF ServiceInv, ComponentInv
<1>1. /\ UNCHANGED <<Running, Expired>> /\ req[j] = "submit"
      /\ UNCHANGED <<store, stage, job, note, rows, upload, req, answer, gone, temp>>
  BY Views DEF Submit, procVars, httpVars, Pool!SubmitAction, Pool!SubmitProceeds,
     Pool!SubmitRLock, Pool!SubmitChecksClosed, Pool!SubmitSends, Pool!SubmitDefault,
     Pool!closeVars, Pool!workVars
<1>2. PICK from \in {"idle", "rlocked", "selecting"},
           to \in {"rlocked", "selecting", "accepted", "full", "rejected"} :
        submit[j] = from /\ submit' = [submit EXCEPT ![j] = to]
  BY DEF Submit, Pool!SubmitAction, Pool!SubmitProceeds, Pool!SubmitRLock,
     Pool!SubmitChecksClosed, Pool!SubmitSends, Pool!SubmitDefault, Pool!SubmitSteps
<1>3. submit \in [Job -> PoolP!SubmitState]
  BY DEF PoolP!PoolInv, PoolP!TypeOK
<1>4. CASE to \in {"rlocked", "selecting"}
  <2>1. Outcome' = Outcome
    BY <1>2, <1>3, <1>4 DEF Outcome
  <2>2. QED
    BY <1>1, <2>1 DEF Maps, ProcP!procVars, HttpP!ingestVars
<1>5. CASE to \in {"accepted", "full", "rejected"}
  <2>1. Outcome[j] = "idle" /\ Outcome' = [Outcome EXCEPT ![j] = to]
    BY <1>2, <1>3, <1>5 DEF Outcome
  <2>2. HttpP!Decide(j)
    BY <1>1, <1>5, <2>1 DEF HttpP!Decide, HttpP!Refusal
  <2>3. QED
    BY <1>1, <2>2 DEF Maps, ProcP!procVars, HttpP!Next
<1>6. QED
  BY <1>2, <1>4, <1>5

\* Process writes what the handler's module lets the pool write.
LEMMA ProcessMaps ==
  ASSUME ServiceInv, NEW j \in Job, Process(j)
  PROVE  Maps
<1> USE DEF ServiceInv, ComponentInv
<1>1. /\ ProcP!Process(j) /\ j \in Running
      /\ UNCHANGED <<Running, Expired, Outcome, upload, req, answer, gone, temp>>
  <2>1. ProcP!Process(j)
    BY SameProcess DEF Process
  <2>2. j \in Running
    BY <2>1 DEF ProcP!Process, ProcP!Load, ProcP!LoadFails, ProcP!Mark, ProcP!MarkFails,
       ProcP!Transcribe, ProcP!TranscribeFails, ProcP!Analyze, ProcP!AnalyzeFails,
       ProcP!Succeeds, ProcP!Fails, ProcP!Deliver, ProcP!DeliverFails, ProcP!Persist,
       ProcP!CompletePersists, ProcP!FailPersists, ProcP!PersistFails, ProcP!Goes
  <2>3. QED
    BY <2>1, <2>2, Views DEF Process, poolVars, httpVars
<1>2. [ProcP!Next]_(ProcP!procVars)
  BY <1>1 DEF ProcP!Next
<1>3. CASE store' = store
  BY <1>1, <1>2, <1>3 DEF Maps, HttpP!ingestVars
<1>4. CASE store' # store
  <2>1. ProcP!Mark(j) \/ ProcP!CompletePersists(j) \/ ProcP!FailPersists(j)
    BY <1>1, <1>4 DEF ProcP!Process, ProcP!Load, ProcP!LoadFails, ProcP!MarkFails,
       ProcP!Transcribe, ProcP!TranscribeFails, ProcP!Analyze, ProcP!AnalyzeFails,
       ProcP!Succeeds, ProcP!Deliver, ProcP!DeliverFails, ProcP!PersistFails
  <2>2. store' = ProcP!Put(store, j, job[j])
    BY <2>1 DEF ProcP!Mark, ProcP!CompletePersists, ProcP!FailPersists, ProcP!Persist
  <2>3. /\ store[j] \in {ProcP!NewJob, ProcP!Started}
        /\ \/ job[j] = ProcP!Start(store[j])
           \/ \E n \in ProcP!Notes : job[j] = ProcP!Complete(store[j], n)
           \/ \E r \in ProcP!Reason \ {""} : job[j] = ProcP!Fail(store[j], r)
    BY <2>1
    DEF ProcP!Mark, ProcP!CompletePersists, ProcP!FailPersists, ProcP!Persist, ProcP!Goes,
       ProcP!PipelineInv, ProcP!Pipeline, ProcP!Working, ProcP!Completing, ProcP!Delivered,
       ProcP!Failing, ProcP!Started, ProcP!Completions, ProcP!Failures
  <2>4. job[j] \in HttpP!Becomes(store[j])
    BY <2>3, SameRecords DEF HttpP!Becomes, ProcP!Reason, ProcP!StageError,
         HttpP!Reason, HttpP!StageError
  <2>5. ~HttpP!Terminal(store[j])
    <3>1. ~ProcP!Terminal(store[j])
      BY <2>3, Assumptions, ProcP!Records DEF ProcP!Terminal
    <3>2. QED
      BY <3>1, SameRecords
  <2>6. Outcome[j] = "accepted" /\ j \in temp
    BY <1>1, RunningTasks DEF Outcome, Linked
  <2>7. HttpP!Work(j)
    BY <1>1, <2>2, <2>4, <2>5, <2>6, SameRecords DEF HttpP!Work
  <2>8. QED
    BY <1>2, <2>7 DEF Maps, HttpP!Next
<1>5. QED
  BY <1>3, <1>4

\* The workers: the pipeline's Run and Return, the handler's Cleanup.
LEMMA WorkerMaps ==
  ASSUME ServiceInv, NEW w \in Worker,
         WorkerMoves(w) \/ Deadline(w) \/ ProcessReturns(w) \/ Cleanup(w)
  PROVE  Maps
<1> USE DEF ServiceInv, ComponentInv
<1>0. /\ UNCHANGED <<store, stage, job, note, rows, upload, req, answer, gone>>
      /\ submit' = submit /\ baseCancelled' = baseCancelled /\ Outcome' = Outcome
      /\ worker \in [Worker -> PoolP!WorkerState] /\ task \in [Worker -> Job \cup {None}]
  BY Views DEF WorkerMoves, Deadline, ProcessReturns, Cleanup, procVars, httpVars,
     Pool!Receive, Pool!Exit, Pool!Deadline, Pool!ProcessReturns, Pool!Cleanup,
     Pool!submitVars, Pool!closeVars, PoolP!PoolInv, PoolP!TypeOK
<1>1. CASE WorkerMoves(w) /\ Pool!Receive(w)
  <2> DEFINE j == Head(queue)
  <2>1. /\ Waiting(j) /\ j \in Job /\ submit[j] = "accepted"
        /\ \A v \in Worker : task[v] # j
    <3>1. queue \in Seq(Job) /\ queue # <<>>
      BY <1>1 DEF Pool!Receive, PoolP!PoolInv, PoolP!TypeOK
    <3>2. 1 \in DOMAIN queue /\ queue[1] = j /\ j \in Job
      BY <3>1
    <3>3. QED
      BY <3>2 DEF Waiting, PoolP!PoolInv, PoolP!Placement
  <2>2. stage[j] = "load" /\ store[j] = ProcP!NewJob
    BY <2>1 DEF Linked
  <2>3. /\ worker' = [worker EXCEPT ![w] = "running"] /\ worker[w] = "receiving"
        /\ task' = [task EXCEPT ![w] = j] /\ temp' = temp /\ Expired' = Expired
    BY <1>0, <1>1, Views DEF WorkerMoves, Pool!Receive
  <2> HIDE DEF j
  <2>4. j \notin Running /\ Running' = Running \cup {j}
    BY <1>0, <2>1, <2>3 DEF Running
  <2>5. ProcP!Run(j)
    BY <1>0, <2>2, <2>3, <2>4 DEF ProcP!Run
  <2>6. QED
    BY <1>0, <2>1, <2>3, <2>5 DEF Maps, ProcP!Next, ProcP!Environment, HttpP!ingestVars
<1>2. CASE WorkerMoves(w) /\ Pool!Exit(w)
  <2>1. /\ worker' = [worker EXCEPT ![w] = "exited"] /\ worker[w] = "receiving"
        /\ task' = task /\ temp' = temp /\ Expired' = Expired
    BY <1>0, <1>2, Views DEF WorkerMoves, Pool!Exit
  <2>2. Running' = Running
    BY <1>0, <2>1 DEF Running
  <2>3. QED
    BY <1>0, <2>1, <2>2 DEF Maps, ProcP!procVars, HttpP!ingestVars
<1>3. CASE Deadline(w)
  <2>1. /\ timedOut' = timedOut \cup {task[w]} /\ temp' = temp /\ Running' = Running
        /\ worker[w] = "running"
    BY <1>3, Views DEF Deadline, Pool!Deadline
  <2>2. task[w] \in Job
    BY <1>0, <2>1, Assumptions DEF PoolP!PoolInv, PoolP!Holding
  <2>3. Expired' = Expired \cup {task[w]}
    BY <1>0, <2>1, <2>2 DEF Expired, Pool!CtxDone
  <2>4. ProcP!Expire
    BY <1>0, <2>1, <2>2, <2>3 DEF ProcP!Expire
  <2>5. QED
    BY <1>0, <2>1, <2>4 DEF Maps, ProcP!Next, HttpP!ingestVars
<1>4. CASE ProcessReturns(w)
  <2> DEFINE j == task[w]
  <2>1. /\ worker' = [worker EXCEPT ![w] = "returned"] /\ worker[w] = "running"
        /\ task' = task /\ temp' = temp /\ Expired' = Expired
        /\ stage[j] \in {"ok", "error"}
    BY <1>0, <1>4, Views DEF ProcessReturns, Pool!ProcessReturns
  <2>2. /\ j \in Job /\ j # None
        /\ \A v \in Worker : task[v] = j => v = w
    BY <1>0, <2>1, Assumptions DEF PoolP!PoolInv, PoolP!Holding, PoolP!Placement
  <2> HIDE DEF j
  <2>3. j \in Running /\ Running' = Running \ {j}
    <3>1. task[w] = j
      BY DEF j
    <3>2. QED
      BY <1>0, <2>1, <2>2, <3>1 DEF Running
  <2>4. ProcP!Return(j)
    BY <1>0, <2>1, <2>3 DEF ProcP!Return
  <2>5. QED
    BY <1>0, <2>1, <2>2, <2>4 DEF Maps, ProcP!Next, ProcP!Environment, HttpP!ingestVars
<1>5. CASE Cleanup(w)
  <2>1. /\ worker' = [worker EXCEPT ![w] = "receiving"] /\ worker[w] = "returned"
        /\ task' = [task EXCEPT ![w] = None] /\ temp' = temp \ {task[w]}
        /\ Expired' = Expired
    BY <1>0, <1>5, Views DEF Cleanup, Pool!Cleanup
  <2>2. Running' = Running
    BY <1>0, <2>1 DEF Running
  <2>3. /\ task[w] \in Job /\ submit[task[w]] = "accepted"
        /\ task[w] \notin finished
    BY <1>0, <2>1, Assumptions DEF PoolP!PoolInv, PoolP!Holding, PoolP!Placement
  <2>4. HttpP!Cleanup(task[w])
    BY <1>0, <2>1, <2>3 DEF HttpP!Cleanup, Outcome, Linked
  <2>5. QED
    BY <1>0, <2>1, <2>2, <2>3, <2>4 DEF Maps, HttpP!Next, ProcP!procVars
<1>6. QED
  BY <1>1, <1>2, <1>3, <1>4, <1>5 DEF WorkerMoves

\* main: a cancelled base context ends every task's context.
LEMMA MainMaps ==
  ASSUME ServiceInv,
         \/ GraceExpires \/ Signal \/ ListenerFails \/ ServerShutdown
         \/ PoolShutdown \/ Exit \/ UNCHANGED vars
  PROVE  Maps
<1>1. /\ UNCHANGED <<store, stage, job, note, rows, upload, req, answer, gone, temp>>
      /\ UNCHANGED <<submit, worker, task, timedOut>>
      /\ baseCancelled' = baseCancelled \/ baseCancelled' = TRUE
  BY DEF GraceExpires, Signal, ListenerFails, ServerShutdown, PoolShutdown, Exit, vars,
     poolVars, procVars, httpVars, Pool!GraceExpires, Pool!ShutdownLocks,
     Pool!ShutdownProceeds, Pool!ShutdownAgain, Pool!ShutdownCloses,
     Pool!ShutdownDrained, Pool!ShutdownGraceOver, Pool!ShutdownUnwound,
     Pool!submitVars, Pool!workVars
<1>2. Running' = Running /\ Outcome' = Outcome
  BY <1>1, Views
<1>3. [HttpP!Next]_(HttpP!ingestVars)
  BY <1>1, <1>2 DEF HttpP!ingestVars
<1>4. CASE baseCancelled' = baseCancelled
  <2>1. Expired' = Expired
    BY <1>1, <1>4, Views
  <2>2. QED
    BY <1>1, <1>2, <1>3, <2>1 DEF Maps, ProcP!procVars
<1>5. CASE baseCancelled' = TRUE
  <2>1. Expired' = Expired \cup Job
    BY <1>5 DEF Expired, Pool!CtxDone
  <2>2. ProcP!Expire
    BY <1>1, <1>2, <2>1 DEF ProcP!Expire
  <2>3. QED
    BY <1>3, <2>2 DEF Maps, ProcP!Next
<1>6. QED
  BY <1>1, <1>4, <1>5

\* Every step of the service is a step of its components.
LEMMA StepMaps == ASSUME ServiceInv, [Next]_vars PROVE Maps
BY RequestMaps, SubmitMaps, ProcessMaps, WorkerMaps, MainMaps DEF Next, Terminated

-----------------------------------------------------------------------------
(***************************************************************************)
(* The relation between the components is kept.                            *)
(***************************************************************************)
\* A job whose task is not accepted has no pipeline and no place in the pool.
LEMMA Unsubmitted ==
  ASSUME ServiceInv, NEW k \in Job, submit[k] # "accepted"
  PROVE  stage[k] = "load" /\ ~Waiting(k) /\ k \notin finished
BY DEF ServiceInv, ComponentInv, Linked, Waiting, PoolP!PoolInv, PoolP!Placement

\* Hence its request alone says where it stands.
LEMMA LinkedFresh ==
  ASSUME NEW k \in Job, PoolP!PoolInv', submit'[k] # "accepted", stage'[k] = "load"
  PROVE  Linked(k)'
<1>1. ~Waiting(k)' /\ k \notin finished'
  BY DEF Waiting, PoolP!PoolInv, PoolP!Placement
<1>2. QED
  BY <1>1 DEF Linked

\* A step that leaves a job's record, stage, file and decision as they were.
LEMMA LinkedStays ==
  ASSUME NEW k, Linked(k), store'[k] = store[k], stage'[k] = stage[k],
         submit'[k] = submit[k], (k \in temp') = (k \in temp),
         (k \in finished') = (k \in finished),
         Waiting(k)' => Waiting(k), Abandoned(k) => Abandoned(k)'
  PROVE  Linked(k)'
BY DEF Linked, ProcP!Terminal

\* The handler of a job whose task is accepted only answers.
LEMMA RequestLinks ==
  ASSUME ServiceInv, ComponentInv', NEW j \in Job,
         Arrive(j) \/ Disconnect(j) \/ Handle(j)
  PROVE  Ending' /\ \A k \in Job : Linked(k)'
<1> USE DEF ServiceInv, ComponentInv
<1>1. UNCHANGED <<poolVars, stage, phase>>
  BY DEF Arrive, Disconnect, Handle, procVars
<1>2. Ending'
  BY <1>1 DEF Ending, poolVars
<1>3. HttpP!Arrive(j) \/ HttpP!Disconnect(j) \/ HttpP!Handler(j)
  BY SameHandler DEF Arrive, Disconnect, Handle, HTTP!Arrive, HttpP!Arrive,
     HTTP!Disconnect, HttpP!Disconnect, HTTP!Active, HttpP!Active,
     HTTP!Goes, HttpP!Goes
<1>4. HttpP!Advances(j)
  BY <1>3, Assumptions, HttpP!SpoolSteps, HttpP!SubmitSteps, HttpP!EnvironmentSteps
  DEF HttpP!Handler
<1>5. submit[j] = "accepted" => store' = store /\ temp' = temp
  <2>1. submit[j] = "accepted" => Outcome[j] = "accepted"
    BY DEF Outcome
  <2>2. Outcome[j] = "accepted" => req[j] \in {"submit", "done"}
    BY DEF HttpP!IngestInv, HttpP!TypeOK, HttpP!ReqState, HttpP!Request,
       HttpP!Nothing, HttpP!Refusal
  <2>3. Outcome[j] = "accepted" => store' = store /\ temp' = temp
    BY <1>3, <2>2 DEF HttpP!Arrive, HttpP!Disconnect, HttpP!Handler, HttpP!Reject,
       HttpP!BodyFails, HttpP!SpoolCreates, HttpP!SpoolCreateFails,
       HttpP!SpoolCopies, HttpP!SpoolCopyFails, HttpP!Create, HttpP!CreateFails,
       HttpP!Submitted, HttpP!Refused, HttpP!FailQueued, HttpP!Answers,
       HttpP!Goes, HttpP!Refusal
  <2>4. QED
    BY <2>1, <2>3
<1>6. ASSUME NEW k \in Job PROVE Linked(k)'
  <2>1. CASE k = j /\ submit[j] # "accepted"
    BY <1>1, <2>1, Unsubmitted, LinkedFresh DEF poolVars
  <2>2. CASE k # j \/ submit[j] = "accepted"
    <3>1. store'[k] = store[k] /\ (k \in temp') = (k \in temp)
      BY <1>4, <1>5, <2>2 DEF HttpP!Advances, HttpP!Untouched
    <3>2. QED
      BY <1>1, <3>1, LinkedStays DEF poolVars, Waiting, Abandoned
  <2>3. QED
    BY <2>1, <2>2
<1>7. QED
  BY <1>2, <1>6

\* An accepted task finds its record queued, its file there and its pipeline new.
LEMMA SubmitLinks ==
  ASSUME ServiceInv, ComponentInv', NEW j \in Job, Submit(j)
  PROVE  Ending' /\ \A k \in Job : Linked(k)'
<1> USE DEF ServiceInv, ComponentInv
<1>1. /\ UNCHANGED <<store, stage, temp, phase, finished, timedOut, closer>>
      /\ UNCHANGED <<baseCancelled, graceOver, worker, task>>
      /\ req[j] = "submit" /\ submit[j] # "accepted"
      /\ \A k \in Job \ {j} : submit'[k] = submit[k]
      /\ \/ queue' = queue /\ submit'[j] # "accepted"
         \/ queue' = Append(queue, j)
  BY DEF Submit, procVars, Pool!SubmitAction, Pool!SubmitProceeds, Pool!SubmitRLock,
     Pool!SubmitChecksClosed, Pool!SubmitSends, Pool!SubmitDefault, Pool!SubmitSteps,
     Pool!closeVars, Pool!workVars, PoolP!PoolInv, PoolP!TypeOK
<1>2. Ending'
  BY <1>1 DEF Ending
<1>3. ASSUME NEW k \in Job \ {j} PROVE Linked(k)'
  <2>1. Waiting(k)' => Waiting(k)
    <3>1. CASE queue' = queue
      BY <3>1 DEF Waiting
    <3>2. CASE queue' = Append(queue, j)
      <4>1. queue \in Seq(Job)
        BY DEF PoolP!PoolInv, PoolP!TypeOK
      <4>2. \A i \in DOMAIN queue' :
              (i \in DOMAIN queue /\ queue'[i] = queue[i]) \/ queue'[i] = j
        BY <3>2, <4>1
      <4>3. QED
        BY <4>2 DEF Waiting
    <3>3. QED
      BY <1>1, <3>1, <3>2
  <2>2. QED
    BY <1>1, <2>1, LinkedStays DEF Abandoned
<1>4. Linked(j)'
  <2>1. stage[j] = "load" /\ j \notin finished
    BY <1>1, Unsubmitted
  <2>2. CASE submit'[j] # "accepted"
    BY <1>1, <2>1, <2>2, LinkedFresh
  <2>3. CASE submit'[j] = "accepted"
    <3>1. store[j] = ProcP!NewJob /\ j \in temp
      BY <1>1, SameRecords DEF HttpP!IngestInv, HttpP!Request, HttpP!Submitting, Outcome
    <3>2. QED
      BY <1>1, <2>1, <2>3, <3>1 DEF Linked
  <2>4. QED
    BY <2>2, <2>3
<1>5. QED
  BY <1>2, <1>3, <1>4

\* Process works on a task of its own; what it leaves unsettled was expired.
LEMMA ProcessLinks ==
  ASSUME ServiceInv, ComponentInv', NEW j \in Job, Process(j)
  PROVE  Ending' /\ \A k \in Job : Linked(k)'
<1> USE DEF ServiceInv, ComponentInv
<1>1. UNCHANGED <<poolVars, temp, phase>> /\ ProcP!Process(j)
  BY SameProcess DEF Process
<1>2. j \in Running
  BY <1>1 DEF ProcP!Process, ProcP!Load, ProcP!LoadFails, ProcP!Mark, ProcP!MarkFails,
     ProcP!Transcribe, ProcP!TranscribeFails, ProcP!Analyze, ProcP!AnalyzeFails,
     ProcP!Succeeds, ProcP!Fails, ProcP!Deliver, ProcP!DeliverFails, ProcP!Persist,
     ProcP!CompletePersists, ProcP!FailPersists, ProcP!PersistFails, ProcP!Goes
<1>3. \A k \in Job \ {j} : store'[k] = store[k] /\ stage'[k] = stage[k]
  BY <1>1, Assumptions, ProcP!LoadSteps, ProcP!ProviderSteps, ProcP!DeliverySteps,
     ProcP!PersistSteps DEF ProcP!Process, ProcP!Advances, ProcP!Untouched
<1>4. Ending'
  <2>1. ASSUME NEW w \in Worker, worker[w] = "returned"
        PROVE  stage'[task[w]] \in {"ok", "error"}
    <3>1. task[w] # j
      BY <1>2, <2>1, RunningTasks
    <3>2. task[w] \in Job
      BY <2>1, Assumptions DEF PoolP!PoolInv, PoolP!TypeOK, PoolP!Holding
    <3>3. QED
      BY <1>3, <2>1, <3>1, <3>2 DEF Ending
  <2>2. QED
    BY <1>1, <2>1 DEF Ending, poolVars
<1>5. ASSUME NEW k \in Job \ {j} PROVE Linked(k)'
  BY <1>1, <1>3, LinkedStays DEF poolVars, Waiting, Abandoned
<1>6. Linked(j)'
  <2>1. submit[j] = "accepted" /\ j \notin finished /\ ~Waiting(j)
    BY <1>2, RunningTasks
  <2>2. ASSUME stage'[j] = "error" PROVE ProcP!Terminal(store'[j]) \/ Abandoned(j)
    <3>1. store'[j] \in ProcP!Failures \/ j \in Expired'
      BY <2>2 DEF ProcP!PipelineInv, ProcP!Pipeline, ProcP!Broken, ProcP!Failing
    <3>2. CASE store'[j] \in ProcP!Failures
      <4>1. store'[j] # Absent /\ store'[j].status = "failed"
        BY <3>2, Assumptions, ProcP!Failed DEF ProcP!AbsentAssumption
      <4>2. QED
        BY <4>1 DEF ProcP!Terminal
    <3>3. CASE j \in Expired'
      <4>1. j \in Expired
        BY <1>1, <3>3, Views DEF poolVars
      <4>2. QED
        BY <1>2, <4>1, ExpiredTasks
    <3>4. QED
      BY <3>1, <3>2, <3>3
  <2>3. j \in temp
    BY <2>1 DEF Linked
  <2>4. QED
    BY <1>1, <2>1, <2>2, <2>3 DEF Linked, poolVars, Waiting, Abandoned, ProcP!Terminal
<1>7. QED
  BY <1>4, <1>5, <1>6

\* A worker takes a task, times it out, and cleans up after it.
LEMMA WorkerLinks ==
  ASSUME ServiceInv, ComponentInv', NEW w \in Worker,
         WorkerMoves(w) \/ Deadline(w) \/ ProcessReturns(w) \/ Cleanup(w)
  PROVE  Ending' /\ \A k \in Job : Linked(k)'
<1> USE DEF ServiceInv, ComponentInv
<1>0. /\ UNCHANGED <<store, stage, submit, phase, baseCancelled, closer, graceOver>>
      /\ worker \in [Worker -> PoolP!WorkerState] /\ task \in [Worker -> Job \cup {None}]
  BY DEF WorkerMoves, Deadline, ProcessReturns, Cleanup, procVars,
     Pool!Receive, Pool!Exit, Pool!Deadline, Pool!ProcessReturns, Pool!Cleanup,
     Pool!submitVars, Pool!closeVars, PoolP!PoolInv, PoolP!TypeOK
<1>1. CASE WorkerMoves(w)
  <2>1. UNCHANGED <<temp, timedOut, finished>>
    BY <1>1 DEF WorkerMoves, Pool!Receive, Pool!Exit
  <2>2. PICK state \in {"running", "exited"} : worker' = [worker EXCEPT ![w] = state]
    BY <1>1 DEF WorkerMoves, Pool!Receive, Pool!Exit
  <2>3. \A v \in Worker \ {w} : task'[v] = task[v]
    BY <1>0, <1>1 DEF WorkerMoves, Pool!Receive, Pool!Exit
  <2>4. Ending'
    BY <1>0, <2>2, <2>3 DEF Ending
  <2>5. ASSUME NEW k PROVE Waiting(k)' => Waiting(k)
    <3>1. CASE queue' = queue
      BY <3>1 DEF Waiting
    <3>2. CASE queue # <<>> /\ queue' = Tail(queue)
      <4>1. queue \in Seq(Job)
        BY DEF PoolP!PoolInv, PoolP!TypeOK
      <4>2. \A i \in DOMAIN queue' : i + 1 \in DOMAIN queue /\ queue'[i] = queue[i + 1]
        BY <3>2, <4>1
      <4>3. QED
        BY <4>2 DEF Waiting
    <3>3. QED
      BY <1>1, <3>1, <3>2 DEF WorkerMoves, Pool!Receive, Pool!Exit
  <2>6. QED
    BY <1>0, <2>1, <2>4, <2>5, LinkedStays DEF Abandoned
<1>2. CASE Deadline(w)
  <2>1. /\ UNCHANGED <<temp, finished, worker, task, queue>>
        /\ timedOut \subseteq timedOut'
    BY <1>2 DEF Deadline, Pool!Deadline
  <2>2. QED
    BY <1>0, <2>1, LinkedStays DEF Ending, Waiting, Abandoned
<1>3. CASE ProcessReturns(w)
  <2>1. /\ UNCHANGED <<temp, finished, task, queue, timedOut>>
        /\ worker' = [worker EXCEPT ![w] = "returned"]
        /\ stage[task[w]] \in {"ok", "error"}
    BY <1>3 DEF ProcessReturns, Pool!ProcessReturns
  <2>2. Ending'
    BY <1>0, <2>1 DEF Ending
  <2>3. QED
    BY <1>0, <2>1, <2>2, LinkedStays DEF Waiting, Abandoned
<1>4. CASE Cleanup(w)
  <2>1. /\ UNCHANGED <<queue, timedOut>>
        /\ worker' = [worker EXCEPT ![w] = "receiving"] /\ worker[w] = "returned"
        /\ task' = [task EXCEPT ![w] = None]
        /\ finished' = finished \cup {task[w]} /\ temp' = temp \ {task[w]}
    BY <1>4 DEF Cleanup, Pool!Cleanup
  <2>2. Ending'
    BY <1>0, <2>1 DEF Ending
  <2>3. ASSUME NEW k \in Job, k # task[w] PROVE Linked(k)'
    BY <1>0, <2>1, <2>3, LinkedStays DEF Waiting, Abandoned
  <2>4. ASSUME NEW k \in Job, k = task[w] PROVE Linked(k)'
    <3>1. stage[k] \in {"ok", "error"}
      BY <2>1, <2>4 DEF Ending
    <3>2. QED
      BY <1>0, <2>1, <2>4, <3>1 DEF Linked, Waiting, Abandoned, ProcP!Terminal
  <2>5. QED
    BY <2>2, <2>3, <2>4
<1>5. QED
  BY <1>1, <1>2, <1>3, <1>4

\* main: the base context is cancelled after a drain or after the grace period.
LEMMA MainLinks ==
  ASSUME ServiceInv, ComponentInv',
         \/ GraceExpires \/ Signal \/ ListenerFails \/ ServerShutdown
         \/ PoolShutdown \/ Exit \/ UNCHANGED vars
  PROVE  Ending' /\ \A k \in Job : Linked(k)'
<1> USE DEF ServiceInv, ComponentInv
<1>1. UNCHANGED <<store, stage, temp, submit, queue, worker, task, timedOut, finished>>
  BY DEF GraceExpires, Signal, ListenerFails, ServerShutdown, PoolShutdown, Exit, vars,
     poolVars, procVars, Pool!GraceExpires, Pool!ShutdownLocks,
     Pool!ShutdownProceeds, Pool!ShutdownAgain, Pool!ShutdownCloses,
     Pool!ShutdownDrained, Pool!ShutdownGraceOver, Pool!ShutdownUnwound,
     Pool!submitVars, Pool!workVars
<1>2. Ending' /\ (closer[Main] \in {"aborting", "err"} => closer'[Main] \in {"aborting", "err"})
  <2>1. CASE GraceExpires
    BY <1>1, <2>1 DEF GraceExpires, Pool!GraceExpires, Ending
  <2>2. CASE Signal \/ ListenerFails \/ ServerShutdown \/ Exit
    BY <1>1, <2>2 DEF Signal, ListenerFails, ServerShutdown, Exit, Moves, poolVars, Ending
  <2>3. CASE PoolShutdown
    <3>1. phase' = phase /\ phase = "draining" /\ graceOver' = graceOver
      BY <2>3 DEF PoolShutdown, Pool!ShutdownLocks,
         Pool!ShutdownProceeds, Pool!ShutdownAgain, Pool!ShutdownCloses,
         Pool!ShutdownDrained, Pool!ShutdownGraceOver, Pool!ShutdownUnwound
    <3>2. closer \in [{Main} -> PoolP!CloserState]
      BY DEF PoolP!PoolInv, PoolP!TypeOK
    <3>3. ASSUME NEW from, NEW to, Pool!CloserSteps(Main, from, to)
          PROVE  closer[Main] = from /\ closer'[Main] = to
      BY <3>2, <3>3 DEF Pool!CloserSteps
    <3>4. \/ /\ closer[Main] \in {"idle", "locked"} /\ baseCancelled' = baseCancelled
             /\ closer'[Main] \in {"locked", "noop", "waiting"}
          \/ closer[Main] = "waiting" /\ closer'[Main] = "nil"
          \/ closer[Main] = "waiting" /\ Main \in graceOver /\ closer'[Main] = "aborting"
          \/ closer[Main] = "aborting" /\ closer'[Main] = "err"
      BY <2>3, <3>3 DEF PoolShutdown, Pool!ShutdownLocks,
         Pool!ShutdownProceeds, Pool!ShutdownAgain, Pool!ShutdownCloses,
         Pool!ShutdownDrained, Pool!ShutdownGraceOver, Pool!ShutdownUnwound
    <3>5. QED
      BY <1>1, <3>1, <3>4 DEF Ending
  <2>4. CASE UNCHANGED vars
    BY <1>1, <2>4 DEF vars, poolVars, Ending
  <2>5. QED
    BY <2>1, <2>2, <2>3, <2>4
<1>3. ASSUME NEW k \in Job PROVE Linked(k)'
  BY <1>1, <1>2, LinkedStays DEF Waiting, Abandoned
<1>4. QED
  BY <1>2, <1>3

-----------------------------------------------------------------------------
(***************************************************************************)
(* The invariant.                                                          *)
(***************************************************************************)
LEMMA ServiceStep == ServiceInv /\ [Next]_vars => ServiceInv'
<1> SUFFICES ASSUME ServiceInv, [Next]_vars PROVE ServiceInv'
  OBVIOUS
<1>1. ComponentInv'
  <2>1. [PoolP!Next]_(PoolP!poolVars)
    BY PoolMaps, SamePool DEF Pool!poolVars, PoolP!poolVars
  <2>2. Maps
    BY StepMaps
  <2>3. QED
    BY <2>1, <2>2, PoolInvStep, ProcInvStep, HttpInvStep
    DEF ServiceInv, ComponentInv, Maps
<1>2. Ending' /\ \A k \in Job : Linked(k)'
  BY <1>1, RequestLinks, SubmitLinks, ProcessLinks, WorkerLinks, MainLinks
  DEF Next, Terminated
<1>3. QED
  BY <1>1, <1>2 DEF ServiceInv

\* At the start there is no job, and the parts are in their initial states.
LEMMA ServiceInit == Init => ServiceInv
<1> SUFFICES ASSUME Init PROVE ServiceInv
  OBVIOUS
<1>1. PoolP!Init /\ ProcP!Init /\ HttpP!Init
  BY DEF Init, Pool!Init, PoolP!Init, Proc!Init, ProcP!Init, HTTP!Init, HttpP!Init
<1>2. ProcP!PipelineInv /\ HttpP!IngestInv
  BY <1>1, Assumptions, ProcP!PipelineInit, HttpP!IngestInit
<1>3. PoolP!PoolInv
  BY <1>1, Assumptions, PoolP!PoolInit
<1>4. Ending /\ \A j \in Job : Linked(j)
  BY DEF Init, Pool!Init, Proc!Init, HTTP!Init, Ending, Linked, Waiting
<1>5. QED
  BY <1>2, <1>3, <1>4 DEF ServiceInv, ComponentInv

\* The service keeps the invariants of its parts and their relation.
LEMMA ServiceHolds == Spec => []ServiceInv
BY ServiceInit, ServiceStep, PTL DEF Spec

\* What its components' theorems say of the service.
LEMMA PoolHolds == ASSUME PoolP!PoolInv, PoolP!AllExited
                   PROVE  \A j \in Job : submit[j] = "accepted" => j \in finished
<1>1. PoolP!Pending = {} /\ PoolP!Held = {}
  BY Assumptions, PoolP!InvDrained
<1>2. QED
  BY <1>1 DEF PoolP!PoolInv, PoolP!Placement, PoolP!Accepted

-----------------------------------------------------------------------------
(***************************************************************************)
(* The properties that span components.                                    *)
(***************************************************************************)
\* A worker that may still open the audio finds it: nobody has removed it.
THEOREM AudioThere == Spec => []AudioAvailable
<1>1. ASSUME ServiceInv PROVE AudioAvailable
  <2> SUFFICES ASSUME NEW j \in Running PROVE j \in temp
    BY DEF AudioAvailable
  <2>1. QED
    BY <1>1, RunningTasks DEF ServiceInv, ComponentInv, Linked
<1>2. QED
  BY <1>1, ServiceHolds, PTL

\* No temporary file is without a request or a task that will remove it.
THEOREM NoFileLeftBehind == Spec => []NoStrayUpload
<1>1. ASSUME ServiceInv PROVE NoStrayUpload
  <2> SUFFICES ASSUME NEW j \in temp
               PROVE  \/ req[j] \in {"spool", "create", "submit"}
                      \/ submit[j] = "accepted" /\ j \in Job \ finished
    BY DEF NoStrayUpload, Pool!Accepted
  <2>1. j \in Job /\ req[j] \in HttpP!ReqState /\ HttpP!Request(j) /\ Linked(j)
    BY <1>1 DEF ServiceInv, ComponentInv, HttpP!IngestInv, HttpP!TypeOK
  <2>2. req[j] \in {"spool", "create", "submit"} \/ Outcome[j] = "accepted"
    BY <2>1 DEF HttpP!ReqState, HttpP!Request, HttpP!Nothing, HttpP!Done, HttpP!RefusedDone
  <2>3. Outcome[j] = "accepted" => submit[j] = "accepted"
    BY <2>1 DEF Outcome
  <2>4. QED
    BY <2>1, <2>2, <2>3 DEF Linked
<1>2. QED
  BY <1>1, ServiceHolds, PTL

\* A task in the pool and an id that was handed out name a job in the store.
THEOREM JobBeforeTask == Spec => []JobPrecedesTask
<1>1. ASSUME ServiceInv PROVE JobPrecedesTask
  <2>1. ASSUME NEW j \in Job
        PROVE  /\ HttpP!Request(j) /\ req[j] \in HttpP!ReqState
               /\ answer[j] = "202" => req[j] = "done"
    BY <1>1 DEF ServiceInv, ComponentInv, HttpP!IngestInv, HttpP!TypeOK
  <2>2. ASSUME NEW j \in Job, submit[j] = "accepted" PROVE store[j] # Absent
    <3>1. Outcome[j] = "accepted"
      BY <2>2 DEF Outcome
    <3>2. QED
      BY <2>1, <3>1 DEF HttpP!ReqState, HttpP!Request, HttpP!Nothing, HttpP!Submitting,
         HttpP!Done, HttpP!Refusal
  <2>3. ASSUME NEW j \in Job, answer[j] = "202" PROVE store[j] # Absent
    <3>1. HttpP!Done(j)
      BY <2>1, <2>3 DEF HttpP!Request
    <3>2. ~HttpP!Faulty(j) /\ ~HttpP!RefusedDone(j)
      BY <2>3, Assumptions, HttpP!VerdictCodes
      DEF HttpP!Faulty, HttpP!RefusedDone, HttpP!Invalid
    <3>3. QED
      BY <2>3, <3>1, <3>2 DEF HttpP!Done
  <2>4. QED
    BY <2>2, <2>3 DEF JobPrecedesTask, Pool!Accepted
<1>2. QED
  BY <1>1, ServiceHolds, PTL

\* A finished task has settled its job, or its context was ended.
LEMMA FinishedJobs ==
  ASSUME ServiceInv, NEW j \in Job, j \in finished
  PROVE  HTTP!Terminal(store[j]) \/ Abandoned(j)
<1>1. Linked(j) /\ ProcP!Pipeline(j)
  BY DEF ServiceInv, ComponentInv, ProcP!PipelineInv
<1>2. stage[j] = "ok" => ProcP!Terminal(store[j])
  <2>1. \A rec \in ProcP!Stored : rec \in ProcP!JobType /\ rec.status = "completed"
    BY Assumptions, ProcP!ClonesOf DEF ProcP!Stored
  <2>2. QED
    BY <1>1, <2>1, Assumptions, ProcP!CompletedAre
    DEF ProcP!Pipeline, ProcP!Terminal, ProcP!AbsentAssumption
<1>3. QED
  BY <1>1, <1>2 DEF Linked, ProcP!Terminal, HTTP!Terminal

\* Processed is settled, but for a deadline or the end of the grace period.
THEOREM FinishedSettled == Spec => []FinishedIsSettled
<1>1. ASSUME ServiceInv PROVE FinishedIsSettled
  <2> SUFFICES ASSUME NEW j \in finished
               PROVE  HTTP!Terminal(store[j]) \/ j \in timedOut \/ Main \in graceOver
    BY DEF FinishedIsSettled
  <2>1. j \in Job
    BY <1>1 DEF ServiceInv, ComponentInv, PoolP!PoolInv, PoolP!TypeOK
  <2>2. QED
    BY <1>1, <2>1, FinishedJobs DEF ServiceInv, Ending, Abandoned
<1>2. QED
  BY <1>1, ServiceHolds, PTL

\* An exit after a signal has processed every accepted task and removed its
\* file, and settled its job unless the job or the drain ran out of time.
THEOREM ExitAccounts == Spec => []ExitAccountsForAll
<1>1. ASSUME ServiceInv PROVE ExitAccountsForAll
  <2> SUFFICES ASSUME phase = "stopped", NEW j \in Job, submit[j] = "accepted"
               PROVE  /\ j \in finished /\ j \notin temp
                      /\ closer[Main] = "nil" /\ j \notin timedOut
                           => HTTP!Terminal(store[j])
    BY DEF ExitAccountsForAll, Pool!Accepted
  <2>1. PoolP!AllExited
    BY <1>1 DEF ServiceInv, ComponentInv, Ending, PoolP!PoolInv, PoolP!Ending
  <2>2. j \in finished
    BY <1>1, <2>1, PoolHolds DEF ServiceInv, ComponentInv
  <2>3. j \notin temp
    BY <1>1, <2>2 DEF ServiceInv, Linked
  <2>4. QED
    BY <1>1, <2>2, <2>3, FinishedJobs DEF Abandoned
<1>2. QED
  BY <1>1, ServiceHolds, PTL

-----------------------------------------------------------------------------
(***************************************************************************)
(* The service implements the specifications of its components.            *)
(***************************************************************************)
LEMMA SameProcNext == Proc!Next <=> ProcP!Next
BY SameProcess
DEF Proc!Next, ProcP!Next, Proc!Environment, ProcP!Environment, Proc!Enqueue,
     ProcP!Enqueue, Proc!Withdraw, ProcP!Withdraw, Proc!Run, ProcP!Run,
     Proc!Return, ProcP!Return, Proc!Expire, ProcP!Expire, Proc!Terminated,
     ProcP!Terminated, Proc!Terminal, ProcP!Terminal, Proc!NewJob,
     ProcP!NewJob, Proc!Fail, ProcP!Fail, Proc!Put, ProcP!Put, Proc!Clone,
     ProcP!Clone, Proc!CloneNote, ProcP!CloneNote, Proc!NilIfEmpty,
     ProcP!NilIfEmpty, Proc!procVars, ProcP!procVars

\* The handler in the service takes the steps of Ingest.
LEMMA SameHttpNext == HTTP!Next <=> HttpP!Next
BY SameHandler
DEF HTTP!Next, HttpP!Next, HTTP!Arrive, HttpP!Arrive, HTTP!Goes, HttpP!Goes,
     HTTP!Disconnect, HttpP!Disconnect, HTTP!Active, HttpP!Active,
     HTTP!Decide, HttpP!Decide, HTTP!Refusal, HttpP!Refusal, HTTP!Work,
     HttpP!Work, HTTP!Becomes, HttpP!Becomes, HTTP!Start, HttpP!Start,
     HTTP!Complete, HttpP!Complete, HTTP!Fail, HttpP!Fail, HTTP!Reason, HTTP!StageError,
     HttpP!Reason, HttpP!StageError, HTTP!Notes, HttpP!Notes, HTTP!Analysis, HttpP!Analysis,
     HTTP!ToDomain, HttpP!ToDomain, HTTP!Trimmed, HttpP!Trimmed, HTTP!Trim,
     HttpP!Trim, HTTP!Terminal, HttpP!Terminal, HTTP!Put, HttpP!Put,
     HTTP!Clone, HttpP!Clone, HTTP!CloneNote, HttpP!CloneNote,
     HTTP!NilIfEmpty, HttpP!NilIfEmpty, HTTP!Cleanup, HttpP!Cleanup,
     HTTP!Terminated, HttpP!Terminated, HTTP!ingestVars, HttpP!ingestVars,
     HTTP!Only, HttpP!Only, HTTP!Kept, HttpP!Kept, HTTP!Text, HttpP!Text,
     HTTP!Item, HttpP!Item

\* The pool in the service is a WorkerPool.
THEOREM IsPool == Spec => ImplementsPool
<1>1. Init => Pool!Init
  BY DEF Init
<1>2. [Next]_vars => [UNCHANGED Pool!poolVars \/ Pool!Next]_(Pool!poolVars)
  BY PoolMaps
<1>3. QED
  BY <1>1, <1>2, PTL DEF Spec, ImplementsPool

\* Whatever the handlers and the workers do, Process runs as in Processor.
THEOREM IsProcessor == Spec => ImplementsProcessor
<1>1. Init => Proc!Init
  BY DEF Init
<1>2. ASSUME ServiceInv, [Next]_vars
      PROVE  [UNCHANGED Proc!procVars \/ Proc!Next]_(Proc!procVars)
  BY <1>2, StepMaps, SameProcNext DEF Maps, Proc!procVars, ProcP!procVars
<1>3. QED
  BY <1>1, <1>2, ServiceHolds, PTL DEF Spec, ImplementsProcessor

\* Whatever the pool and the pipeline do, a request is handled as in Ingest.
THEOREM IsIngest == Spec => ImplementsIngest
<1>1. Init => HTTP!Init
  BY DEF Init
<1>2. ASSUME ServiceInv, [Next]_vars
      PROVE  [UNCHANGED HTTP!ingestVars \/ HTTP!Next]_(HTTP!ingestVars)
  BY <1>2, StepMaps, SameHttpNext DEF Maps, HTTP!ingestVars, HttpP!ingestVars
<1>3. QED
  BY <1>1, <1>2, ServiceHolds, PTL DEF Spec, ImplementsIngest

-----------------------------------------------------------------------------
(***************************************************************************)
(* The service keeps the promise of JobLifecycle.                          *)
(***************************************************************************)
\* What a client sees depends on the record, the decision and the rows alone.
LEMMA ClientViews ==
  /\ store' = store => Phase' = Phase
  /\ submit' = submit => Fate' = Fate
  /\ rows' = rows => Notes' = Notes
BY DEF Phase, Fate, Notes

\* A record that is stored, as a client sees it.
LEMMA PhaseOfPut ==
  ASSUME ServiceInv, NEW j \in Job, NEW rec, ProcP!Clone(rec) # Absent,
         store' = ProcP!Put(store, j, rec)
  PROVE  Phase' = [Phase EXCEPT ![j] = ProcP!Clone(rec).status]
<1>1. store \in [Job -> ProcP!JobType \cup {Absent}]
  BY DEF ServiceInv, ComponentInv, ProcP!PipelineInv, ProcP!TypeOK
<1>2. store' = [store EXCEPT ![j] = ProcP!Clone(rec)]
  BY DEF ProcP!Put
<1>3. QED
  BY <1>1, <1>2 DEF Phase

\* A request creates a job or withdraws a refused one.
LEMMA RequestLives ==
  ASSUME ServiceInv, NEW j \in Job, Arrive(j) \/ Disconnect(j) \/ Handle(j)
  PROVE  UNCHANGED Life!lifeVars \/ Life!Next
<1> USE DEF ServiceInv, ComponentInv
<1>1. Fate' = Fate /\ Notes' = Notes
  BY ClientViews DEF Arrive, Disconnect, Handle, poolVars, procVars
<1>2. HttpP!Arrive(j) \/ HttpP!Disconnect(j) \/ HttpP!Handler(j)
  BY SameHandler DEF Arrive, Disconnect, Handle, HTTP!Arrive, HttpP!Arrive,
     HTTP!Disconnect, HttpP!Disconnect, HTTP!Active, HttpP!Active,
     HTTP!Goes, HttpP!Goes
<1>3. CASE store' = store
  BY <1>1, <1>3, ClientViews DEF Life!lifeVars
<1>4. CASE HttpP!Create(j)
  <2>1. store[j] = Absent /\ store' = ProcP!Put(store, j, ProcP!NewJob)
    BY <1>4, SameRecords DEF HttpP!Create, HttpP!CreateOK
  <2>2. ProcP!Clone(ProcP!NewJob) = ProcP!NewJob /\ ProcP!NewJob.status = "queued"
        /\ ProcP!NewJob # Absent
    BY Assumptions, ProcP!Records, ProcP!ClonesOf DEF ProcP!AbsentAssumption
  <2>3. Phase[j] = "absent" /\ Phase' = [Phase EXCEPT ![j] = "queued"]
    BY <2>1, <2>2, PhaseOfPut DEF Phase
  <2>4. Life!Create(j)
    BY <1>1, <2>3 DEF Life!Create, Life!Becomes
  <2>5. QED
    BY <2>4 DEF Life!Next
<1>5. CASE HttpP!FailQueued(j) /\ store' # store
  <2> DEFINE refused == ProcP!Fail(ProcP!NewJob, "enqueue")
  <2>1. /\ store[j] = ProcP!NewJob /\ Outcome[j] \in {"full", "rejected"}
        /\ store' = ProcP!Put(store, j, refused)
    BY <1>5, SameRecords
    DEF HttpP!FailQueued, HttpP!Answers, HttpP!Goes, HttpP!IngestInv, HttpP!Request,
        HttpP!Refusal
  <2>2. /\ ProcP!Clone(refused) = refused /\ refused.status = "failed"
        /\ refused # Absent
        /\ ProcP!NewJob.status = "queued" /\ ProcP!NewJob # Absent
    <3>1. "enqueue" \in ProcP!Reason
      BY Assumptions, ProcP!Reasons
    <3>2. /\ refused \in ProcP!JobType /\ refused.status = "failed"
          /\ refused.result = Absent
      BY <3>1, Assumptions, ProcP!Records
    <3>3. ProcP!NewJob \in ProcP!JobType /\ ProcP!NewJob.status = "queued"
      BY Assumptions, ProcP!Records
    <3> HIDE DEF refused
    <3>4. QED
      BY <3>2, <3>3, Assumptions, ProcP!ClonesOf DEF ProcP!AbsentAssumption
  <2> HIDE DEF refused
  <2>3. Phase[j] = "queued" /\ Phase' = [Phase EXCEPT ![j] = "failed"]
    BY <2>1, <2>2, PhaseOfPut DEF Phase
  <2>4. Fate[j] = "refused"
    BY <2>1 DEF Outcome, Fate
  <2>5. Life!Withdraw(j)
    BY <1>1, <2>3, <2>4 DEF Life!Withdraw, Life!Becomes
  <2>6. QED
    BY <2>5 DEF Life!Next
<1>6. QED
  BY <1>2, <1>3, <1>4, <1>5
  DEF HttpP!Arrive, HttpP!Disconnect, HttpP!Handler, HttpP!Reject,
      HttpP!BodyFails, HttpP!SpoolCreates, HttpP!SpoolCreateFails,
      HttpP!SpoolCopies, HttpP!SpoolCopyFails, HttpP!CreateFails,
      HttpP!Submitted, HttpP!Refused

\* Pool.Submit admits or refuses a queued job.
LEMMA SubmitLives ==
  ASSUME ServiceInv, NEW j \in Job, Submit(j)
  PROVE  UNCHANGED Life!lifeVars \/ Life!Next
<1> USE DEF ServiceInv, ComponentInv
<1>1. /\ Phase' = Phase /\ Notes' = Notes /\ req[j] = "submit"
      /\ submit[j] \in {"idle", "rlocked", "selecting"}
      /\ \E to \in {"rlocked", "selecting", "accepted", "full", "rejected"} :
           submit' = [submit EXCEPT ![j] = to]
  BY ClientViews DEF Submit, procVars, Pool!SubmitAction, Pool!SubmitProceeds,
     Pool!SubmitRLock, Pool!SubmitChecksClosed, Pool!SubmitSends, Pool!SubmitDefault,
     Pool!SubmitSteps
<1>2. PICK to \in {"rlocked", "selecting", "accepted", "full", "rejected"} :
        submit' = [submit EXCEPT ![j] = to]
  BY <1>1
<1>3. submit \in [Job -> PoolP!SubmitState]
  BY DEF PoolP!PoolInv, PoolP!TypeOK
<1>4. Phase[j] = "queued" /\ Fate[j] = "open"
  <2>1. store[j] = ProcP!NewJob
    BY <1>1, SameRecords DEF HttpP!IngestInv, HttpP!Request, HttpP!Submitting, Outcome
  <2>2. ProcP!NewJob.status = "queued" /\ ProcP!NewJob # Absent
    BY Assumptions, ProcP!Records DEF ProcP!AbsentAssumption
  <2>3. QED
    BY <1>1, <2>1, <2>2 DEF Phase, Fate
<1>5. CASE to \in {"rlocked", "selecting"}
  <2>1. Fate' = Fate
    BY <1>1, <1>2, <1>3, <1>5 DEF Fate
  <2>2. QED
    BY <1>1, <2>1 DEF Life!lifeVars
<1>6. CASE to = "accepted"
  <2>1. Fate' = [Fate EXCEPT ![j] = "admitted"]
    BY <1>1, <1>2, <1>3, <1>6 DEF Fate
  <2>2. Life!Admit(j)
    BY <1>1, <1>4, <2>1 DEF Life!Admit, Life!Decided
  <2>3. QED
    BY <2>2 DEF Life!Next
<1>7. CASE to \in {"full", "rejected"}
  <2>1. Fate' = [Fate EXCEPT ![j] = "refused"]
    BY <1>1, <1>2, <1>3, <1>7 DEF Fate
  <2>2. Life!Refuse(j)
    BY <1>1, <1>4, <2>1 DEF Life!Refuse, Life!Decided
  <2>3. QED
    BY <2>2 DEF Life!Next
<1>8. QED
  BY <1>5, <1>6, <1>7

\* The pipeline starts, delivers, completes or fails an admitted job.
LEMMA ProcessLives ==
  ASSUME ServiceInv, NEW j \in Job, Process(j)
  PROVE  UNCHANGED Life!lifeVars \/ Life!Next
<1> USE DEF ServiceInv, ComponentInv
<1>1. ProcP!Process(j) /\ Fate' = Fate
  BY SameProcess, ClientViews DEF Process, poolVars
<1>2. Fate[j] = "admitted"
  <2>1. j \in Running
    BY <1>1 DEF ProcP!Process, ProcP!Load, ProcP!LoadFails, ProcP!Mark, ProcP!MarkFails,
       ProcP!Transcribe, ProcP!TranscribeFails, ProcP!Analyze, ProcP!AnalyzeFails,
       ProcP!Succeeds, ProcP!Fails, ProcP!Deliver, ProcP!DeliverFails, ProcP!Persist,
       ProcP!CompletePersists, ProcP!FailPersists, ProcP!PersistFails, ProcP!Goes
  <2>2. QED
    BY <2>1, RunningTasks DEF Fate
<1>3. ProcP!Pipeline(j)
  BY DEF ProcP!PipelineInv
<1>4. /\ ProcP!NewJob # Absent /\ ProcP!NewJob.status = "queued"
      /\ ProcP!Started # Absent /\ ProcP!Started.status = "processing"
      /\ ProcP!Clone(ProcP!Started) = ProcP!Started
  <2>1. /\ ProcP!NewJob \in ProcP!JobType /\ ProcP!NewJob.status = "queued"
        /\ ProcP!Started \in ProcP!JobType /\ ProcP!Started.status = "processing"
    BY Assumptions, ProcP!Records
  <2>2. ProcP!Clone(ProcP!Started) = ProcP!Started
    BY Assumptions, ProcP!Records, ProcP!ClonesOf
  <2>3. Absent \notin ProcP!JobType
    BY Assumptions DEF ProcP!AbsentAssumption
  <2>4. QED
    BY <2>1, <2>2, <2>3
<1>5. CASE store' = store /\ rows' = rows
  BY <1>1, <1>5, ClientViews DEF Life!lifeVars
<1>6. CASE ProcP!Mark(j)
  <2>1. /\ store[j] = ProcP!NewJob /\ store' = ProcP!Put(store, j, ProcP!Started)
        /\ rows' = rows
    BY <1>3, <1>6 DEF ProcP!Mark, ProcP!Goes, ProcP!Pipeline, ProcP!Working
  <2>2. Phase[j] = "queued" /\ Phase' = [Phase EXCEPT ![j] = "processing"]
    BY <1>4, <2>1, PhaseOfPut DEF Phase
  <2>3. Life!Start(j)
    BY <1>1, <1>2, <2>1, <2>2, ClientViews DEF Life!Start, Life!Becomes
  <2>4. QED
    BY <2>3 DEF Life!Next
<1>7. CASE ProcP!CompletePersists(j)
  <2>1. ProcP!Completing(j) /\ store' = ProcP!Put(store, j, job[j]) /\ rows' = rows
    BY <1>3, <1>7 DEF ProcP!CompletePersists, ProcP!Persist, ProcP!Goes, ProcP!Pipeline
  <2>2. /\ store[j] = ProcP!Started
        /\ job[j] \in ProcP!Completions /\ Len(rows[j]) = 1
    <3>1. job[j] \in ProcP!Completions /\ Len(rows[j]) = 1
      BY <2>1, Assumptions, ProcP!CompletingAre
    <3>2. QED
      BY <2>1, <3>1 DEF ProcP!Completing
  <2>3. ProcP!Clone(job[j]) # Absent /\ ProcP!Clone(job[j]).status = "completed"
    BY <2>2, Assumptions, ProcP!ClonesOf DEF ProcP!AbsentAssumption
  <2>4. Phase[j] = "processing" /\ Phase' = [Phase EXCEPT ![j] = "completed"]
    BY <1>4, <2>1, <2>2, <2>3, PhaseOfPut DEF Phase
  <2>5. Life!Complete(j)
    BY <1>1, <2>1, <2>2, <2>4, ClientViews DEF Life!Complete, Life!Becomes, Notes
  <2>6. QED
    BY <2>5 DEF Life!Next
<1>8. CASE ProcP!FailPersists(j)
  <2>1. /\ store[j] = ProcP!Started /\ job[j] \in ProcP!Failures
        /\ store' = ProcP!Put(store, j, job[j]) /\ rows' = rows
    BY <1>3, <1>8 DEF ProcP!FailPersists, ProcP!Persist, ProcP!Goes, ProcP!Pipeline,
       ProcP!Failing
  <2>2. ProcP!Clone(job[j]) # Absent /\ ProcP!Clone(job[j]).status = "failed"
    <3>1. job[j] \in ProcP!JobType /\ job[j].status = "failed" /\ job[j].result = Absent
      BY <2>1, Assumptions, ProcP!Failed
    <3>2. ProcP!Clone(job[j]) = job[j]
      BY <3>1, Assumptions, ProcP!ClonesOf
    <3>3. Absent \notin ProcP!JobType
      BY Assumptions DEF ProcP!AbsentAssumption
    <3>4. QED
      BY <3>1, <3>2, <3>3
  <2>3. Phase[j] = "processing" /\ Phase' = [Phase EXCEPT ![j] = "failed"]
    BY <1>4, <2>1, <2>2, PhaseOfPut DEF Phase
  <2>4. Life!Fail(j)
    BY <1>1, <2>1, <2>3, ClientViews DEF Life!Fail, Life!Becomes
  <2>5. QED
    BY <2>4 DEF Life!Next
<1>9. CASE (ProcP!Deliver(j) \/ ProcP!DeliverFails(j)) /\ rows' # rows
  <2>1. /\ store[j] = ProcP!Started /\ rows[j] = <<>> /\ store' = store
        /\ \E row : rows' = [rows EXCEPT ![j] = Append(rows[j], row)]
    BY <1>3, <1>9 DEF ProcP!Deliver, ProcP!DeliverFails, ProcP!Fails, ProcP!Goes,
       ProcP!Pipeline, ProcP!Working, ProcP!Undelivered
  <2>2. PICK row : rows' = [rows EXCEPT ![j] = Append(<<>>, row)]
    BY <2>1
  <2>3. Len(<<>>) = 0 /\ Len(Append(<<>>, row)) = 1
    OBVIOUS
  <2>4. DOMAIN rows = Job
    BY DEF ProcP!PipelineInv, ProcP!TypeOK
  <2>5. Notes[j] = 0 /\ Notes' = [Notes EXCEPT ![j] = 1]
    BY <2>1, <2>2, <2>3, <2>4 DEF Notes
  <2>6. Phase[j] = "processing"
    BY <1>4, <2>1 DEF Phase
  <2>7. Life!Deliver(j)
    BY <1>1, <2>1, <2>5, <2>6, ClientViews DEF Life!Deliver
  <2>8. QED
    BY <2>7 DEF Life!Next
<1>10. QED
  BY <1>1, <1>5, <1>6, <1>7, <1>8, <1>9
  DEF ProcP!Process, ProcP!Load, ProcP!LoadFails, ProcP!MarkFails,
      ProcP!Transcribe, ProcP!TranscribeFails, ProcP!Analyze, ProcP!AnalyzeFails,
      ProcP!Succeeds, ProcP!Fails, ProcP!Deliver, ProcP!DeliverFails, ProcP!PersistFails

\* Nothing else is seen by a client.
LEMMA OthersLive ==
  ASSUME \/ \E w \in Worker : WorkerMoves(w) \/ Deadline(w) \/ ProcessReturns(w) \/ Cleanup(w)
         \/ GraceExpires \/ Signal \/ ListenerFails \/ ServerShutdown
         \/ PoolShutdown \/ Exit \/ UNCHANGED vars
  PROVE  UNCHANGED Life!lifeVars
<1>1. UNCHANGED <<store, submit, rows>>
  BY DEF WorkerMoves, Deadline, ProcessReturns, Cleanup, GraceExpires, Signal,
     ListenerFails, ServerShutdown, PoolShutdown, Exit, vars, poolVars, procVars,
     Pool!Receive, Pool!Exit, Pool!Deadline, Pool!ProcessReturns, Pool!Cleanup,
     Pool!GraceExpires, Pool!ShutdownLocks, Pool!ShutdownProceeds, Pool!ShutdownAgain,
     Pool!ShutdownCloses, Pool!ShutdownDrained, Pool!ShutdownGraceOver,
     Pool!ShutdownUnwound, Pool!submitVars
<1>2. QED
  BY <1>1, ClientViews DEF Life!lifeVars

\* What a client is promised about its recording holds of the whole service.
THEOREM KeepsPromise == Spec => ImplementsLifecycle
<1>1. Init => Life!Init
  <2>1. Len(<<>>) = 0
    OBVIOUS
  <2>2. QED
    BY <2>1 DEF Init, Pool!Init, Proc!Init, Life!Init, Phase, Fate, Notes
<1>2. ASSUME ServiceInv, [Next]_vars
      PROVE  [UNCHANGED Life!lifeVars \/ Life!Next]_(Life!lifeVars)
  BY <1>2, RequestLives, SubmitLives, ProcessLives, OthersLive DEF Next, Terminated
<1>3. QED
  BY <1>1, <1>2, ServiceHolds, PTL DEF Spec, ImplementsLifecycle
-----------------------------------------------------------------------------
(***************************************************************************)
(* What is proved about the components holds of the service they make up.  *)
(***************************************************************************)
\* The service runs a pool as WorkerPool has it.
LEMMA PoolRuns == Spec => PoolP!Spec
<1>1. Pool!Init => PoolP!Init
  BY DEF Pool!Init, PoolP!Init
<1>2. [UNCHANGED Pool!poolVars \/ Pool!Next]_(Pool!poolVars) => [PoolP!Next]_(PoolP!poolVars)
  BY SamePool DEF Pool!poolVars, PoolP!poolVars
<1>3. QED
  BY <1>1, <1>2, IsPool, PTL DEF ImplementsPool, PoolP!Spec

\* The service runs a pipeline as Processor has it.
LEMMA PipelineRuns == Spec => ProcP!Spec
<1>1. Proc!Init => ProcP!Init
  BY DEF Proc!Init, ProcP!Init
<1>2. [UNCHANGED Proc!procVars \/ Proc!Next]_(Proc!procVars) => [ProcP!Next]_(ProcP!procVars)
  BY SameProcNext DEF Proc!procVars, ProcP!procVars
<1>3. QED
  BY <1>1, <1>2, IsProcessor, PTL DEF ImplementsProcessor, ProcP!Spec

\* The service handles requests as Ingest has it.
LEMMA HandlerRuns == Spec => HttpP!Spec
<1>1. HTTP!Init => HttpP!Init
  BY DEF HTTP!Init, HttpP!Init
<1>2. [UNCHANGED HTTP!ingestVars \/ HTTP!Next]_(HTTP!ingestVars) => [HttpP!Next]_(HttpP!ingestVars)
  BY SameHttpNext DEF HTTP!ingestVars, HttpP!ingestVars
<1>3. QED
  BY <1>1, <1>2, IsIngest, PTL DEF ImplementsIngest, HttpP!Spec

\* In the whole service, too, no task is sent on the closed channel, none is lost
\* or run twice, the shutdown drains, and only a grace period's end aborts work.
THEOREM PoolInService ==
  Spec => [](/\ Pool!NoSendOnClosed /\ Pool!EachTaskInOnePlace
             /\ Pool!ShutdownDrains /\ Pool!AbortOnlyAfterGrace)
<1>1. PoolP!Spec => [](/\ PoolP!NoSendOnClosed /\ PoolP!EachTaskInOnePlace
                       /\ PoolP!ShutdownDrains /\ PoolP!AbortOnlyAfterGrace)
  BY Assumptions, PoolP!SendsOnlyWhileOpen, PoolP!TasksAreConserved,
     PoolP!ShutdownDrainsPool, PoolP!AbortsOnlyAfterGrace, PTL
<1>2. /\ PoolP!NoSendOnClosed /\ PoolP!EachTaskInOnePlace
      /\ PoolP!ShutdownDrains /\ PoolP!AbortOnlyAfterGrace
      => /\ Pool!NoSendOnClosed /\ Pool!EachTaskInOnePlace
         /\ Pool!ShutdownDrains /\ Pool!AbortOnlyAfterGrace
  BY DEF Pool!NoSendOnClosed, PoolP!NoSendOnClosed, Pool!EachTaskInOnePlace,
         PoolP!EachTaskInOnePlace, Pool!ShutdownDrains, PoolP!ShutdownDrains,
         Pool!AbortOnlyAfterGrace, PoolP!AbortOnlyAfterGrace, Pool!Accepted,
         PoolP!Accepted, Pool!Pending, PoolP!Pending, Pool!Held, PoolP!Held,
         Pool!AllExited, PoolP!AllExited
<1>3. QED
  BY <1>1, <1>2, PoolRuns, PTL

\* In the whole service, too, the store only has records the status endpoint can
\* render, at most one note is written, the one polled is the one delivered, a
\* reason tells whether one was written, and a return settles the job.
THEOREM PipelineInService ==
  Spec => [](/\ Proc!StoreWellFormed /\ Proc!DeliveredOnce /\ Proc!PolledAsDelivered
             /\ Proc!ReasonTellsDelivery /\ Proc!SettledUnlessExpired)
<1>1. ProcP!Spec => [](/\ ProcP!StoreWellFormed /\ ProcP!DeliveredOnce
                       /\ ProcP!PolledAsDelivered /\ ProcP!ReasonTellsDelivery
                       /\ ProcP!SettledUnlessExpired)
  BY Assumptions, ProcP!RecordsWellFormed, ProcP!NoteDeliveredOnce,
     ProcP!PolledIsDelivered, ProcP!ReasonsTell, ProcP!ReturnedIsSettled, PTL
<1>2. ProcP!StoreWellFormed /\ ProcP!DeliveredOnce => Proc!StoreWellFormed /\ Proc!DeliveredOnce
  BY DEF Proc!StoreWellFormed, ProcP!StoreWellFormed, Proc!WellFormed, ProcP!WellFormed,
         Proc!DeliveredOnce, ProcP!DeliveredOnce, Proc!Rank, ProcP!Rank
<1>3. ProcP!PolledAsDelivered => Proc!PolledAsDelivered
  BY DEF Proc!PolledAsDelivered, ProcP!PolledAsDelivered, Proc!Rank, ProcP!Rank,
         Proc!StatusResponse, ProcP!StatusResponse, Proc!DTO, ProcP!DTO,
         Proc!Row, ProcP!Row, Proc!Line, ProcP!Line
<1>4. ProcP!ReasonTellsDelivery /\ ProcP!SettledUnlessExpired
      => Proc!ReasonTellsDelivery /\ Proc!SettledUnlessExpired
  BY DEF Proc!ReasonTellsDelivery, ProcP!ReasonTellsDelivery,
         Proc!SettledUnlessExpired, ProcP!SettledUnlessExpired
<1>5. QED
  BY <1>1, <1>2, <1>3, <1>4, PipelineRuns, PTL

\* In the whole service, too, no step takes a job's record backwards.
THEOREM MonotoneInService == Spec => Proc!StatusMonotone
<1>1. ProcP!Spec => ProcP!StatusMonotone
  BY Assumptions, ProcP!NeverBackwards
<1>2. [\A j \in Job : ProcP!NeverGoesBack(store[j], store'[j])]_(ProcP!procVars)
      => [\A j \in Job : Proc!NeverGoesBack(store[j], store'[j])]_(Proc!procVars)
  BY DEF Proc!NeverGoesBack, ProcP!NeverGoesBack, Proc!Rank, ProcP!Rank,
         Proc!procVars, ProcP!procVars
<1>3. QED
  BY <1>1, <1>2, PipelineRuns, PTL DEF Proc!StatusMonotone, ProcP!StatusMonotone

\* In the whole service, too, a file has its owner, an answer tells what the pool
\* did or what is wrong with the upload, only a sound one leaves a trace, and a
\* refused job is settled unless its client has gone.
THEOREM HandlerInService ==
  Spec => [](/\ HTTP!UploadHasOwner /\ HTTP!AnswerMatchesPool /\ HTTP!OnlySoundKept
             /\ HTTP!RefusalFitsUpload /\ HTTP!RefusedIsSettled)
<1>1. HttpP!Spec => [](/\ HttpP!UploadHasOwner /\ HttpP!AnswerMatchesPool
                       /\ HttpP!OnlySoundKept /\ HttpP!RefusalFitsUpload
                       /\ HttpP!RefusedIsSettled)
  BY Assumptions, HttpP!FileHasOwner, HttpP!AnswerIsPools, HttpP!SoundUploadsOnly,
     HttpP!RefusalsFit, HttpP!RefusalSettles, PTL
<1>2. /\ HttpP!UploadHasOwner /\ HttpP!AnswerMatchesPool /\ HttpP!OnlySoundKept
      /\ HttpP!RefusalFitsUpload /\ HttpP!RefusedIsSettled
      => /\ HTTP!UploadHasOwner /\ HTTP!AnswerMatchesPool /\ HTTP!OnlySoundKept
         /\ HTTP!RefusalFitsUpload /\ HTTP!RefusedIsSettled
  BY DEF HTTP!UploadHasOwner, HttpP!UploadHasOwner, HTTP!AnswerMatchesPool,
         HttpP!AnswerMatchesPool, HTTP!OnlySoundKept, HttpP!OnlySoundKept,
         HTTP!RefusalFitsUpload, HttpP!RefusalFitsUpload, HTTP!RefusedIsSettled,
         HttpP!RefusedIsSettled, HTTP!Refusal, HttpP!Refusal, HTTP!Invalid,
         HttpP!Invalid, HTTP!Terminal, HttpP!Terminal, HTTP!NewJob, HttpP!NewJob,
         HTTP!Fail, HttpP!Fail
<1>3. QED
  BY <1>1, <1>2, HandlerRuns, PTL

-----------------------------------------------------------------------------
(***************************************************************************)
(* What the service's clients can count on.                                *)
(***************************************************************************)
\* A life as JobLifecycle has it keeps the promise.
LEMMA LifeStep ==
  ASSUME Life!Promise, DOMAIN Phase = Job, DOMAIN Fate = Job, DOMAIN Notes = Job,
         [UNCHANGED Life!lifeVars \/ Life!Next]_(Life!lifeVars)
  PROVE  Life!Promise'
<1> USE DEF Life!Promise
<1>1. CASE UNCHANGED Life!lifeVars
  BY <1>1 DEF Life!lifeVars
<1>2. ASSUME NEW j \in Job,
             \/ Life!Create(j) \/ Life!Admit(j) \/ Life!Refuse(j) \/ Life!Withdraw(j)
             \/ Life!Start(j) \/ Life!Deliver(j) \/ Life!Complete(j) \/ Life!Fail(j)
      PROVE  Life!Promise'
  BY <1>2 DEF Life!Create, Life!Admit, Life!Refuse, Life!Withdraw, Life!Start,
     Life!Deliver, Life!Complete, Life!Fail, Life!Becomes, Life!Decided
<1>3. QED
  BY <1>1, <1>2 DEF Life!Next

\* Whatever handlers, pool, workers and shutdown do, a recording leads to at most
\* one note, and only through an admitted job.
THEOREM PromiseHolds == Spec => []Life!Promise
<1>1. Life!Init => Life!Promise
  BY DEF Life!Init, Life!Promise
<1>2. DOMAIN Phase = Job /\ DOMAIN Fate = Job /\ DOMAIN Notes = Job
  BY DEF Phase, Fate, Notes
<1>3. Life!Promise /\ [UNCHANGED Life!lifeVars \/ Life!Next]_(Life!lifeVars) => Life!Promise'
  BY <1>2, LifeStep
<1>4. QED
  BY <1>1, <1>3, KeepsPromise, PTL DEF ImplementsLifecycle

\* The record of a processed and settled job is completed, or has a reason that
\* is not the pool's.
LEMMA SettledRecord ==
  ASSUME ServiceInv, NEW j \in Job, j \in finished, HTTP!Terminal(store[j])
  PROVE  /\ store[j] # Absent
         /\ \/ store[j].status = "completed" /\ store[j].err = ""
            \/ /\ store[j].status = "failed" /\ store[j].result = Absent
               /\ store[j].err \in {"transcription", "analysis", "delivery"}
<1>1. stage[j] \in {"ok", "error"} /\ ProcP!Pipeline(j)
  BY DEF ServiceInv, ComponentInv, Linked, ProcP!PipelineInv
<1>2. store[j] # Absent /\ store[j].status \in {"completed", "failed"}
  BY DEF HTTP!Terminal
<1>3. CASE stage[j] = "ok"
  <2>1. store[j] \in ProcP!Stored
    BY <1>1, <1>3, Assumptions, ProcP!CompletedAre DEF ProcP!Pipeline
  <2>2. QED
    BY <1>2, <2>1, Assumptions, ProcP!ClonesOf DEF ProcP!Stored
<1>4. CASE stage[j] = "error"
  <2>1. store[j] \in ProcP!Failures
    <3>1. /\ ProcP!NewJob.status = "queued" /\ ProcP!Started.status = "processing"
      BY Assumptions, ProcP!Records
    <3>2. QED
      BY <1>1, <1>2, <1>4, <3>1 DEF ProcP!Pipeline, ProcP!Broken, ProcP!Failing
  <2>2. QED
    BY <1>2, <2>1, Assumptions, ProcP!Failed DEF ProcP!Reason, ProcP!StageError
<1>5. QED
  BY <1>1, <1>3, <1>4

\* A row is only there for an accepted task.
LEMMA RowsAccepted ==
  ASSUME ServiceInv, NEW j \in Job, rows[j] # <<>>
  PROVE  submit[j] = "accepted"
<1>1. ProcP!Pipeline(j) /\ Linked(j)
  BY DEF ServiceInv, ComponentInv, ProcP!PipelineInv
<1>2. stage[j] # "load"
  BY <1>1 DEF ProcP!Pipeline, ProcP!AtLoad, ProcP!Undelivered
<1>3. QED
  BY <1>1, <1>2 DEF Linked

\* From the request to the exit: what a 202 comes to, and what a note comes from.
THEOREM AnswersKept == Spec => []AnswerKept
<1> DEFINE Answered  == \A j \in Job : answer[j] # "none" => req[j] = "done"
           Handled   == HTTP!AnswerMatchesPool /\ HTTP!OnlySoundKept /\ Answered
           Processed == Proc!PolledAsDelivered /\ Proc!ReasonTellsDelivery
<1>1. ASSUME ServiceInv, ExitAccountsForAll, Handled, Processed
      PROVE  AnswerKept
  <2>1. ASSUME NEW j \in Job, answer[j] = "202", phase = "stopped",
               closer[Main] = "nil", j \notin timedOut
        PROVE  /\ j \notin temp
               /\ \/ /\ store[j].status = "completed" /\ store[j].err = ""
                     /\ rows[j] = <<Proc!Row(Proc!StatusResponse(store[j]).result)>>
                  \/ /\ store[j].status = "failed" /\ store[j].result = Absent
                     /\ store[j].err \in {"transcription", "analysis", "delivery"}
                     /\ store[j].err # "delivery" => rows[j] = <<>>
    <3>1. submit[j] = "accepted"
      <4>1. req[j] = "done"
        BY <1>1, <2>1
      <4>2. Outcome[j] = "accepted"
        BY <1>1, <2>1, <4>1 DEF HTTP!AnswerMatchesPool
      <4>3. QED
        BY <4>2 DEF Outcome
    <3>2. j \in finished /\ j \notin temp /\ HTTP!Terminal(store[j])
      BY <1>1, <2>1, <3>1 DEF ExitAccountsForAll, Pool!Accepted
    <3>3. CASE store[j].status = "completed" /\ store[j].err = ""
      <4>1. Proc!Rank(store[j]) = 3
        BY <1>1, <3>2, <3>3, SettledRecord DEF Proc!Rank
      <4>2. rows[j] = <<Proc!Row(Proc!StatusResponse(store[j]).result)>>
        BY <1>1, <3>3, <4>1 DEF Proc!PolledAsDelivered
      <4>3. QED
        BY <3>2, <3>3, <4>2
    <3>4. CASE ~(store[j].status = "completed" /\ store[j].err = "")
      BY <1>1, <3>2, <3>4, SettledRecord DEF Proc!ReasonTellsDelivery
    <3>5. QED
      BY <3>3, <3>4
  <2>2. ASSUME NEW j \in Job, rows[j] # <<>>
        PROVE  /\ j \in Pool!Accepted
               /\ upload[j].form = "ok" /\ upload[j].allowed
               /\ upload[j].size \in 1..MaxBytes
               /\ ~TokenSet \/ "right" \in {upload[j].bearer, upload[j].key}
    <3>1. submit[j] = "accepted"
      BY <1>1, <2>2, RowsAccepted
    <3>2. Outcome[j] # "idle" /\ j \in Pool!Accepted
      BY <3>1 DEF Outcome, Pool!Accepted
    <3>3. QED
      BY <1>1, <3>2 DEF HTTP!OnlySoundKept
  <2>3. QED
    BY <2>1, <2>2 DEF AnswerKept
<1>2. Spec => []Handled
  <2>1. ServiceInv => Answered
    BY DEF ServiceInv, ComponentInv, HttpP!IngestInv, HttpP!TypeOK
  <2>2. QED
    BY <2>1, ServiceHolds, HandlerInService, PTL
<1>3. QED
  BY <1>1, <1>2, ServiceHolds, ExitAccounts, PipelineInService, PTL
=============================================================================
