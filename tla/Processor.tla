----------------------------- MODULE Processor ------------------------------
(***************************************************************************)
(* Processor.Process of internal/app/processor.go, run at most once for a  *)
(* job: load, mark processing, transcribe, analyze, deliver, complete.     *)
(* The ports it calls (OpenAI, Google Sheets or the log) are modelled by   *)
(* their outcomes.                                                         *)
(*                                                                         *)
(* Its surroundings are the environment actions at the end: the handler    *)
(* that creates the job or withdraws it again, the worker that calls       *)
(* Process, and the context that may be done at any moment.                *)
(***************************************************************************)
EXTENDS JobStore, Naturals, FiniteSets

VARIABLES
  store,    \* the shared job store
  stage,    \* control state of Process for each job
  job,      \* Process's own copy of the job
  note,     \* its analysis of the recording
  rows,     \* what the destination was given for each job
  running,  \* jobs for which a worker is inside Process
  ctxDone   \* jobs whose processing context is done

procVars == <<store, stage, job, note, rows, running, ctxDone>>

Stage == {"load", "mark", "transcribe", "analyze", "deliver",
          "complete", "fail", "ok", "error"}

Init ==
  /\ store   = [j \in Job |-> Absent]
  /\ stage   = [j \in Job |-> "load"]
  /\ job     = [j \in Job |-> Absent]
  /\ note    = [j \in Job |-> Absent]
  /\ rows    = [j \in Job |-> <<>>]
  /\ running = {}
  /\ ctxDone = {}

-----------------------------------------------------------------------------
Goes(j, from, to) ==
  /\ stage[j] = from
  /\ j \in running
  /\ stage' = [stage EXCEPT ![j] = to]

Copies(j, rec) == job' = [job EXCEPT ![j] = rec]

\* Get, then job.Start on the copy.
Load(j) ==
  /\ Goes(j, "load", "mark")
  /\ GetOK(store, j, j \in ctxDone)
  /\ Copies(j, Start(store[j]))
  /\ UNCHANGED <<store, note, rows, running, ctxDone>>

\* Mutant: a failed load is logged and the pipeline goes on.
LoadFailsOn(j) ==
  /\ Goes(j, "load", "mark")
  /\ ~GetOK(store, j, j \in ctxDone)
  /\ UNCHANGED <<store, job, note, rows, running, ctxDone>>

LoadFails(j) ==
  /\ Goes(j, "load", "error")
  /\ ~GetOK(store, j, j \in ctxDone)
  /\ UNCHANGED <<store, job, note, rows, running, ctxDone>>

Mark(j) ==
  /\ Goes(j, "mark", "transcribe")
  /\ UpdateOK(store, j, j \in ctxDone)
  /\ store' = Put(store, j, job[j])
  /\ UNCHANGED <<job, note, rows, running, ctxDone>>

MarkFails(j) ==
  /\ Goes(j, "mark", "error")
  /\ ~UpdateOK(store, j, j \in ctxDone)
  /\ UNCHANGED <<store, job, note, rows, running, ctxDone>>

\* The two provider calls.  A call made under a done context fails; the
\* step stands for the moment the call is made, so a reply that arrives
\* after the deadline is this step taken before it.  Any call may fail.
Succeeds(j, at, next) ==
  /\ Goes(j, at, next)
  /\ j \notin ctxDone
  /\ UNCHANGED <<store, job, rows, running, ctxDone>>

\* Mutant: the error is returned without the failure being recorded.
FailsUnrecorded(j, at, sentinel) ==
  /\ Goes(j, at, "error")
  /\ Copies(j, Fail(job[j], sentinel))

\* Processor.fail: job.Fail on the copy; FailPersists is its Update.
Fails(j, at, sentinel) ==
  /\ Goes(j, at, "fail")
  /\ Copies(j, Fail(job[j], sentinel))

\* What was heard matters to Analyze; a blank transcript is a failure.
Transcribe(j) ==
  /\ Succeeds(j, "transcribe", "analyze")
  /\ UNCHANGED note

TranscribeFails(j) ==
  /\ Fails(j, "transcribe", "transcription")
  /\ UNCHANGED <<store, note, rows, running, ctxDone>>

Analyze(j) ==
  /\ Succeeds(j, "analyze", "deliver")
  /\ \E p \in Payloads, heard \in Text :
       /\ Transcript(heard) # ""
       /\ note' = [note EXCEPT ![j] = Analysis(p, Transcript(heard))]

AnalyzeFails(j) ==
  /\ Fails(j, "analyze", "analysis")
  /\ UNCHANGED <<store, note, rows, running, ctxDone>>

\* Mutant: an ambiguous answer of the destination is retried.
DeliverRetried(j) ==
  /\ Goes(j, "deliver", "deliver")
  /\ rows' = [rows EXCEPT ![j] = Append(@, Row(note[j]))]
  /\ UNCHANGED <<store, job, note, running, ctxDone>>

\* Deliver writes the note; job.Complete follows on the copy.  The log
\* destination ignores the context, so a done one does not rule this out.
Deliver(j) ==
  /\ Goes(j, "deliver", "complete")
  /\ Copies(j, Complete(job[j], note[j]))
  /\ rows' = [rows EXCEPT ![j] = Append(@, Row(note[j]))]
  /\ UNCHANGED <<store, note, running, ctxDone>>

\* Mutant: the sentinel of the stage before.
DeliverFailsAsAnalysis(j) ==
  /\ Fails(j, "deliver", "analysis")
  /\ rows' = rows \/ rows' = [rows EXCEPT ![j] = Append(@, Row(note[j]))]
  /\ UNCHANGED <<store, note, running, ctxDone>>

\* An append that reports an error may have written the row before it.
DeliverFails(j) ==
  /\ Fails(j, "deliver", "delivery")
  /\ rows' = rows \/ rows' = [rows EXCEPT ![j] = Append(@, Row(note[j]))]
  /\ UNCHANGED <<store, note, running, ctxDone>>

\* The last Update, of the completed or the failed copy.
Persist(j, from, to) ==
  /\ Goes(j, from, to)
  /\ UpdateOK(store, j, j \in ctxDone)
  /\ store' = Put(store, j, job[j])
  /\ UNCHANGED <<job, note, rows, running, ctxDone>>

CompletePersists(j) == Persist(j, "complete", "ok")
FailPersists(j)     == Persist(j, "fail", "error")

PersistFails(j) ==
  /\ Goes(j, "complete", "error") \/ Goes(j, "fail", "error")
  /\ ~UpdateOK(store, j, j \in ctxDone)
  /\ UNCHANGED <<store, job, note, rows, running, ctxDone>>

Process(j) ==
  \/ Load(j) \/ LoadFails(j) \/ Mark(j) \/ MarkFails(j)
  \/ Transcribe(j) \/ TranscribeFails(j) \/ Analyze(j) \/ AnalyzeFails(j)
  \/ Deliver(j) \/ DeliverFails(j)
  \/ CompletePersists(j) \/ FailPersists(j) \/ PersistFails(j)

-----------------------------------------------------------------------------
(***************************************************************************)
(* The environment: Handlers.Submit and failQueued, the worker's call of   *)
(* Process and its return, deadlines and the end of a grace period.        *)
(***************************************************************************)
Enqueue(j) ==
  /\ store[j] = Absent
  /\ store' = Put(store, j, NewJob)
  /\ UNCHANGED <<stage, job, note, rows, running, ctxDone>>

Withdraw(j) ==
  /\ j \notin running
  /\ stage[j] = "load"
  /\ store[j] = NewJob
  /\ store' = Put(store, j, Fail(store[j], "enqueue"))
  /\ UNCHANGED <<stage, job, note, rows, running, ctxDone>>

Run(j) ==
  /\ j \notin running
  /\ stage[j] = "load"
  /\ store[j] = NewJob
  /\ running' = running \cup {j}
  /\ UNCHANGED <<store, stage, job, note, rows, ctxDone>>

Return(j) ==
  /\ j \in running
  /\ stage[j] \in {"ok", "error"}
  /\ running' = running \ {j}
  /\ UNCHANGED <<store, stage, job, note, rows, ctxDone>>

Expire ==
  /\ \E more \in SUBSET Job : ctxDone' = ctxDone \cup more
  /\ UNCHANGED <<store, stage, job, note, rows, running>>

\* Every job was withdrawn or has been processed.
Terminated ==
  /\ running = {}
  /\ \A j \in Job : stage[j] \in {"ok", "error"} \/ Terminal(store[j])
  /\ UNCHANGED procVars

Environment(j) == Enqueue(j) \/ Withdraw(j) \/ Run(j) \/ Return(j)

Next ==
  \/ \E j \in Job : Process(j) \/ Environment(j)
  \/ Expire
  \/ Terminated

Spec == Init /\ [][Next]_procVars

-----------------------------------------------------------------------------
\* Types; past the load, Process holds a record.
TypeOK ==
  /\ store \in [Job -> JobType \cup {Absent}]
  /\ stage \in [Job -> Stage]
  /\ job \in [Job -> JobType \cup {Absent}]
  /\ note \in [Job -> Notes \cup {Absent}]
  /\ rows \in [Job -> Seq({Row(n) : n \in Notes})]
  /\ running \subseteq Job
  /\ ctxDone \subseteq Job
  /\ \A j \in Job : stage[j] \notin {"load", "error"} => job[j] # Absent

\* Whatever the order of failures, the store only holds records the status
\* endpoint can render: a result exactly when completed, a reason exactly when
\* failed.
StoreWellFormed ==
  \A j \in Job : store[j] # Absent => WellFormed(store[j])

\* At most one note is written for a job (Deliver is never retried), and a
\* job is only reported completed once its note is written.
DeliveredOnce ==
  \A j \in Job :
    /\ Len(rows[j]) <= 1
    /\ Rank(store[j]) = 3 /\ store[j].status = "completed" => Len(rows[j]) = 1

\* The note a client polls is the note that was delivered, entry for entry, with
\* its transcript and without blank entries, though one went through the
\* store's copies and the other did not.
PolledAsDelivered ==
  \A j \in Job : Rank(store[j]) = 3 /\ store[j].status = "completed" =>
    LET polled == StatusResponse(store[j]).result IN
    /\ rows[j] = <<Row(polled)>>
    /\ polled.transcript # ""
    /\ \A i \in DOMAIN polled.keys : polled.keys[i] \notin {"", "spaces"}
    /\ \A i \in DOMAIN polled.items : polled.items[i].task \notin {"", "spaces"}

\* The reason a client reads tells what happened: unless it names the
\* delivery, no note was written.
ReasonTellsDelivery ==
  \A j \in Job :
    store[j] # Absent /\ store[j].err \in {"enqueue", "transcription", "analysis"}
      => rows[j] = <<>>

\* When Process has returned, the job is settled in the store as it returned
\* (nil: completed, error: failed), unless its context is done: only then can
\* a job be left behind in a state a poller sees forever.
SettledUnlessExpired ==
  \A j \in Job :
    /\ stage[j] = "ok" => store[j].status = "completed"
    /\ stage[j] = "error" /\ j \notin ctxDone => store[j].status = "failed"

\* A poller never sees a job go backwards, nor a terminal record change.
StatusMonotone ==
  [][\A j \in Job : NeverGoesBack(store[j], store'[j])]_procVars

-----------------------------------------------------------------------------
\* What Process's comment says: an error return means "the job is also marked
\* failed in the store".  Not so when the context is done: fail's own Update
\* then fails as well.
ErrorMeansMarkedFailed ==
  \A j \in Job :
    stage[j] = "error" /\ job[j] # Absent /\ job[j].status = "failed"
      => store[j].status = "failed"

\* What the sheets adapter and the README say: "at-least-once delivery with
\* possible duplicates".  Once Process has reached Deliver and returned, nobody
\* will deliver again.
AtLeastOnceDelivery ==
  \A j \in Job :
    stage[j] = "error" /\ store[j] # Absent /\ store[j].err = "delivery"
      => rows[j] # <<>>
=============================================================================
