------------------------------ MODULE Service -------------------------------
(***************************************************************************)
(* The running service: the composition root of cmd/server/main.go wires   *)
(* the HTTP handlers, the worker pool, the processor and the store, serves *)
(* until a signal or a listener error, and shuts down.                     *)
(*                                                                         *)
(* The components are the modules Ingest (HTTP), WorkerPool (Pool) and     *)
(* Processor (Proc), over shared variables: a handler at "submit" is       *)
(* inside Pool.Submit, a "running" worker is inside Processor.Process      *)
(* under the pool's context, and main is the one caller of Shutdown.       *)
(***************************************************************************)
EXTENDS Naturals, Sequences, FiniteSets

CONSTANTS
  Job, Worker, QueueSize, None, Main,
  Payloads, Absent,                          \* Processor
  Uploads, TokenSet, MaxBytes, FormBytes     \* Ingest

VARIABLES
  submit, queue, closed, closer, graceOver, baseCancelled,
  worker, task, timedOut, finished,          \* WorkerPool
  store, stage, job, note, rows,             \* Processor
  upload, req, answer, temp, gone,           \* Ingest
  phase                                      \* main's progress

poolVars == <<submit, queue, closed, closer, graceOver, baseCancelled,
              worker, task, timedOut, finished>>
procVars == <<stage, job, note, rows>>
httpVars == <<upload, req, answer, gone>>
vars     == <<poolVars, procVars, httpVars, store, temp, phase>>

Pool == INSTANCE WorkerPool WITH Closer <- {Main}

\* The processor's view: a task is being processed while its worker is
\* running, under the context runTask made for it.
Running == {task[w] : w \in {v \in Worker : worker[v] = "running"}}
Expired == {j \in Job : Pool!CtxDone(j)}

Proc == INSTANCE Processor WITH running <- Running, ctxDone <- Expired

\* The handler's view: Submit is one step.
Outcome == [j \in Job |-> IF submit[j] \in {"rlocked", "selecting"}
                          THEN "idle" ELSE submit[j]]

HTTP == INSTANCE Ingest WITH submit <- Outcome

\* A client's view.
Phase == [j \in Job |-> IF store[j] = Absent THEN "absent" ELSE store[j].status]
Fate  == [j \in Job |-> IF submit[j] = "accepted" THEN "admitted"
                        ELSE IF submit[j] \in {"full", "rejected"} THEN "refused"
                        ELSE "open"]

Notes == [j \in Job |-> Len(rows[j])]

Life == INSTANCE JobLifecycle WITH phase <- Phase, fate <- Fate, rows <- Notes

\* What each of the three assumes of its constants.
ASSUME ServiceAssumption ==
  /\ Pool!PoolAssumption
  /\ Proc!NoteAssumption /\ Proc!AbsentAssumption
  /\ HTTP!UploadAssumption

-----------------------------------------------------------------------------
\* run: "serving" until a signal ("stopping": server.Shutdown, "draining":
\* pool.Shutdown, "stopped") or a listener error ("dead").
Alive == phase \in {"serving", "stopping", "draining"}

Init == Pool!Init /\ Proc!Init /\ HTTP!Init /\ phase = "serving"

Moves(from, to) == phase = from /\ phase' = to

-----------------------------------------------------------------------------
\* A request can still come in while server.Shutdown runs, on a connection that
\* was accepted before it closed the listener.
Arrive(j) ==
  /\ phase \in {"serving", "stopping"}
  /\ UNCHANGED <<poolVars, procVars, phase>>
  /\ HTTP!Arrive(j)

Disconnect(j) ==
  /\ UNCHANGED <<poolVars, procVars, phase>>
  /\ HTTP!Disconnect(j)

Handle(j) ==
  /\ UNCHANGED <<poolVars, procVars, phase>>
  /\ HTTP!Handler(j)

\* Mutant: the task is submitted before its job is created.
SubmitsEarly(j) ==
  /\ req[j] \in {"create", "submit"}
  /\ UNCHANGED <<procVars, httpVars, store, temp, phase>>
  /\ Pool!SubmitAction(j)

\* The handler inside Pool.Submit.
Submit(j) ==
  /\ req[j] = "submit"
  /\ UNCHANGED <<procVars, httpVars, store, temp, phase>>
  /\ Pool!SubmitAction(j)

-----------------------------------------------------------------------------
WorkerMoves(w) ==
  /\ UNCHANGED <<procVars, httpVars, store, temp, phase>>
  /\ Pool!Receive(w) \/ Pool!Exit(w)

Deadline(w) ==
  /\ UNCHANGED <<procVars, httpVars, store, temp, phase>>
  /\ Pool!Deadline(w)

Process(j) ==
  /\ UNCHANGED <<poolVars, httpVars, temp, phase>>
  /\ Proc!Process(j)

ProcessReturns(w) ==
  /\ worker[w] = "running"
  /\ stage[task[w]] \in {"ok", "error"}
  /\ UNCHANGED <<procVars, httpVars, store, temp, phase>>
  /\ Pool!ProcessReturns(w)

\* Mutant: no Cleanup.
CleanupForgotten(w) ==
  /\ UNCHANGED <<procVars, httpVars, store, temp, phase>>
  /\ Pool!Cleanup(w)

\* runTask's deferred Cleanup removes the temporary file.
Cleanup(w) ==
  /\ temp' = temp \ {task[w]}
  /\ UNCHANGED <<procVars, httpVars, store, phase>>
  /\ Pool!Cleanup(w)

-----------------------------------------------------------------------------
\* One context bounds server.Shutdown and pool.Shutdown together.
GraceExpires ==
  /\ phase \in {"stopping", "draining"}
  /\ UNCHANGED <<procVars, httpVars, store, temp, phase>>
  /\ Pool!GraceExpires(Main)

\* Mutant: the pool's base context hangs off the signal context.
SignalCancels ==
  /\ Moves("serving", "stopping")
  /\ baseCancelled' = TRUE
  /\ UNCHANGED <<submit, queue, closed, closer, graceOver, worker, task,
                 timedOut, finished, procVars, httpVars, store, temp>>

Signal ==
  /\ Moves("serving", "stopping")
  /\ UNCHANGED <<poolVars, procVars, httpVars, store, temp>>

ListenerFails ==
  /\ Moves("serving", "dead")
  /\ UNCHANGED <<poolVars, procVars, httpVars, store, temp>>

\* server.Shutdown returns when no request is active or the context is done;
\* its error is only logged.
ServerShutdown ==
  /\ HTTP!Active = {} \/ Main \in graceOver
  /\ Moves("stopping", "draining")
  /\ UNCHANGED <<poolVars, procVars, httpVars, store, temp>>

PoolShutdown ==
  /\ phase = "draining"
  /\ UNCHANGED <<procVars, httpVars, store, temp, phase>>
  /\ Pool!ShutdownLocks(Main) \/ Pool!ShutdownProceeds(Main)

\* Mutant: main does not wait for pool.Shutdown.
ExitAtOnce ==
  /\ Moves("draining", "stopped")
  /\ UNCHANGED <<poolVars, procVars, httpVars, store, temp>>

Exit ==
  /\ closer[Main] \in {"nil", "err"}
  /\ Moves("draining", "stopped")
  /\ UNCHANGED <<poolVars, procVars, httpVars, store, temp>>

\* The process is gone.
Terminated == ~Alive /\ UNCHANGED vars

Next ==
  \/ /\ Alive
     /\ \/ \E j \in Job : Arrive(j) \/ Disconnect(j) \/ Handle(j)
                          \/ Submit(j) \/ Process(j)
        \/ \E w \in Worker : WorkerMoves(w) \/ Deadline(w)
                             \/ ProcessReturns(w) \/ Cleanup(w)
        \/ GraceExpires \/ Signal \/ ListenerFails \/ ServerShutdown
        \/ PoolShutdown \/ Exit
  \/ Terminated

Spec == Init /\ [][Next]_vars

\* Each goroutine is scheduled, timers fire, and a call made under a context
\* returns once the context is done.  Clients and signals owe nothing.  That a
\* body ends or breaks off needs a SERVER_READ_TIMEOUT above 0: it is 15s by
\* default, and validate takes any.
Fairness ==
  /\ \A j \in Job :
       /\ WF_vars(Alive /\ (Handle(j) \/ Submit(j)))
       /\ WF_vars(Alive /\ Pool!CtxDone(j) /\ Process(j))
  /\ \A w \in Worker :
       /\ WF_vars(Alive /\ (WorkerMoves(w) \/ ProcessReturns(w) \/ Cleanup(w)))
       /\ WF_vars(Alive /\ Deadline(w))
  /\ WF_vars(GraceExpires)
  /\ WF_vars(ServerShutdown \/ PoolShutdown \/ Exit)

FairSpec == Spec /\ Fairness

-----------------------------------------------------------------------------
\* The types of every component.
TypeOK ==
  /\ Pool!TypeOK
  /\ Proc!TypeOK
  /\ HTTP!TypeOK
  /\ phase \in {"serving", "stopping", "draining", "stopped", "dead"}

\* While a worker may still open the audio, its temporary file exists: neither
\* the handler nor an earlier Cleanup has removed it.
AudioAvailable ==
  \A j \in Running :
    stage[j] \in {"load", "mark", "transcribe"} => j \in temp

\* A temporary file belongs to the request that is spooling or submitting it,
\* or to an accepted task that is not cleaned up: none is ever left behind
\* while the process runs, and none at all by an exit after the last request.
NoStrayUpload ==
  \A j \in temp :
    req[j] \in {"spool", "create", "submit"} \/ j \in Pool!Accepted \ finished

\* A task in the pool names a job the store knows, so the worker's load finds
\* it and the id of a 202 answer can be polled.
JobPrecedesTask ==
  /\ \A j \in Pool!Accepted : store[j] # Absent
  /\ \A j \in Job : answer[j] = "202" => store[j] # Absent

\* A processed job is settled (completed or failed) unless its own deadline
\* passed or the shutdown grace period ran out.
FinishedIsSettled ==
  \A j \in finished :
    HTTP!Terminal(store[j]) \/ j \in timedOut \/ Main \in graceOver

\* The process exits after a signal only when every task it accepted has been
\* processed and its file removed; if the drain was clean, an accepted job is
\* only left unsettled by its own deadline.
ExitAccountsForAll ==
  phase = "stopped" =>
    \A j \in Pool!Accepted :
      /\ j \in finished
      /\ j \notin temp
      /\ closer[Main] = "nil" /\ j \notin timedOut => HTTP!Terminal(store[j])

\* What a 202 comes to once the process has ended after a clean drain: unless
\* the job's own deadline passed, its file is gone, and the job is completed,
\* with the note that can be polled as the one in the destination, or failed,
\* with no note to poll, and none written unless the reason is the delivery.
\* And nothing but a sound upload that the pool accepted leads to a note.
AnswerKept ==
  \A j \in Job :
    /\ answer[j] = "202" /\ phase = "stopped" /\ closer[Main] = "nil" /\ j \notin timedOut =>
         /\ j \notin temp
         /\ \/ /\ store[j].status = "completed" /\ store[j].err = ""
               /\ rows[j] = <<Proc!Row(Proc!StatusResponse(store[j]).result)>>
            \/ /\ store[j].status = "failed" /\ store[j].result = Absent
               /\ store[j].err \in {"transcription", "analysis", "delivery"}
               /\ store[j].err # "delivery" => rows[j] = <<>>
    /\ rows[j] # <<>> =>
         /\ j \in Pool!Accepted
         /\ upload[j].form = "ok" /\ upload[j].allowed /\ upload[j].size \in 1..MaxBytes
         /\ ~TokenSet \/ "right" \in {upload[j].bearer, upload[j].key}

\* A handler is eventually answered, unless the process ends first.
RequestAnswered ==
  \A j \in Job : j \in HTTP!Active ~> req[j] = "done" \/ ~Alive

\* A 202 is a promise: the job is processed to the end and its file removed,
\* whatever the shutdown does; only a listener error breaks it.
AcceptedIsProcessed ==
  \A j \in Job :
    answer[j] = "202" ~> (j \in finished /\ j \notin temp) \/ phase = "dead"

\* After a signal the process ends.
SignalStops == phase = "stopping" ~> phase = "stopped"

\* The service is a pool, a processor and a handler as their modules specify
\* them, and keeps the promise of JobLifecycle.  (Each is the module's Spec; a
\* step that leaves the component alone is told first, as most steps do.)
ImplementsPool ==
  Pool!Init /\ [][UNCHANGED Pool!poolVars \/ Pool!Next]_(Pool!poolVars)
ImplementsProcessor ==
  Proc!Init /\ [][UNCHANGED Proc!procVars \/ Proc!Next]_(Proc!procVars)
ImplementsIngest ==
  HTTP!Init /\ [][UNCHANGED HTTP!ingestVars \/ HTTP!Next]_(HTTP!ingestVars)
ImplementsLifecycle ==
  Life!Init /\ [][UNCHANGED Life!lifeVars \/ Life!Next]_(Life!lifeVars)
=============================================================================
