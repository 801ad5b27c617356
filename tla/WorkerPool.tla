----------------------------- MODULE WorkerPool -----------------------------
(***************************************************************************)
(* The bounded worker pool of internal/app/pool.go: goroutines that call   *)
(* Submit, the buffered channel `queue`, the worker goroutines, and        *)
(* goroutines that call Shutdown.                                          *)
(*                                                                         *)
(* A task is named by the job it carries, and the goroutine that submits   *)
(* it is named by the task.  Submit and Shutdown are split where another   *)
(* goroutine can run in between: the RWMutex `mu` is not a variable of its *)
(* own, a goroutine holds it while its control state says so.              *)
(***************************************************************************)
EXTENDS Naturals, Sequences

CONSTANTS
  Job,         \* tasks, each submitted at most once
  Worker,      \* the worker goroutines launched by Start
  Closer,      \* goroutines that may call Shutdown
  QueueSize,   \* capacity of the channel
  None         \* no task

\* What config.validate establishes: at least one worker, a buffer of at
\* least one.  None is a value of its own.
ASSUME PoolAssumption ==
  /\ Worker # {}
  /\ QueueSize \in Nat \ {0}
  /\ None \notin Job

VARIABLES
  submit,         \* control state and outcome of each task's Submit call
  queue,          \* the channel's buffer
  closed,         \* p.closed, set together with close(p.queue)
  closer,         \* control state and outcome of each Shutdown call
  graceOver,      \* Shutdown callers whose context has expired
  baseCancelled,  \* p.baseCtx has been cancelled
  worker,         \* control state of each worker goroutine
  task,           \* the task a worker holds
  timedOut,       \* tasks whose own processing deadline has passed
  finished        \* tasks whose runTask has returned, Cleanup included

submitVars == <<submit>>
closeVars  == <<closed, closer, graceOver, baseCancelled>>
workVars   == <<worker, task, timedOut, finished>>
poolVars   == <<submit, queue, closed, closer, graceOver, baseCancelled,
                worker, task, timedOut, finished>>

SubmitState == {"idle", "rlocked", "selecting", "accepted", "full", "rejected"}
CloserState == {"idle", "locked", "waiting", "aborting", "nil", "err", "noop"}
WorkerState == {"receiving", "running", "returned", "exited"}

Accepted == {j \in Job : submit[j] = "accepted"}
Pending  == {queue[i] : i \in DOMAIN queue}
Held     == {task[w] : w \in Worker} \ {None}

\* Mutant: Submit never releases its read lock.
ReadersForever == {j \in Job : submit[j] # "idle"}

Readers == {j \in Job : submit[j] \in {"rlocked", "selecting"}}
Writers == {c \in Closer : closer[c] = "locked"}

\* The context runTask builds: rooted at baseCtx and bounded by procTimeout.
CtxDone(j) == baseCancelled \/ j \in timedOut

AllExited == \A w \in Worker : worker[w] = "exited"

Init ==
  /\ submit        = [j \in Job |-> "idle"]
  /\ queue         = <<>>
  /\ closed        = FALSE
  /\ closer        = [c \in Closer |-> "idle"]
  /\ graceOver     = {}
  /\ baseCancelled = FALSE
  /\ worker        = [w \in Worker |-> "receiving"]
  /\ task          = [w \in Worker |-> None]
  /\ timedOut      = {}
  /\ finished      = {}

-----------------------------------------------------------------------------
(***************************************************************************)
(* Submit.  RLock is shared with other submitters and excludes Shutdown's  *)
(* Lock; it is released by the deferred RUnlock when the call returns.     *)
(***************************************************************************)
SubmitSteps(j, from, to) ==
  /\ submit[j] = from
  /\ submit' = [submit EXCEPT ![j] = to]

SubmitRLock(j) ==
  /\ Writers = {}
  /\ SubmitSteps(j, "idle", "rlocked")
  /\ UNCHANGED <<queue, closeVars, workVars>>

SubmitChecksClosed(j) ==
  /\ SubmitSteps(j, "rlocked", IF closed THEN "rejected" ELSE "selecting")
  /\ UNCHANGED <<queue, closeVars, workVars>>

\* Mutant: a send that does not look at the capacity.
SendsOverCapacity(j) ==
  /\ SubmitSteps(j, "selecting", "accepted")
  /\ queue' = Append(queue, j)
  /\ UNCHANGED <<closeVars, workVars>>

SubmitSends(j) ==
  /\ Len(queue) < QueueSize
  /\ SubmitSteps(j, "selecting", "accepted")
  /\ queue' = Append(queue, j)
  /\ UNCHANGED <<closeVars, workVars>>

\* Mutant: a full buffer makes room by dropping its oldest task.
DropsOldest(j) ==
  /\ Len(queue) >= QueueSize
  /\ SubmitSteps(j, "selecting", "accepted")
  /\ queue' = Append(Tail(queue), j)
  /\ UNCHANGED <<closeVars, workVars>>

SubmitDefault(j) ==
  /\ Len(queue) >= QueueSize
  /\ SubmitSteps(j, "selecting", "full")
  /\ UNCHANGED <<queue, closeVars, workVars>>

SubmitProceeds(j) == SubmitChecksClosed(j) \/ SubmitSends(j) \/ SubmitDefault(j)

-----------------------------------------------------------------------------
(***************************************************************************)
(* Shutdown.  The wait group is zero exactly when every worker has exited. *)
(* When the wait group and the context are both ready, Go's select may     *)
(* take either case.                                                       *)
(***************************************************************************)
CloserSteps(c, from, to) ==
  /\ closer[c] = from
  /\ closer' = [closer EXCEPT ![c] = to]

\* Mutant: the write lock does not wait for submitters (a plain flag).
LocksOverReaders(c) ==
  /\ Writers = {}
  /\ CloserSteps(c, "idle", "locked")
  /\ UNCHANGED <<submitVars, queue, closed, graceOver, baseCancelled, workVars>>

ShutdownLocks(c) ==
  /\ Readers = {}
  /\ Writers = {}
  /\ CloserSteps(c, "idle", "locked")
  /\ UNCHANGED <<submitVars, queue, closed, graceOver, baseCancelled, workVars>>

ShutdownAgain(c) ==
  /\ closed
  /\ CloserSteps(c, "locked", "noop")
  /\ UNCHANGED <<submitVars, queue, closed, graceOver, baseCancelled, workVars>>

\* Mutant: the base context is cancelled first, then the pool drains.
ClosesAndCancels(c) ==
  /\ ~closed
  /\ CloserSteps(c, "locked", "waiting")
  /\ closed' = TRUE
  /\ baseCancelled' = TRUE
  /\ UNCHANGED <<submitVars, queue, graceOver, workVars>>

ShutdownCloses(c) ==
  /\ ~closed
  /\ CloserSteps(c, "locked", "waiting")
  /\ closed' = TRUE
  /\ UNCHANGED <<submitVars, queue, graceOver, baseCancelled, workVars>>

ShutdownDrained(c) ==
  /\ AllExited
  /\ CloserSteps(c, "waiting", "nil")
  /\ baseCancelled' = TRUE
  /\ UNCHANGED <<submitVars, queue, closed, graceOver, workVars>>

\* Mutant: returns on expiry without waiting for the cancelled work.
ReturnsOnGraceOver(c) ==
  /\ c \in graceOver
  /\ CloserSteps(c, "waiting", "err")
  /\ baseCancelled' = TRUE
  /\ UNCHANGED <<submitVars, queue, closed, graceOver, workVars>>

ShutdownGraceOver(c) ==
  /\ c \in graceOver
  /\ CloserSteps(c, "waiting", "aborting")
  /\ baseCancelled' = TRUE
  /\ UNCHANGED <<submitVars, queue, closed, graceOver, workVars>>

ShutdownUnwound(c) ==
  /\ AllExited
  /\ CloserSteps(c, "aborting", "err")
  /\ UNCHANGED <<submitVars, queue, closed, graceOver, baseCancelled, workVars>>

ShutdownProceeds(c) ==
  \/ ShutdownAgain(c) \/ ShutdownCloses(c) \/ ShutdownDrained(c)
  \/ ShutdownGraceOver(c) \/ ShutdownUnwound(c)

\* The context passed to Shutdown expires: at any time, even before the call.
GraceExpires(c) ==
  /\ c \notin graceOver
  /\ graceOver' = graceOver \cup {c}
  /\ UNCHANGED <<submitVars, queue, closed, closer, baseCancelled, workVars>>

-----------------------------------------------------------------------------
(***************************************************************************)
(* Workers.  `range p.queue` ends only when the channel is closed and      *)
(* drained.  Process is a black box here: it returns at some point.        *)
(***************************************************************************)
Receive(w) ==
  /\ worker[w] = "receiving"
  /\ queue # <<>>
  /\ worker' = [worker EXCEPT ![w] = "running"]
  /\ task'   = [task EXCEPT ![w] = Head(queue)]
  /\ queue'  = Tail(queue)
  /\ UNCHANGED <<submitVars, closeVars, timedOut, finished>>

\* Mutant: the worker leaves as soon as the pool is closed.
ExitsUndrained(w) ==
  /\ worker[w] = "receiving"
  /\ closed
  /\ worker' = [worker EXCEPT ![w] = "exited"]
  /\ UNCHANGED <<submitVars, queue, closeVars, task, timedOut, finished>>

\* Mutant: the worker waits for its context instead of the closed channel.
ExitsOnCancel(w) ==
  /\ worker[w] = "receiving"
  /\ baseCancelled
  /\ queue = <<>>
  /\ worker' = [worker EXCEPT ![w] = "exited"]
  /\ UNCHANGED <<submitVars, queue, closeVars, task, timedOut, finished>>

Exit(w) ==
  /\ worker[w] = "receiving"
  /\ closed
  /\ queue = <<>>
  /\ worker' = [worker EXCEPT ![w] = "exited"]
  /\ UNCHANGED <<submitVars, queue, closeVars, task, timedOut, finished>>

Deadline(w) ==
  /\ worker[w] = "running"
  /\ task[w] \notin timedOut
  /\ timedOut' = timedOut \cup {task[w]}
  /\ UNCHANGED <<submitVars, queue, closeVars, worker, task, finished>>

ProcessReturns(w) ==
  /\ worker[w] = "running"
  /\ worker' = [worker EXCEPT ![w] = "returned"]
  /\ UNCHANGED <<submitVars, queue, closeVars, task, timedOut, finished>>

Cleanup(w) ==
  /\ worker[w] = "returned"
  /\ worker'   = [worker EXCEPT ![w] = "receiving"]
  /\ task'     = [task EXCEPT ![w] = None]
  /\ finished' = finished \cup {task[w]}
  /\ UNCHANGED <<submitVars, queue, closeVars, timedOut>>

-----------------------------------------------------------------------------
SubmitAction(j)   == SubmitRLock(j) \/ SubmitProceeds(j)
ShutdownAction(c) == ShutdownLocks(c) \/ ShutdownProceeds(c) \/ GraceExpires(c)
WorkerAction(w)   == Receive(w) \/ Exit(w) \/ Deadline(w)
                     \/ ProcessReturns(w) \/ Cleanup(w)

\* Everything has returned: the only state in which the pool may stop.
Terminated ==
  /\ AllExited
  /\ graceOver = Closer
  /\ \A j \in Job : submit[j] \in {"accepted", "full", "rejected"}
  /\ \A c \in Closer : closer[c] \in {"nil", "err", "noop"}
  /\ UNCHANGED poolVars

Next ==
  \/ \E j \in Job : SubmitAction(j)
  \/ \E c \in Closer : ShutdownAction(c)
  \/ \E w \in Worker : WorkerAction(w)
  \/ Terminated

Spec == Init /\ [][Next]_poolVars

(***************************************************************************)
(* A call that has begun runs on; workers are scheduled; the deadline      *)
(* timer of a running task fires.  Process is only assumed to return once  *)
(* its context is done ("handlers must honor ctx").  Nobody is obliged to  *)
(* call Submit or Shutdown, and a Shutdown context need not expire.        *)
(***************************************************************************)
Fairness ==
  /\ \A j \in Job : WF_poolVars(SubmitProceeds(j))
  /\ \A c \in Closer : WF_poolVars(ShutdownProceeds(c))
  /\ \A w \in Worker :
       /\ WF_poolVars(Receive(w))
       /\ WF_poolVars(Exit(w))
       /\ WF_poolVars(Deadline(w))
       /\ WF_poolVars(CtxDone(task[w]) /\ ProcessReturns(w))
       /\ WF_poolVars(Cleanup(w))

FairSpec == Spec /\ Fairness

-----------------------------------------------------------------------------
\* Types; the buffer never holds more than the capacity of the channel.
TypeOK ==
  /\ submit \in [Job -> SubmitState]
  /\ queue \in Seq(Job)
  /\ Len(queue) <= QueueSize
  /\ closed \in BOOLEAN
  /\ closer \in [Closer -> CloserState]
  /\ graceOver \subseteq Closer
  /\ baseCancelled \in BOOLEAN
  /\ worker \in [Worker -> WorkerState]
  /\ task \in [Worker -> Job \cup {None}]
  /\ timedOut \subseteq Job
  /\ finished \subseteq Job

\* Submit never reaches its select once Shutdown has closed the channel: a
\* send on a closed channel panics (the race the RWMutex is there to exclude).
NoSendOnClosed ==
  \A j \in Job : submit[j] = "selecting" => ~closed

\* Every accepted task is in exactly one place, once: in the buffer, held by
\* one worker, or finished.  Nothing is lost, duplicated or processed twice,
\* and a refused task is nowhere.
EachTaskInOnePlace ==
  /\ Accepted = Pending \cup Held \cup finished
  /\ Pending \cap Held = {}
  /\ (Pending \cup Held) \cap finished = {}
  /\ \A i, k \in DOMAIN queue : queue[i] = queue[k] => i = k
  /\ \A v, w \in Worker : task[v] = task[w] /\ task[v] # None => v = w

\* The Shutdown call that closed the pool returns, with or without an error,
\* only when every worker has exited and every accepted task has been run and
\* cleaned up; no task is accepted afterwards.
ShutdownDrains ==
  (\E c \in Closer : closer[c] \in {"nil", "err"}) =>
    /\ AllExited
    /\ Accepted = finished

\* The base context is cancelled under a task only when some Shutdown's grace
\* period has run out; a clean drain never aborts work.
AbortOnlyAfterGrace ==
  baseCancelled /\ Held # {} => graceOver # {}

(***************************************************************************)
(* Why the safety properties hold: an inductive invariant.                 *)
(***************************************************************************)
\* The RWMutex: one writer, and no reader beside it; a submitter that has seen
\* the pool open still holds its read lock.
Locking ==
  /\ \A c, d \in Closer : closer[c] = "locked" /\ closer[d] = "locked" => c = d
  /\ \A c \in Closer, j \in Job : closer[c] = "locked" =>
       submit[j] \notin {"rlocked", "selecting"}
  /\ NoSendOnClosed

\* A worker holds a task exactly while it is inside runTask.
Holding ==
  \A w \in Worker : (task[w] = None) = (worker[w] \in {"receiving", "exited"})

\* EachTaskInOnePlace, one place at a time.
Placement ==
  /\ \A i \in DOMAIN queue :
       /\ submit[queue[i]] = "accepted"
       /\ queue[i] \notin finished
       /\ \A w \in Worker : task[w] # queue[i]
  /\ \A i, k \in DOMAIN queue : queue[i] = queue[k] => i = k
  /\ \A w \in Worker : task[w] # None =>
       submit[task[w]] = "accepted" /\ task[w] \notin finished
  /\ \A v, w \in Worker : task[v] = task[w] /\ task[v] # None => v = w
  /\ \A j \in finished : submit[j] = "accepted"
  /\ \A j \in Accepted : j \in Pending \cup Held \cup finished

\* A worker leaves for good only a closed and drained channel; Shutdown gets
\* past its wait only when all have left; the base context is cancelled for
\* one of two reasons.
Ending ==
  /\ \A w \in Worker : worker[w] = "exited" => closed /\ queue = <<>>
  /\ \A c \in Closer :
       /\ closer[c] \in {"waiting", "aborting", "nil", "err"} => closed
       /\ closer[c] \in {"nil", "err"} => AllExited
  /\ baseCancelled => graceOver # {} \/ AllExited

PoolInv == TypeOK /\ Holding /\ Locking /\ Placement /\ Ending

\* An accepted task is eventually run to the end, Shutdown or not.
AcceptedFinishes ==
  \A j \in Job : submit[j] = "accepted" ~> j \in finished

\* A Shutdown that got the lock eventually returns.
ShutdownReturns ==
  \A c \in Closer : closer[c] = "locked" ~> closer[c] \in {"nil", "err", "noop"}
=============================================================================
