# Verification of Voiceline in TLA+

Voiceline takes a voice note over HTTP, answers `202` with a job id, and runs
transcribe → analyze → deliver in the background on a bounded worker pool; a
client polls the job. This directory holds TLA+ models of the program, the TLC
configurations that check them on small instances, and TLAPS proofs: of the
pool, the store, the pipeline, the HTTP handler, the OpenAI call, the start, and
of the whole service put together from them. Paths such as `internal/app/pool.go` are
relative to the repository.

Run a model with `tlc -config Pool.cfg MCWorkerPool`, and the proofs of a module
with `tlapm WorkerPool_proofs.tla`.

## 1. The system

| Component | Code | State | Operations |
|---|---|---|---|
| Job lifecycle | `internal/domain/job.go` | one record per job: status, reason, result | `NewJob`, `Start`, `Complete`, `Fail` |
| Analysis values | `internal/domain/analysis.go` | values: transcript, analysis, action items | `NewTranscript`, `toDomain`, `cloneJob`'s copy, `buildRow`, `newAnalysisDTO` |
| Job store | `internal/adapter/memstore` | map id → record, an RWMutex | `Create`, `Get`, `Update` (each looks at its context first, each copies) |
| Processor | `internal/app/processor.go` | none of its own; a copy of the job during a call | `Process`, `fail` |
| Worker pool | `internal/app/pool.go` | buffered channel, `closed` under an RWMutex, wait group, base context | `Submit`, `Shutdown`, `worker`, `runTask` |
| HTTP handlers | `internal/transport/httpapi` | a temporary file per upload, the request's context | `Submit` and its checks, `spool`, `failQueued`, `Status`, middleware |
| Composition root | `cmd/server/main.go` | how far the start or the shutdown is | `run`, `newDestination`, `shutdown` |
| OpenAI client | `internal/adapter/openai` | per call: attempt, last error | `do`, `wait`, `Transcribe`, `Analyze` |
| Destinations | `internal/adapter/sheets`, `logdest` | rows written outside | `Deliver` |
| Configuration | `internal/config` | the process environment, the `.env` file, the errors so far | `Load`, the loader, `validate` |

**How they interact.** `run` loads and validates the configuration and builds
the service from it. A handler goroutine checks and spools the upload, creates
the job in the store, then calls `Pool.Submit`. From the moment the task is in
the channel a worker goroutine may run it, concurrently with the rest of the
handler. The worker calls `Processor.Process` under a context rooted at the
pool's base context (not at the request), and then the task's `Cleanup`, a
callback that removes the handler's temporary file. The store is shared by
handlers, workers and pollers. On a signal, `main` runs `server.Shutdown` and
`pool.Shutdown` under one context with one timeout; when it expires the pool
cancels its base context and waits for the workers to unwind.

**What is hard**, and hard to test:

- `Submit` and `Shutdown` race for the channel: a send after the close panics.
- The shutdown `select` may find the drain and the timeout ready together.
- The temporary file changes hands between handler and worker in mid-flight.
- A job's record is written by handler and worker, each with a context that may
  be done; a write that fails leaves the record as it was.
- Records pass the store's boundary as pointers, with slices below them.
- Every step of the pipeline can fail by itself, and a failing append may have
  written its row.
- The retry loop mixes transient, permanent and cancelled ends.
- An upload may have several faults, and the body limit is not the file limit.
- A setting has two sources, a default and several ways to be wrong.

**What makes each component correct.** Store and lifecycle: a record never goes
backwards, never mixes a result with a failure, and shares no memory with its
users. Processor: at most one note, the note a client polls, and an outcome that
is in the store when it returns. Pool: no send on a closed channel, each
accepted task run exactly once, a `Shutdown` that has drained. Handler: only a
sound upload leaves a trace, the file has exactly one owner, the answer tells
what was wrong or what the pool did. Service: the file outlives its readers and
nothing else, a `202` is a promise, an exit accounts for every accepted job.
Client: the retry policy, and an end. Configuration: it serves by every variable
as it was set, or says why not.

`PROJECT.json` lists the components with their status, the hazards at their
lines, and for every definition the lines it models.

## 2. The modules

```
Lists ── Note ── JobStore ──EXTENDS── Processor ─┐
  │                    └────EXTENDS── Ingest ────┤ INSTANCE
  │                                   WorkerPool ┴─ Service ── implements ── JobLifecycle
  └── Config

MemStore ── implements ── JobTable        LLMClient

X_proofs EXTENDS X, for X = Lists, WorkerPool, Processor, Ingest, Service,
MemStore, LLMClient, Config; Processor_proofs and Config_proofs EXTEND
Lists_proofs, Service_proofs INSTANCEs those of the service's three components
```

- **WorkerPool** models `pool.go`. A submitting goroutine is named by its task;
  `submit[j]` is its control state inside `Submit` (`rlocked`: it holds the read
  lock; `selecting`: it has seen `closed = false` and is about to send) and
  afterwards its outcome. `closer[c]` is the control state of a `Shutdown` call.
  The RWMutex is not a variable: a goroutine holds it while its control state
  says so (`Readers`, `Writers`). The wait group is zero when `AllExited`.
  `Receive`, `Exit`, `ProcessReturns` and `Cleanup` are the steps of `worker`
  and `runTask`; `Process` is a black box here. Two ready cases of a `select`
  are two enabled actions.
- **Lists** has the loop that both `toDomain` and the loader go through a list
  with: it appends what it keeps.
- **Note** has the values a note passes through: the model's answer
  (`ToDomain`), the domain's analysis, the store's copy (in which an empty slice
  becomes nil), the destination's row and the client's JSON. A text is one of
  four: empty, blank, words, padded words, which is what trimming tells apart.
- **JobStore** has the record of `job.go` and the store's operations as plain
  operators: whether an operation succeeds and what it leaves, and
  `StatusResponse`, what a poller is shown. Timestamps and audio metadata are
  left out, no decision reads them.
- **Processor** models `Process` and `fail` with one action per call of a port,
  in both outcomes. `ctxDone` may grow at any time, so a context can end between
  any two calls. A port called under a done context fails, except the log
  destination, which ignores it. `Deliver` may fail before or after it wrote.
- **Ingest** models `Handlers.Submit` behind the auth middleware, with `spool`
  and `failQueued`. A request carries its tokens, its form, the size of its file
  and whether its type is allowed; `Verdict` is the order of the checks, with
  `MaxBytesReader` counting the form's bytes too.
- **Service** composes the three over shared variables as `main.go` wires them.
  The components' own environment actions disappear: the pool's `running`
  workers are the processor's `running`, `Pool.Submit` happens between the
  handler's steps, `Cleanup` removes the handler's file, and the pool's contexts
  are the processor's `ctxDone`. It adds `Signal`, `ListenerFails`,
  `ServerShutdown`, `PoolShutdown` and `Exit`.
- **JobLifecycle** is the abstract specification of the service: what a client
  is promised about a recording, knowing nothing of pools, files and contexts.
  `Promise` is what its rules amount to.
- **MemStore** models `memstore.go` once more, on a heap: a job points to its
  analysis, whose slices point to their arrays, and the map and the callers hold
  pointers. A caller may write to all it can reach at any time, more than the
  code does. `Clone` is `cloneJob`, level by level. **JobTable** is what the
  store promises: a table of values that only `Create` and `Update` change.
- **LLMClient** models one call of `Transcribe` or `Analyze` through `do`, with
  `defaultBackoff` computed to its overflow.
- **Config** models the start: `Load` reads each variable from the environment or
  the `.env` file and keeps all parse errors, `validate` stops at the first it
  rejects, `newDestination` may fail, and only then the service serves. Of the
  texts, names come out in lower case (`Lower`) and the URL without its final
  slash (`TrimRight`), each shown on the samples of the run.
- The **MC** modules only add what a configuration cannot say.
- The **_proofs** modules have the theorems of section 4.

An operator marked `Mutant:` is not part of a specification. It is a plausible
bug in the definition after it; `PROJECT.json` names, for each property, a
mutant which violates it.

## 3. The runs

| Run | Instance | What it shows |
|---|---|---|
| `pool` | 3 tasks, 2 workers, 2 `Shutdown` callers, buffer 1; 137k states | no send on the closed channel, tasks conserved, a `Shutdown` that returns has drained, no abort before the grace period ends, `PoolInv`; accepted tasks finish and `Shutdown` returns |
| `processor_safety` | 2 jobs, 3 answers of the model; 6.3k states | store well formed, at most one note, the note polled is the note delivered, reasons that can be trusted, settled unless expired, statuses monotone |
| `ingest_safety` | 2 uploads with every mix of tokens and faults; 101k states | only a sound upload leaves anything, the answer names a fault it has, the file's owner, the answer against the pool's decision, the refused job |
| `service` | 2 jobs, 2 workers, buffer 1; 562k states | the properties that span components, up to what a `202` has come to when the process ends (`AnswerKept`), and that the composition implements `WorkerPool`, `Processor`, `Ingest` and `JobLifecycle` |
| `service_liveness` | 2 jobs, 1 worker, buffer 1, `TameSpec`; 77.6k states | requests are answered, `202` is followed by processing and clean-up, also through a shutdown, and a signal ends the process |
| `llm_calls` | up to 61 attempts; 6.9k states | the retry policy, the pauses between attempts and the end of every call |
| `mem_store` | 1 job, 2 callers, 7 addresses, 2 contents; 3.4k states under a view | no memory is shared across the store's boundary, and the store is a table of values |
| `config` | 90.5k states from over twenty thousand environments | a service that comes up has every variable as it was set, or its default if it was not (the allowlist also if it was set to blanks alone), and meets what the other modules assume; one that does not says why |

**Why these bounds.** A buffer of one is full with one task and wraps with two,
so three tasks on two workers meet a full buffer, a queue behind two busy
workers, and an empty one. Two `Shutdown` callers give the second call. In the
service two jobs are enough for one to be refused, or to be queued behind the
other, while both move; their records and files never touch one another.
The three answers of the model are a full one, one with entries to drop and one
of which nothing is left. Uploads are just below, at and above both limits, the
body's and the file's. Sixty retries are more than the 54 at which the backoff's
shift reaches zero. In `mem_store` two callers and one stored record can share
memory in each way that any number can (`Detached` speaks of two at a time). In
`config` each variable is good, at the edge, empty or malformed, two of them at
a time, in either source; the code relates no three variables. Symmetry is used
only in runs without liveness properties.

**The view of `mem_store`.** Addresses are interchangeable and unreachable memory
is never read, so as long as no two records share memory a state is told by the
values its pointers lead to; a state in which they do share is told in full, and
violates `Detached` anyway. A record has its memory from at most two allocations
(its clone or `NewJob`, and a later `Complete`), so three records use six
addresses and a seventh is always free.

**`TameSpec`** (`service_liveness`) keeps the liveness check of two jobs small:
uploads are spooled one at a time, and a disconnect, a rejected upload, a disk
error, a failing port or listener only happens to a lone request. Each of these
ends something earlier, and is checked with everything else going on for the
safety properties in `service`. What two jobs add to liveness, waiting for the
worker and for the buffer, during a drain or not, is not restricted: failures by
a full or closed pool, by a deadline and by the end of the grace period remain.

**Refinement as a check of the components.** `Processor` and `Ingest` are
specified with environments made up of actions. `ImplementsProcessor` and
`ImplementsIngest` show that these were wide enough: whatever the real pool and
handlers do is a behaviour of them. `ImplementsLifecycle` maps a store record to
its status and `Pool.Submit`'s outcome to one atomic decision. `ImplementsTable`
maps a pointer to the value it leads to.

**Fairness.** Goroutines are scheduled (weak fairness of their own steps: Go's
scheduler is preemptive and a blocked goroutine becomes runnable); timers fire
(`Deadline`, `GraceExpires`); a port returns *once its context is done*, the
obligation `pool.go` states as "handlers must honor ctx". No fairness is assumed
of clients, of signals, or of a port before its deadline. In `WorkerPool` the
`Shutdown` context need not expire at all. A goroutine waiting for the lock is
not assumed to get it in `WorkerPool`, so `ShutdownReturns` starts when it has;
`Service` assumes it of handlers and of `main`. Weak fairness suffices there:
readers never block inside the lock, the writer leaves it in one step, and Go's
RWMutex lets no later reader overtake a waiting writer, which the models get
from the finite number of requests. One assumption is about a setting: that
an upload's body ends or breaks off (`RequestAnswered`) needs a
`SERVER_READ_TIMEOUT` above zero. It is 15 s by default; `validate` does not ask
for it, and with 0 a client that stops sending keeps its handler for as long as
it stays connected.

**Deadlock** is checked in every run but `config`, whose start ends in `serving`
or `failed`. Elsewhere `Terminated` is the only stutter: the state in which
everything has returned.

### What the code does otherwise than it says

Four runs check what a comment or the documentation says and find it violated:

- `error_marks_failed`: `Process` says that on an error "the job is also marked
  failed in the store". `fail` uses the pipeline's own context; if this context
  was the reason, the update fails too and the job is `processing` for good.
- `refused_marked_failed`: `failQueued` should keep the store consistent, but
  uses the request's context, which a disconnected client has cancelled.
- `at_least_once`: the README and the sheets adapter say delivery is
  at-least-once. It is at most once: the append is tried once.
- `no_body_no_error`: with a negative `OPENAI_MAX_RETRIES`, which `validate`
  lets through, `do` returns neither a body nor an error.

The passing properties say exactly how far the promise does hold:
`SettledUnlessExpired`, `RefusedIsSettled` and `DeliveredOnce`. In the same way
`RefusalFitsUpload` says what a `413` means: `MaxBytesReader` counts the whole
form, so a file just within the limit is refused, and the later check of the
file's own size never fails; and what a `401` means: a right `X-API-Key` is
refused only behind a wrong bearer token. `PausesGrow` promises growing pauses up
to the 36th attempt and after it, where the shift wraps, only the cap.

A smaller difference has no run of its own. The comment on
`defaultAllowedAudioTypes` says that it is "applied when ALLOWED_AUDIO_TYPES is
unset"; `strSlice` also applies it to a list that is set but has nothing but
blanks and commas. `ServesAsTold` states this as its one exception, and the
run's sample of a lone blank reaches it.

## 4. The proofs

Everything below is proved for any sets of jobs, workers, callers, notes and
uploads, lists of any length, any environment, capacity, limit and number of
retries.

| Module | Theorem | Property |
|---|---|---|
| `WorkerPool_proofs` | `TypeCorrect` | `TypeOK`, with the bound of the buffer |
| | `PoolInvariant` | `PoolInv` |
| | `SendsOnlyWhileOpen` | `NoSendOnClosed` |
| | `TasksAreConserved` | `EachTaskInOnePlace` |
| | `ShutdownDrainsPool` | `ShutdownDrains` |
| | `AbortsOnlyAfterGrace` | `AbortOnlyAfterGrace` |
| `MemStore_proofs` | `MemoryDetached` | `Detached` |
| | `StoreIsTable` | `ImplementsTable` |
| `LLMClient_proofs` | `LatestIsReported` | `ReportsLatestAttempt` |
| | `PolicyIsKept` | `RetriesOnlyTransient` |
| | `PausesAreBounded` | `PausesGrow` |
| `Lists_proofs` | `OnlyFilters` | what `Only` returns is what the list has of the set |
| `Processor_proofs` | `PipelineTyped` | `TypeOK` |
| | `RecordsWellFormed` | `StoreWellFormed` |
| | `NoteDeliveredOnce` | `DeliveredOnce` |
| | `PolledIsDelivered` | `PolledAsDelivered` |
| | `ReasonsTell` | `ReasonTellsDelivery` |
| | `ReturnedIsSettled` | `SettledUnlessExpired` |
| | `NeverBackwards` | `StatusMonotone` |
| `Ingest_proofs` | `IngestTyped` | `TypeOK` |
| | `FileHasOwner` | `UploadHasOwner` |
| | `AnswerIsPools` | `AnswerMatchesPool` |
| | `RefusalSettles` | `RefusedIsSettled` |
| | `SoundUploadsOnly` | `OnlySoundKept` |
| | `RefusalsFit` | `RefusalFitsUpload` |
| `Service_proofs` | `AudioThere` | `AudioAvailable` |
| | `NoFileLeftBehind` | `NoStrayUpload` |
| | `JobBeforeTask` | `JobPrecedesTask` |
| | `FinishedSettled` | `FinishedIsSettled` |
| | `ExitAccounts` | `ExitAccountsForAll` |
| | `IsPool`, `IsProcessor`, `IsIngest` | `ImplementsPool`, `ImplementsProcessor`, `ImplementsIngest` |
| | `KeepsPromise` | `ImplementsLifecycle` |
| | `PoolInService`, `PipelineInService`, `HandlerInService` | the safety invariants of the three components, of their part in the service |
| | `MonotoneInService` | `StatusMonotone` of the whole service |
| | `PromiseHolds` | `JobLifecycle`'s `Promise` |
| | `AnswersKept` | `AnswerKept` |
| `Config_proofs` | `ServedAsTold` | `ServesAsTold` |
| | `ServedProperly` | `ServesProperly` |
| | `FailuresExplained` | `FailureExplained` |

`JobPrecedesTask` and `FinishedIsSettled` are proved and not among `service`'s
properties: `ImplementsIngest` already tells a task submitted before its job,
and the second is the pipeline's `SettledUnlessExpired` seen from outside.

**Assumptions.**

- `PoolAssumption`: there is a worker, the capacity is a positive number, `None`
  is not a task. A worker is needed: without one the wait group is zero from the
  start and `Shutdown` would return with tasks in the buffer.
- `UploadAssumption`: the limit is positive and a form adds at least a byte to
  its file. `Config`'s `ServesProperly` is where the start establishes the limit
  and, for the pool, a worker and a capacity.
- `AbsentAssumption`, `NilAssumption`: the value that stands for nil is no record.
- `NoteAssumption`: the model answers with texts and lists of them, as its schema
  asks, and nil is not a list.
- `ConfigAssumption`: a variable holds a number, junk or nothing; no default is
  blank. `Environments` stays a parameter.
- `RetriesAssumption`: the number of retries is an integer, a negative one too.
- `ServiceAssumption`: those of the service's three components.

TLC evaluates each of them on the values its runs use.

### The pool

None of the four safety properties is inductive by itself. `PoolInv` is the
conjunction of five named parts:

- `TypeOK` and `Holding`: a worker has a task exactly while it is in `runTask`.
  Without `Holding` a `Cleanup` could finish no task at all.
- `Locking`: one writer, no reader beside it, and `NoSendOnClosed`. Exclusion is
  what makes `NoSendOnClosed` survive the close.
- `Placement`: where each accepted task is, one place at a time. It is
  `EachTaskInOnePlace` in the form in which a step can be checked: the elements
  of the buffer are distinct, accepted, held by nobody and not finished.
- `Ending`: a worker exits only a closed and empty channel, `Shutdown` passes its
  wait only when all have exited, and the base context is cancelled only when a
  grace period is over or all have exited. That an exited worker's channel
  *stays* empty needs `Locking`: a send requires an open channel.

Each part has a lemma with one step per action (`PoolSteps` splits `Next`). A
`Receive` and a `SubmitSends` shift indices of the buffer and take the longest
proofs. `ShutdownDrains` then follows from `InvDrained`: when all workers have
exited nothing is buffered and nothing is held, so what was accepted is
finished.

### The store

`TypeOK /\ Detached` is inductive. The heart is `CloneCopies`: a clone leaves
every record within reach as it was, owns all its memory, and has the value of
its original; from it `NewRecordApart` follows, and each call or edit changes
the value of exactly one table entry or one caller's record, a step of
`JobTable`. Without `Detached` the refinement is not provable, nor true: a
caller's edit would change the table.

### Lists

A loop over a list is a recursive function (`Kept`, round by round), and what it
computes is shown without an induction scheme, which no prover here could be
given: `LeastNumber` says that a non-empty set of numbers has a least element,
`InductionOverSet` turns that into "a set with 0 and closed under +1 has all
numbers", and a lemma's induction hypothesis becomes such a set. `OnlyKeeps` and
`OnlyLosesNothing` are the two halves of `OnlyFilters`.

### The pipeline, the handler and the call

`PipelineInv` says, for each stage of `Process`, what the stored record, the
copy in hand and the rows are: `AtLoad`, `Working`, `Completing` and so on. It
holds across jobs because an action touches one job only. For
`PolledAsDelivered` it also ties the record and the row to the note in hand: both
are made of it on separate paths (`cloneJob` and `newAnalysisDTO`, `buildRow`),
and `RenderedNote` says that nil and empty lists come to the same on both; that a
note's lists are lists at all is `NotesAre`, by `OnlyKeeps`. `IngestInv` does the
same for each control state of a request (`Request`); the environment's `Work`
and `Cleanup` need a job accepted, which is where request and pool cannot
interfere. `CallInv` adds to the two policies what the loop remembers: the
attempt count against the retries and the error of the latest attempt. The
pauses are computed by cases (`EarlyPauses`, `LatePauses`): five doublings, the
cap, and whatever the shift has wrapped to.

### The start

`StartInv` follows `run`: once loaded, the configuration is `Read` of the two
sources; past a check, there was nothing to object to; after a failure the errors
are all that is malformed, or else what one check rejected. The three theorems
then are about `Read` alone. `ServesAsTold` is stated of the two sources
(`Told`), not of `Read`, and covers every variable: what is set and parsed is
what it was set to (`ReadsAsSet`), what is not set has its default
(`ReadsDefault`, `ToldIsEnv`), and of the allowlist the entries that are not
blank are in force, all of them and no other, unless there are none
(`ReadsTypes`, by `OnlyFilters`). The defaults themselves are accepted
(`KeySuffices`), so that a failure is never over what nobody has set.

### The service

`Service_proofs` does not start over. Its instances `PoolP`, `ProcP` and `HttpP`
bring the components' proofs into the service under the refinement mapping, and
`ServiceInv` is their three invariants with two relations between them:

- `Linked(j)`: a pipeline is past its first stage only for an accepted task that
  has left the buffer; a waiting task's record is queued; an accepted task's file
  exists until it is finished; an unsettled failure has an excuse (`Abandoned`:
  its deadline, or a `Shutdown` past its grace period).
- `Ending`: a worker past `Process` has its result, `main` cancels contexts only
  after a drain or a grace period, and exits after `pool.Shutdown`.

The step has two halves. `StepMaps`: under `ServiceInv` each step of the service
is a step of each component or leaves it alone; the environments of `Processor`
and `Ingest` are met here, for instance a context ends only for an accepted,
unfinished task. Then the components' invariants are kept by their own step
lemmas, and `Linked` and `Ending` by a lemma per kind of actor. The same
`StepMaps` proves the three refinements. For `KeepsPromise`, each step is mapped
to one of `JobLifecycle`, by the pipeline's invariant for the record it finds.

The refinements also carry properties. A component's theorems hold of its
`Spec`, the service implements that, so they hold in the service (`PoolRuns`,
`PipelineRuns`, `HandlerRuns` and the theorems after them); in the same way
`JobLifecycle`'s `Promise` needs proving only there. `AnswersKept` puts them
together: a `202` is an accepted task (`AnswerMatchesPool`), which has finished
when the process stops and is settled if the drain was clean
(`ExitAccountsForAll`), with the row that is polled (`PolledAsDelivered`) or a
reason that tells (`ReasonTellsDelivery`); `SettledRecord` adds, from the
pipeline's invariant, that the reason is never the pool's.

**Only model-checked**: liveness (under fairness it is out of the proof system's
reach, as is ENABLED): `AcceptedFinishes`, `ShutdownReturns`,
`AcceptedIsProcessed`, `RequestAnswered`, `SignalStops` and `CallReturns`. Every
other property of a passing run is proved.

## 5. Not modelled

- The OpenAI request bodies, the prompt and its JSON schema: data that no outcome
  in the program depends on. What the answer becomes is modelled.
- The client of the Google API, which is built before the service starts;
  `DestinationFails` stands for its failure.
- Request ids, access log, logger set-up, JSON rendering: no state.
- The recovery from a panic in the middleware, and panics in general; crashes of
  the process other than the listener's error, for nothing survives the process.
- The health probe, a process of its own that only reads the server's answer and
  finds the port without the `.env` file.
- Eviction: the store has none, jobs stay for the life of the process.
- Timeouts as durations; `validate` lets zero and less through. With such a
  `PIPELINE_PROCESSING_TIMEOUT` or `SERVER_SHUTDOWN_TIMEOUT` a context is done at
  once, a behaviour the models of pool, pipeline and service include. Such a
  `SERVER_READ_TIMEOUT`, `SERVER_WRITE_TIMEOUT` or `OPENAI_REQUEST_TIMEOUT` is
  none at all: an attempt then ends with its job's context, as the model of the
  call allows, and the read timeout is an assumption (section 3, fairness).
- `NewActionItem` and the rest of `domain` without a caller.

## 6. Plan

Done: the pool, the processor, the handler with its checks, the service and its
refinements, the store on the heap, the note's values, the client, the
configuration, and proofs of every safety and action property of the runs.

What is left, by weight:

1. A refinement of the pool by a queue of its own: `WorkerPool` as an
   implementation of "each admitted task is run once", without goroutines.
2. The read and write timeouts of the HTTP server as clocks of a request; today
   they are among the reasons a body breaks off.
3. The probe beside the server, if it is ever given the `.env` file.
