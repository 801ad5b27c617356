-------------------------- MODULE WorkerPool_proofs --------------------------
(***************************************************************************)
(* The safety of the worker pool, for any sets of tasks, workers and       *)
(* Shutdown callers and any capacity: PoolInv is inductive and implies the *)
(* safety properties of WorkerPool.                                        *)
(***************************************************************************)
EXTENDS WorkerPool, TLAPS

\* What a step of the pool may change, by cases.
LEMMA PoolSteps ==
  ASSUME [Next]_poolVars
  PROVE  \/ \E j \in Job : SubmitRLock(j)
         \/ \E j \in Job : SubmitChecksClosed(j)
         \/ \E j \in Job : SubmitSends(j)
         \/ \E j \in Job : SubmitDefault(j)
         \/ \E c \in Closer : ShutdownLocks(c)
         \/ \E c \in Closer : ShutdownAgain(c)
         \/ \E c \in Closer : ShutdownCloses(c)
         \/ \E c \in Closer : ShutdownDrained(c)
         \/ \E c \in Closer : ShutdownGraceOver(c)
         \/ \E c \in Closer : ShutdownUnwound(c)
         \/ \E c \in Closer : GraceExpires(c)
         \/ \E w \in Worker : Receive(w)
         \/ \E w \in Worker : Exit(w)
         \/ \E w \in Worker : Deadline(w)
         \/ \E w \in Worker : ProcessReturns(w)
         \/ \E w \in Worker : Cleanup(w)
         \/ UNCHANGED poolVars
  BY DEF Next, SubmitAction, SubmitProceeds, ShutdownAction,
         ShutdownProceeds, WorkerAction, Terminated

-----------------------------------------------------------------------------
\* Types.  A deadline or a cleanup is about the task the worker holds, so
\* Holding is needed beside TypeOK.
LEMMA TypeInit == Init => TypeOK /\ Holding
<1> SUFFICES ASSUME Init PROVE TypeOK /\ Holding
  OBVIOUS
<1>1. queue \in Seq(Job) /\ Len(queue) <= QueueSize
  <2>1. <<>> \in Seq(Job) /\ Len(<<>>) = 0
    OBVIOUS
  <2> QED
    BY <2>1, PoolAssumption DEF Init
<1>2. TypeOK
  BY <1>1 DEF Init, TypeOK, SubmitState, CloserState, WorkerState
<1>3. Holding
  BY DEF Init, Holding
<1> QED
  BY <1>2, <1>3

\* Every step keeps the types, and a task with exactly the workers in runTask.
LEMMA TypeStep ==
  ASSUME TypeOK, Holding, [Next]_poolVars
  PROVE  TypeOK' /\ Holding'
<1> USE PoolAssumption DEF TypeOK, Holding
<1>1. ASSUME NEW j \in Job, SubmitRLock(j) PROVE TypeOK' /\ Holding'
  BY <1>1 DEF SubmitRLock, SubmitSteps, closeVars, workVars, SubmitState
<1>2. ASSUME NEW j \in Job, SubmitChecksClosed(j) PROVE TypeOK' /\ Holding'
  BY <1>2 DEF SubmitChecksClosed, SubmitSteps, closeVars, workVars, SubmitState
<1>3. ASSUME NEW j \in Job, SubmitSends(j) PROVE TypeOK' /\ Holding'
  <2>1. queue' \in Seq(Job) /\ Len(queue') = Len(queue) + 1
    BY <1>3 DEF SubmitSends
  <2> QED
    BY <1>3, <2>1
    DEF SubmitSends, SubmitSteps, closeVars, workVars, SubmitState
<1>4. ASSUME NEW j \in Job, SubmitDefault(j) PROVE TypeOK' /\ Holding'
  BY <1>4 DEF SubmitDefault, SubmitSteps, closeVars, workVars, SubmitState
<1>5. ASSUME NEW c \in Closer, ShutdownLocks(c) PROVE TypeOK' /\ Holding'
  BY <1>5 DEF ShutdownLocks, CloserSteps, submitVars, workVars, CloserState
<1>6. ASSUME NEW c \in Closer, ShutdownAgain(c) PROVE TypeOK' /\ Holding'
  BY <1>6 DEF ShutdownAgain, CloserSteps, submitVars, workVars, CloserState
<1>7. ASSUME NEW c \in Closer, ShutdownCloses(c) PROVE TypeOK' /\ Holding'
  BY <1>7 DEF ShutdownCloses, CloserSteps, submitVars, workVars, CloserState
<1>8. ASSUME NEW c \in Closer, ShutdownDrained(c) PROVE TypeOK' /\ Holding'
  BY <1>8 DEF ShutdownDrained, CloserSteps, submitVars, workVars, CloserState
<1>9. ASSUME NEW c \in Closer, ShutdownGraceOver(c) PROVE TypeOK' /\ Holding'
  BY <1>9 DEF ShutdownGraceOver, CloserSteps, submitVars, workVars, CloserState
<1>10. ASSUME NEW c \in Closer, ShutdownUnwound(c) PROVE TypeOK' /\ Holding'
  BY <1>10 DEF ShutdownUnwound, CloserSteps, submitVars, workVars, CloserState
<1>11. ASSUME NEW c \in Closer, GraceExpires(c) PROVE TypeOK' /\ Holding'
  BY <1>11 DEF GraceExpires, submitVars, workVars, CloserState
<1>12. ASSUME NEW w \in Worker, Receive(w) PROVE TypeOK' /\ Holding'
  <2>1. Head(queue) \in Job /\ Tail(queue) \in Seq(Job)
        /\ Len(Tail(queue)) = Len(queue) - 1
    BY <1>12 DEF Receive
  <2> QED
    BY <1>12, <2>1 DEF Receive, submitVars, closeVars, WorkerState
<1>13. ASSUME NEW w \in Worker, Exit(w) PROVE TypeOK' /\ Holding'
  BY <1>13 DEF Exit, submitVars, closeVars, WorkerState
<1>14. ASSUME NEW w \in Worker, Deadline(w) PROVE TypeOK' /\ Holding'
  BY <1>14 DEF Deadline, submitVars, closeVars, WorkerState
<1>15. ASSUME NEW w \in Worker, ProcessReturns(w) PROVE TypeOK' /\ Holding'
  BY <1>15 DEF ProcessReturns, submitVars, closeVars, WorkerState
<1>16. ASSUME NEW w \in Worker, Cleanup(w) PROVE TypeOK' /\ Holding'
  BY <1>16 DEF Cleanup, submitVars, closeVars, WorkerState
<1>17. CASE UNCHANGED poolVars
  BY <1>17 DEF poolVars
<1> QED
  BY <1>1, <1>2, <1>3, <1>4, <1>5, <1>6, <1>7, <1>8, <1>9, <1>10, <1>11,
     <1>12, <1>13, <1>14, <1>15, <1>16, <1>17, PoolSteps

\* The pool's state is well typed, and its buffer never exceeds its capacity.
THEOREM TypeCorrect == Spec => []TypeOK
<1>1. TypeOK /\ Holding /\ [Next]_poolVars => TypeOK' /\ Holding'
  BY TypeStep
<1> QED
  BY TypeInit, <1>1, PTL DEF Spec
-----------------------------------------------------------------------------
\* The read-write lock.
LEMMA LockingStep ==
  ASSUME TypeOK, Locking, [Next]_poolVars
  PROVE  Locking'
<1> USE DEF TypeOK, Locking, NoSendOnClosed
<1>1. ASSUME NEW j \in Job, SubmitRLock(j) PROVE Locking'
  BY <1>1 DEF SubmitRLock, SubmitSteps, closeVars, workVars, Writers
<1>2. ASSUME NEW j \in Job, SubmitChecksClosed(j) PROVE Locking'
  BY <1>2 DEF SubmitChecksClosed, SubmitSteps, closeVars, workVars
<1>3. ASSUME NEW j \in Job, SubmitSends(j) PROVE Locking'
  BY <1>3 DEF SubmitSends, SubmitSteps, closeVars, workVars
<1>4. ASSUME NEW j \in Job, SubmitDefault(j) PROVE Locking'
  BY <1>4 DEF SubmitDefault, SubmitSteps, closeVars, workVars
<1>5. ASSUME NEW c \in Closer, ShutdownLocks(c) PROVE Locking'
  BY <1>5 DEF ShutdownLocks, CloserSteps, submitVars, workVars, Readers, Writers
<1>6. ASSUME NEW c \in Closer, ShutdownAgain(c) PROVE Locking'
  BY <1>6 DEF ShutdownAgain, CloserSteps, submitVars, workVars
<1>7. ASSUME NEW c \in Closer, ShutdownCloses(c) PROVE Locking'
  BY <1>7 DEF ShutdownCloses, CloserSteps, submitVars, workVars
<1>8. ASSUME NEW c \in Closer, ShutdownDrained(c) PROVE Locking'
  BY <1>8 DEF ShutdownDrained, CloserSteps, submitVars, workVars
<1>9. ASSUME NEW c \in Closer, ShutdownGraceOver(c) PROVE Locking'
  BY <1>9 DEF ShutdownGraceOver, CloserSteps, submitVars, workVars
<1>10. ASSUME NEW c \in Closer, ShutdownUnwound(c) PROVE Locking'
  BY <1>10 DEF ShutdownUnwound, CloserSteps, submitVars, workVars
<1>11. ASSUME NEW c \in Closer, GraceExpires(c) PROVE Locking'
  BY <1>11 DEF GraceExpires, submitVars, workVars
<1>12. ASSUME NEW w \in Worker, Receive(w) PROVE Locking'
  BY <1>12 DEF Receive, submitVars, closeVars
<1>13. ASSUME NEW w \in Worker, Exit(w) PROVE Locking'
  BY <1>13 DEF Exit, submitVars, closeVars
<1>14. ASSUME NEW w \in Worker, Deadline(w) PROVE Locking'
  BY <1>14 DEF Deadline, submitVars, closeVars
<1>15. ASSUME NEW w \in Worker, ProcessReturns(w) PROVE Locking'
  BY <1>15 DEF ProcessReturns, submitVars, closeVars
<1>16. ASSUME NEW w \in Worker, Cleanup(w) PROVE Locking'
  BY <1>16 DEF Cleanup, submitVars, closeVars
<1>17. CASE UNCHANGED poolVars
  BY <1>17 DEF poolVars
<1> QED
  BY <1>1, <1>2, <1>3, <1>4, <1>5, <1>6, <1>7, <1>8, <1>9, <1>10, <1>11,
     <1>12, <1>13, <1>14, <1>15, <1>16, <1>17, PoolSteps

\* The end of workers, calls and contexts.  An accepted send finds no worker
\* gone, because the channel it sends on is open.
LEMMA EndingStep ==
  ASSUME TypeOK, Locking, Ending, [Next]_poolVars
  PROVE  Ending'
<1> USE DEF TypeOK, Ending, AllExited
<1>1. ASSUME NEW j \in Job, SubmitRLock(j) PROVE Ending'
  BY <1>1 DEF SubmitRLock, SubmitSteps, closeVars, workVars
<1>2. ASSUME NEW j \in Job, SubmitChecksClosed(j) PROVE Ending'
  BY <1>2 DEF SubmitChecksClosed, SubmitSteps, closeVars, workVars
<1>3. ASSUME NEW j \in Job, SubmitSends(j) PROVE Ending'
  BY <1>3 DEF SubmitSends, SubmitSteps, closeVars, workVars, Locking, NoSendOnClosed
<1>4. ASSUME NEW j \in Job, SubmitDefault(j) PROVE Ending'
  BY <1>4 DEF SubmitDefault, SubmitSteps, closeVars, workVars
<1>5. ASSUME NEW c \in Closer, ShutdownLocks(c) PROVE Ending'
  BY <1>5 DEF ShutdownLocks, CloserSteps, submitVars, workVars
<1>6. ASSUME NEW c \in Closer, ShutdownAgain(c) PROVE Ending'
  BY <1>6 DEF ShutdownAgain, CloserSteps, submitVars, workVars
<1>7. ASSUME NEW c \in Closer, ShutdownCloses(c) PROVE Ending'
  BY <1>7 DEF ShutdownCloses, CloserSteps, submitVars, workVars
<1>8. ASSUME NEW c \in Closer, ShutdownDrained(c) PROVE Ending'
  BY <1>8 DEF ShutdownDrained, CloserSteps, submitVars, workVars
<1>9. ASSUME NEW c \in Closer, ShutdownGraceOver(c) PROVE Ending'
  BY <1>9 DEF ShutdownGraceOver, CloserSteps, submitVars, workVars
<1>10. ASSUME NEW c \in Closer, ShutdownUnwound(c) PROVE Ending'
  BY <1>10 DEF ShutdownUnwound, CloserSteps, submitVars, workVars
<1>11. ASSUME NEW c \in Closer, GraceExpires(c) PROVE Ending'
  BY <1>11 DEF GraceExpires, submitVars, workVars
<1>12. ASSUME NEW w \in Worker, Receive(w) PROVE Ending'
  BY <1>12 DEF Receive, submitVars, closeVars
<1>13. ASSUME NEW w \in Worker, Exit(w) PROVE Ending'
  BY <1>13 DEF Exit, submitVars, closeVars
<1>14. ASSUME NEW w \in Worker, Deadline(w) PROVE Ending'
  BY <1>14 DEF Deadline, submitVars, closeVars
<1>15. ASSUME NEW w \in Worker, ProcessReturns(w) PROVE Ending'
  BY <1>15 DEF ProcessReturns, submitVars, closeVars
<1>16. ASSUME NEW w \in Worker, Cleanup(w) PROVE Ending'
  BY <1>16 DEF Cleanup, submitVars, closeVars
<1>17. CASE UNCHANGED poolVars
  BY <1>17 DEF poolVars
<1> QED
  BY <1>1, <1>2, <1>3, <1>4, <1>5, <1>6, <1>7, <1>8, <1>9, <1>10, <1>11,
     <1>12, <1>13, <1>14, <1>15, <1>16, <1>17, PoolSteps

\* Where the accepted tasks are.  Only a send, a receive and a cleanup move
\* one, each out of one place and into the next.
LEMMA PlacementStep ==
  ASSUME TypeOK, Holding, Placement, [Next]_poolVars
  PROVE  Placement'
<1> USE DEF TypeOK, Holding, Placement
<1>1. ASSUME NEW j \in Job, SubmitRLock(j) PROVE Placement'
  BY <1>1 DEF SubmitRLock, SubmitSteps, closeVars, workVars, Accepted, Pending, Held
<1>2. ASSUME NEW j \in Job, SubmitChecksClosed(j) PROVE Placement'
  BY <1>2 DEF SubmitChecksClosed, SubmitSteps, closeVars, workVars, Accepted, Pending, Held
<1>3. ASSUME NEW j \in Job, SubmitSends(j) PROVE Placement'
  <2>1. queue' \in Seq(Job) /\ Len(queue') = Len(queue) + 1
        /\ queue'[Len(queue) + 1] = j
        /\ \A i \in DOMAIN queue : queue'[i] = queue[i]
    BY <1>3 DEF SubmitSends
  <2>2. DOMAIN queue' = DOMAIN queue \cup {Len(queue) + 1}
    BY <2>1
  <2>3. submit' = [submit EXCEPT ![j] = "accepted"] /\ submit[j] = "selecting"
        /\ task' = task /\ finished' = finished
    BY <1>3 DEF SubmitSends, SubmitSteps, workVars
  <2>4. \A i \in DOMAIN queue : queue[i] # j
    BY <2>3
  <2>5. j \notin finished /\ \A w \in Worker : task[w] # j
    BY <2>3, PoolAssumption
  <2>6. Pending' = Pending \cup {j} /\ Held' = Held
    BY <2>1, <2>2, <2>3 DEF Pending, Held
  <2>7. Accepted' = Accepted \cup {j}
    BY <2>3 DEF Accepted
  <2> QED
    BY <2>1, <2>2, <2>3, <2>4, <2>5, <2>6, <2>7
<1>4. ASSUME NEW j \in Job, SubmitDefault(j) PROVE Placement'
  BY <1>4 DEF SubmitDefault, SubmitSteps, closeVars, workVars, Accepted, Pending, Held
<1>5. ASSUME NEW c \in Closer, ShutdownLocks(c) PROVE Placement'
  BY <1>5 DEF ShutdownLocks, CloserSteps, submitVars, workVars, Accepted, Pending, Held
<1>6. ASSUME NEW c \in Closer, ShutdownAgain(c) PROVE Placement'
  BY <1>6 DEF ShutdownAgain, CloserSteps, submitVars, workVars, Accepted, Pending, Held
<1>7. ASSUME NEW c \in Closer, ShutdownCloses(c) PROVE Placement'
  BY <1>7 DEF ShutdownCloses, CloserSteps, submitVars, workVars, Accepted, Pending, Held
<1>8. ASSUME NEW c \in Closer, ShutdownDrained(c) PROVE Placement'
  BY <1>8 DEF ShutdownDrained, CloserSteps, submitVars, workVars, Accepted, Pending, Held
<1>9. ASSUME NEW c \in Closer, ShutdownGraceOver(c) PROVE Placement'
  BY <1>9 DEF ShutdownGraceOver, CloserSteps, submitVars, workVars, Accepted, Pending, Held
<1>10. ASSUME NEW c \in Closer, ShutdownUnwound(c) PROVE Placement'
  BY <1>10 DEF ShutdownUnwound, CloserSteps, submitVars, workVars, Accepted, Pending, Held
<1>11. ASSUME NEW c \in Closer, GraceExpires(c) PROVE Placement'
  BY <1>11 DEF GraceExpires, submitVars, workVars, Accepted, Pending, Held
<1>12. ASSUME NEW w \in Worker, Receive(w) PROVE Placement'
  <2>1. worker[w] = "receiving" /\ task[w] = None
    BY <1>12 DEF Receive
  <2>2. queue # <<>> /\ queue' \in Seq(Job) /\ Len(queue') = Len(queue) - 1
        /\ \A i \in DOMAIN queue' : i + 1 \in DOMAIN queue
                                     /\ queue'[i] = queue[i + 1]
    BY <1>12 DEF Receive
  <2>3. 1 \in DOMAIN queue /\ task' = [task EXCEPT ![w] = queue[1]]
        /\ submit' = submit /\ finished' = finished
    <3>1. Len(queue) \in Nat /\ Len(queue) # 0 /\ DOMAIN queue = 1..Len(queue)
      BY <2>2
    <3>2. 1 \in DOMAIN queue
      BY <3>1
    <3>3. task' = [task EXCEPT ![w] = Head(queue)]
          /\ submit' = submit /\ finished' = finished
      BY <1>12 DEF Receive, submitVars
    <3>4. Head(queue) = queue[1]
      BY <3>1
    <3> QED
      BY <3>2, <3>3, <3>4
  <2>4. ASSUME NEW i \in DOMAIN queue'
        PROVE  queue'[i] # queue[1]
    <3>1. i \in Nat /\ i # 0
      BY <2>2
    <3>2. i + 1 # 1 /\ i + 1 \in DOMAIN queue /\ queue'[i] = queue[i + 1]
      BY <2>2, <3>1
    <3> QED
      BY <2>3, <3>2
  <2>5. queue[1] # None
    BY <2>3, PoolAssumption
  <2>6. Pending \subseteq Pending' \cup {queue[1]}
    <3>1. ASSUME NEW i \in DOMAIN queue, i # 1
          PROVE  queue[i] \in Pending'
      <4>1. i - 1 \in DOMAIN queue' /\ queue'[i - 1] = queue[i]
        BY <3>1, <2>2
      <4> QED
        BY <4>1 DEF Pending
    <3> QED
      BY <3>1 DEF Pending
  <2>7. Held' = Held \cup {queue[1]}
    BY <2>1, <2>3, <2>5 DEF Held
  <2>8. Accepted' = Accepted
    BY <2>3 DEF Accepted
  <2>9. \A j \in Accepted' : j \in Pending' \cup Held' \cup finished'
    BY <2>3, <2>6, <2>7, <2>8
  <2>10. \A i \in DOMAIN queue' :
           /\ submit'[queue'[i]] = "accepted"
           /\ queue'[i] \notin finished'
           /\ \A v \in Worker : task'[v] # queue'[i]
    BY <2>2, <2>3, <2>4
  <2>11. \A i, k \in DOMAIN queue' : queue'[i] = queue'[k] => i = k
    <3> SUFFICES ASSUME NEW i \in DOMAIN queue', NEW k \in DOMAIN queue',
                        queue'[i] = queue'[k]
                 PROVE  i = k
      OBVIOUS
    <3>1. i + 1 = k + 1
      BY <2>2
    <3> QED
      BY <3>1, <2>2
  <2> QED
    BY <2>3, <2>5, <2>9, <2>10, <2>11
<1>13. ASSUME NEW w \in Worker, Exit(w) PROVE Placement'
  BY <1>13 DEF Exit, submitVars, closeVars, Accepted, Pending, Held
<1>14. ASSUME NEW w \in Worker, Deadline(w) PROVE Placement'
  BY <1>14 DEF Deadline, submitVars, closeVars, Accepted, Pending, Held
<1>15. ASSUME NEW w \in Worker, ProcessReturns(w) PROVE Placement'
  BY <1>15 DEF ProcessReturns, submitVars, closeVars, Accepted, Pending, Held
<1>16. ASSUME NEW w \in Worker, Cleanup(w) PROVE Placement'
  <2>1. task[w] \in Job /\ task[w] # None
    BY <1>16 DEF Cleanup
  <2>2. task' = [task EXCEPT ![w] = None] /\ submit' = submit
        /\ queue' = queue /\ finished' = finished \cup {task[w]}
    BY <1>16 DEF Cleanup, submitVars
  <2>3. Held \subseteq Held' \cup {task[w]}
    BY <2>2 DEF Held
  <2>4. Accepted' = Accepted /\ Pending' = Pending
    BY <2>2 DEF Accepted, Pending
  <2>5. \A v \in Worker : task'[v] # None => task'[v] = task[v] /\ v # w
    BY <2>2
  <2>6. \A i \in DOMAIN queue' :
          /\ submit'[queue'[i]] = "accepted"
          /\ queue'[i] \notin finished'
          /\ \A v \in Worker : task'[v] # queue'[i]
    <3> SUFFICES ASSUME NEW i \in DOMAIN queue
                 PROVE  /\ submit[queue[i]] = "accepted"
                        /\ queue[i] \notin finished \cup {task[w]}
                        /\ \A v \in Worker : task'[v] # queue[i]
      BY <2>2
    <3>1. queue[i] \in Job /\ queue[i] # None
      BY PoolAssumption
    <3> QED
      BY <2>5, <3>1
  <2>7. /\ \A v \in Worker : task'[v] # None =>
             submit'[task'[v]] = "accepted" /\ task'[v] \notin finished'
        /\ \A v, x \in Worker : task'[v] = task'[x] /\ task'[v] # None => v = x
    BY <2>1, <2>2, <2>5
  <2>8. \A j \in finished' : submit'[j] = "accepted"
    BY <2>1, <2>2
  <2>9. \A j \in Accepted' : j \in Pending' \cup Held' \cup finished'
    BY <2>2, <2>3, <2>4
  <2> QED
    BY <2>2, <2>6, <2>7, <2>8, <2>9
<1>17. CASE UNCHANGED poolVars
  BY <1>17 DEF poolVars, Accepted, Pending, Held
<1> QED
  BY <1>1, <1>2, <1>3, <1>4, <1>5, <1>6, <1>7, <1>8, <1>9, <1>10, <1>11,
     <1>12, <1>13, <1>14, <1>15, <1>16, <1>17, PoolSteps

-----------------------------------------------------------------------------
\* PoolInv is inductive.
LEMMA PoolInit == Init => PoolInv
<1> SUFFICES ASSUME Init PROVE PoolInv
  OBVIOUS
<1>1. TypeOK /\ Holding
  BY TypeInit
<1>2. Locking
  BY DEF Init, Locking, NoSendOnClosed
<1>3. Placement
  <2>1. DOMAIN queue = {}
    BY DEF Init
  <2> QED
    BY <2>1 DEF Init, Placement, Accepted, Pending, Held
<1>4. Ending
  BY DEF Init, Ending
<1> QED
  BY <1>1, <1>2, <1>3, <1>4 DEF PoolInv

\* Every step keeps PoolInv.
LEMMA PoolStep == PoolInv /\ [Next]_poolVars => PoolInv'
BY TypeStep, LockingStep, PlacementStep, EndingStep DEF PoolInv

\* PoolInv holds in every reachable state.
THEOREM PoolInvariant == Spec => []PoolInv
BY PoolInit, PoolStep, PTL DEF Spec

\* Submit never sends on the channel that Shutdown has closed.
THEOREM SendsOnlyWhileOpen == Spec => []NoSendOnClosed
<1>1. PoolInv => NoSendOnClosed
  BY DEF PoolInv, Locking
<1> QED
  BY <1>1, PoolInvariant, PTL

\* Every accepted task is in exactly one place: none is lost or run twice.
LEMMA InvPlaces == PoolInv => EachTaskInOnePlace
<1> SUFFICES ASSUME PoolInv PROVE EachTaskInOnePlace
  OBVIOUS
<1> USE PoolAssumption DEF PoolInv, TypeOK, Placement
<1>1. Pending \subseteq Accepted
  BY DEF Pending, Accepted
<1>2. Held \subseteq Accepted
  BY DEF Held, Accepted
<1>3. finished \subseteq Accepted
  BY DEF Accepted
<1>4. Pending \cap Held = {} /\ Pending \cap finished = {}
  BY DEF Pending, Held
<1>5. Held \cap finished = {}
  BY DEF Held
<1> QED
  BY <1>1, <1>2, <1>3, <1>4, <1>5 DEF EachTaskInOnePlace

\* Submit, worker and runTask keep every accepted task in one place.
THEOREM TasksAreConserved == Spec => []EachTaskInOnePlace
  BY InvPlaces, PoolInvariant, PTL

\* Once all workers are gone, nothing is buffered and nothing is held.
LEMMA InvDrained ==
  ASSUME PoolInv, AllExited
  PROVE  Pending = {} /\ Held = {}
<1> USE DEF PoolInv
<1>1. PICK w \in Worker : worker[w] = "exited"
  BY PoolAssumption DEF AllExited
<1>2. queue = <<>>
  BY <1>1 DEF Ending
<1>3. Pending = {}
  BY <1>2 DEF Pending
<1>4. Held = {}
  BY DEF Held, Holding, AllExited
<1> QED
  BY <1>3, <1>4

\* The Shutdown call that closed the pool returns only when every accepted
\* task has been run and cleaned up.
THEOREM ShutdownDrainsPool == Spec => []ShutdownDrains
<1>1. PoolInv => ShutdownDrains
  <2> SUFFICES ASSUME PoolInv,
                      NEW c \in Closer, closer[c] \in {"nil", "err"}
               PROVE  AllExited /\ Accepted = finished
    BY DEF ShutdownDrains
  <2>1. AllExited
    BY DEF PoolInv, Ending
  <2> QED
    BY <2>1, InvDrained, InvPlaces DEF EachTaskInOnePlace
<1> QED
  BY <1>1, PoolInvariant, PTL

\* A clean drain never cancels the context of a task.
THEOREM AbortsOnlyAfterGrace == Spec => []AbortOnlyAfterGrace
<1>1. PoolInv => AbortOnlyAfterGrace
  BY InvDrained DEF PoolInv, Ending, AbortOnlyAfterGrace
<1> QED
  BY <1>1, PoolInvariant, PTL
=============================================================================
