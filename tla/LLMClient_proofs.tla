-------------------------- MODULE LLMClient_proofs --------------------------
(***************************************************************************)
(* One call of the client, for any number of retries: the retry policy and *)
(* the origin of what is reported.                                         *)
(***************************************************************************)
EXTENDS LLMClient, TLAPS

Retrying == pc \in {"loop", "wait", "build", "send"}

\* While do is in its loop every attempt has sent one request, and one that is
\* under way is within the bound.
Counting ==
  /\ Retrying => sent = attempt
  /\ pc \in {"wait", "build", "send"} => attempt <= MaxRetries

\* lastErr is the error of the latest request, which may be retried.
Remembering ==
  Retrying =>
    /\ lastErr = "none" => attempt = 0 /\ latest = "none"
    /\ lastErr # "none" => attempt <= MaxRetries + 1
    /\ lastErr \in {"network", "read"} => latest = lastErr
    /\ lastErr = "api" => latest = "transient"

\* There is no result before the end, and nothing to decode but an answer, or
\* no body at all.
Pending ==
  /\ pc # "done" => result = "none"
  /\ pc = "decode" => latest \in {"2xx", "none"}

CallInv ==
  /\ TypeOK /\ Counting /\ Remembering /\ Pending
  /\ ReportsLatestAttempt /\ RetriesOnlyTransient

\* A call begins with nothing tried and nothing to remember.
LEMMA CallInit == Init => CallInv
BY RetriesAssumption DEF Init, CallInv, TypeOK, Op, Control, Error, Result, Ending,
     Retrying, Counting, Remembering, Pending, ReportsLatestAttempt,
     RetriesOnlyTransient

\* An attempt, a wait and a return keep what the loop knows of its attempts.
LEMMA CallStep == CallInv /\ [Next]_callVars => CallInv'
<1> SUFFICES ASSUME CallInv, [Next]_callVars
             PROVE  CallInv'
  OBVIOUS
<1> USE RetriesAssumption
    DEF CallInv, TypeOK, Op, Control, Error, Result, Ending, Retrying, Counting,
        Remembering, Pending, ReportsLatestAttempt, RetriesOnlyTransient,
        Goes, Returns
<1>1. CASE Enter
  BY <1>1 DEF Enter
<1>2. CASE Exhausted
  BY <1>2 DEF Exhausted
<1>3. CASE WaitElapses
  BY <1>3 DEF WaitElapses
<1>4. CASE WaitCancelled
  BY <1>4 DEF WaitCancelled
<1>5. CASE Build \/ BuildFails
  BY <1>5 DEF Build, BuildFails
<1>6. CASE NetworkError \/ ReadError
  BY <1>6 DEF NetworkError, ReadError, Ends, Continues
<1>7. CASE Succeeds
  BY <1>7 DEF Succeeds, Ends
<1>8. CASE TransientError
  BY <1>8 DEF TransientError, Ends, Continues
<1>9. CASE PermanentError
  BY <1>9 DEF PermanentError, Ends
<1>10. CASE Transcribe \/ Analyze
  BY <1>10 DEF Transcribe, Analyze, Decodes, Undecodable
<1>11. CASE ContextDone
  BY <1>11 DEF ContextDone
<1>12. CASE UNCHANGED callVars
  BY <1>12 DEF callVars
<1>13. QED
  BY <1>1, <1>2, <1>3, <1>4, <1>5, <1>6, <1>7, <1>8, <1>9, <1>10, <1>11, <1>12
     DEF Next, Step, Terminated

\* CallInv holds in every reachable state.
LEMMA CallInvariant == Spec => []CallInv
  BY CallInit, CallStep, PTL DEF Spec

\* The port reports the latest attempt, whatever the bound on the retries.
THEOREM LatestIsReported == Spec => []ReportsLatestAttempt
  BY CallInvariant, PTL DEF CallInv

\* Only transient failures are retried, at most MaxRetries times, for any
\* integer the configuration lets through.
THEOREM PolicyIsKept == Spec => []RetriesOnlyTransient
  BY CallInvariant, PTL DEF CallInv

-----------------------------------------------------------------------------
(***************************************************************************)
(* The pauses: what defaultBackoff's shift and cap come to, attempt by     *)
(* attempt.                                                                *)
(***************************************************************************)
\* The pauses double from 200ms ...
LEMMA EarlyPauses ==
  ASSUME NEW n \in 1..5
  PROVE  Backoff(n) = IF n = 1 THEN 200 ELSE IF n = 2 THEN 400 ELSE IF n = 3 THEN 800
                      ELSE IF n = 4 THEN 1600 ELSE 3200
<1>1. 2^0 = 1 /\ 2^1 = 2 /\ 2^2 = 4 /\ 2^3 = 8 /\ 2^4 = 16
  BY SMT
<1>2. n - 1 \in {0, 1, 2, 3, 4} /\ n - 1 < 5
  OBVIOUS
<1>3. 2^(n - 1) = IF n - 1 = 0 THEN 1 ELSE IF n - 1 = 1 THEN 2 ELSE IF n - 1 = 2 THEN 4
                  ELSE IF n - 1 = 3 THEN 8 ELSE 16
  BY <1>1, <1>2, Zenon
<1>4. Backoff(n) = 200 * 2^(n - 1)
  BY <1>2, SMT DEF Backoff
<1>5. QED
  BY <1>2, <1>3, <1>4, SMT

\* ... to the cap, where they stay until the shift wraps.
LEMMA LatePauses ==
  ASSUME NEW n \in Nat, n > 5
  PROVE  /\ n <= 36 => Backoff(n) = 5000
         /\ n > 36 => Backoff(n) \in {-1, 0, 5000}
<1>1. CASE n <= 36
  BY <1>1, SMT DEF Backoff
<1>2. CASE n > 36
  BY <1>2, SMT DEF Backoff
<1>3. QED
  BY <1>1, <1>2, SMT

\* Only a retry waits.
LEMMA WaitsToRetry == Spec => [](pc = "wait" => attempt # 0)
<1> DEFINE Waits == pc = "wait" => attempt # 0
<1>1. Init => Waits
  BY DEF Init
<1>2. Waits /\ [Next]_callVars => Waits'
  BY DEF Next, Step, callVars, Enter, Exhausted, WaitElapses, WaitCancelled, Build,
     BuildFails, NetworkError, ReadError, Succeeds, TransientError, PermanentError,
     Transcribe, Analyze, Decodes, Undecodable, ContextDone, Terminated, Ends,
     Continues, Returns, Goes
<1>3. QED
  BY <1>1, <1>2, PTL DEF Spec

\* The pauses grow to the cap and stay there while the shift has room, and do
\* not exceed it after that, however many retries are configured.
THEOREM PausesAreBounded == Spec => []PausesGrow
<1>1. ASSUME CallInv, pc = "wait" => attempt # 0
      PROVE  PausesGrow
  <2>1. SUFFICES ASSUME pc = "wait"
                 PROVE  /\ attempt \in 1..MaxRetries
                        /\ Backoff(attempt) <= 5000
                        /\ attempt <= 36 =>
                             /\ Backoff(attempt) >= 200
                             /\ attempt > 1 => Backoff(attempt) >= Backoff(attempt - 1)
    BY DEF PausesGrow
  <2>2. attempt \in 1..MaxRetries
    BY <1>1, <2>1, RetriesAssumption DEF CallInv, TypeOK, Counting
  <2>3. CASE attempt <= 5
    <3>1. attempt \in 1..5 /\ (attempt > 1 => attempt - 1 \in 1..5)
      BY <2>2, <2>3, RetriesAssumption, SMT
    <3>2. QED
      BY <2>2, <3>1, EarlyPauses, SMT
  <2>4. CASE attempt > 5
    <3>1. /\ Backoff(attempt) <= 5000
          /\ attempt <= 36 => Backoff(attempt) = 5000
      BY <2>2, <2>4, LatePauses, RetriesAssumption, SMT
    <3>2. attempt <= 36 => Backoff(attempt - 1) \in Int /\ Backoff(attempt - 1) <= 5000
      <4>1. CASE attempt - 1 > 5
        BY <2>2, <4>1, LatePauses, RetriesAssumption, SMT
      <4>2. CASE attempt - 1 \in 1..5
        BY <4>2, EarlyPauses, SMT
      <4>3. QED
        BY <2>2, <2>4, <4>1, <4>2, RetriesAssumption, SMT
    <3>3. QED
      BY <2>2, <3>1, <3>2, SMT
  <2>5. QED
    BY <2>2, <2>3, <2>4, RetriesAssumption, SMT
<1>2. QED
  BY <1>1, CallInvariant, WaitsToRetry, PTL
=============================================================================
