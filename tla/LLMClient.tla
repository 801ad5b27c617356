----------------------------- MODULE LLMClient ------------------------------
(***************************************************************************)
(* One call of the OpenAI adapter (internal/adapter/openai): Transcribe or *)
(* Analyze around Client.do, its bounded retries, the pauses between them  *)
(* and the context that bounds the whole.  The provider and the network    *)
(* answer each attempt as they like.                                       *)
(***************************************************************************)
EXTENDS Integers

\* OPENAI_MAX_RETRIES: any integer, the configuration does not check it.
CONSTANT MaxRetries
ASSUME RetriesAssumption == MaxRetries \in Int

VARIABLES
  op,       \* which port is called
  pc,       \* control state
  attempt,  \* do's loop counter
  lastErr,  \* do's lastErr
  result,   \* what the port returns
  ctxDone,  \* the caller's context is done
  sent,     \* requests sent
  latest    \* how the latest attempt ended

callVars == <<op, pc, attempt, lastErr, result, ctxDone, sent, latest>>

Op      == {"transcription", "analysis"}
Control == {"loop", "wait", "build", "send", "decode", "done"}
Error   == {"none", "network", "read", "api"}
Result  == {"none", "value", "build", "network", "read", "api",
            "cancelled", "undecodable"}
Ending  == {"none", "network", "read", "2xx", "transient", "permanent"}

Init ==
  /\ op \in Op
  /\ pc      = "loop"
  /\ attempt = 0
  /\ lastErr = "none"
  /\ result  = "none"
  /\ ctxDone \in BOOLEAN
  /\ sent    = 0
  /\ latest  = "none"

-----------------------------------------------------------------------------
\* Mutant: the cap is forgotten.
BackoffUncapped(n) == 200 * 2^(n - 1)

\* defaultBackoff in milliseconds.  200ms is 390625 * 2^9 nanoseconds, shifted
\* by attempt - 1 in an int64: from the 37th attempt on the shifted value wraps
\* to a negative one (-1 here), to more than the cap, or to zero.
Backoff(n) ==
  LET shift == n - 1
  IN  IF shift < 5 THEN 200 * 2^shift
      ELSE IF shift < 36 THEN 5000
      ELSE IF shift > 54 THEN 0
      ELSE IF (390625 \div 2^(54 - shift)) % 2 = 1 THEN -1 ELSE 5000

Goes(from, to) == pc = from /\ pc' = to

Returns(from, r) == Goes(from, "done") /\ result' = r

\* The head of the loop: a retry waits first.
Enter ==
  /\ attempt <= MaxRetries
  /\ Goes("loop", IF attempt = 0 THEN "build" ELSE "wait")
  /\ UNCHANGED <<op, attempt, lastErr, result, ctxDone, sent, latest>>

\* After the loop: (nil, lastErr), and the ports take a nil error for a body.
Exhausted ==
  /\ attempt > MaxRetries
  /\ IF lastErr = "none"
     THEN Goes("loop", "decode") /\ UNCHANGED result
     ELSE Returns("loop", lastErr)
  /\ UNCHANGED <<op, attempt, lastErr, ctxDone, sent, latest>>

\* wait: select takes either case when the timer has fired and the context is
\* done; without a pause only the context is looked at.
WaitElapses ==
  /\ Goes("wait", "build")
  /\ Backoff(attempt) > 0 \/ ~ctxDone
  /\ UNCHANGED <<op, attempt, lastErr, result, ctxDone, sent, latest>>

\* Mutant: a cancelled wait is one more error to continue after.
WaitCancelledContinues ==
  /\ ctxDone
  /\ Goes("wait", "loop")
  /\ UNCHANGED <<op, attempt, lastErr, result, ctxDone, sent, latest>>

WaitCancelled ==
  /\ ctxDone
  /\ Returns("wait", "cancelled")
  /\ UNCHANGED <<op, attempt, lastErr, ctxDone, sent, latest>>

\* A fresh request per attempt; the transcriber opens the audio again.
Build ==
  /\ Goes("build", "send")
  /\ UNCHANGED <<op, attempt, lastErr, result, ctxDone, sent, latest>>

BuildFails ==
  /\ Returns("build", "build")
  /\ UNCHANGED <<op, attempt, lastErr, ctxDone, sent, latest>>

-----------------------------------------------------------------------------
Ends(how) == latest' = how /\ sent' = sent + 1

Continues(err) ==
  /\ Goes("send", "loop")
  /\ lastErr' = err
  /\ attempt' = attempt + 1
  /\ UNCHANGED <<op, result, ctxDone>>

\* The request cannot be sent, times out, or its context is done.
NetworkError == Ends("network") /\ Continues("network")

\* Mutant: the error of an earlier attempt is kept.
ReadErrorStale ==
  /\ ~ctxDone
  /\ Ends("read")
  /\ Continues(IF lastErr = "none" THEN "read" ELSE lastErr)

ReadError == ~ctxDone /\ Ends("read") /\ Continues("read")

Succeeds ==
  /\ ~ctxDone
  /\ Ends("2xx")
  /\ Goes("send", "decode")
  /\ UNCHANGED <<op, attempt, lastErr, result, ctxDone>>

\* 429 and 5xx: retried while attempts are left.
TransientError ==
  /\ ~ctxDone
  /\ Ends("transient")
  /\ IF attempt < MaxRetries
     THEN Continues("api")
     ELSE /\ Returns("send", "api")
          /\ UNCHANGED <<op, attempt, lastErr, ctxDone>>

\* Mutant: every error status is retried.
PermanentErrorRetried ==
  /\ ~ctxDone
  /\ Ends("permanent")
  /\ Continues("api")

\* Any other status ends the call.
PermanentError ==
  /\ ~ctxDone
  /\ Ends("permanent")
  /\ Returns("send", "api")
  /\ UNCHANGED <<op, attempt, lastErr, ctxDone>>

-----------------------------------------------------------------------------
\* Transcribe: valid JSON with a text that is not blank.  Analyze: valid JSON
\* with a choice whose content is valid JSON.  No body decodes to neither.
Decodes(port) ==
  /\ op = port
  /\ latest = "2xx"
  /\ Returns("decode", "value")
  /\ UNCHANGED <<op, attempt, lastErr, ctxDone, sent, latest>>

Undecodable(port) ==
  /\ op = port
  /\ Returns("decode", "undecodable")
  /\ UNCHANGED <<op, attempt, lastErr, ctxDone, sent, latest>>

Transcribe == Decodes("transcription") \/ Undecodable("transcription")
Analyze    == Decodes("analysis") \/ Undecodable("analysis")

ContextDone ==
  /\ ~ctxDone
  /\ ctxDone' = TRUE
  /\ UNCHANGED <<op, pc, attempt, lastErr, result, sent, latest>>

Terminated == pc = "done" /\ ctxDone /\ UNCHANGED callVars

Step ==
  \/ Enter \/ Exhausted \/ WaitElapses \/ WaitCancelled \/ Build \/ BuildFails
  \/ NetworkError \/ ReadError \/ Succeeds \/ TransientError \/ PermanentError
  \/ Transcribe \/ Analyze

Next == Step \/ ContextDone \/ Terminated

Spec == Init /\ [][Next]_callVars

\* The caller's context has a deadline (PIPELINE_PROCESSING_TIMEOUT), and a
\* request made under it returns once it is done.  The client's own timeout is
\* not relied on: OPENAI_REQUEST_TIMEOUT may be 0, which is none.
FairSpec == Spec /\ WF_callVars(ContextDone) /\ WF_callVars(ctxDone /\ Step)

-----------------------------------------------------------------------------
\* Types.
TypeOK ==
  /\ op \in Op
  /\ pc \in Control
  /\ attempt \in Nat
  /\ lastErr \in Error
  /\ result \in Result
  /\ ctxDone \in BOOLEAN
  /\ latest \in Ending
  /\ sent \in Nat

\* The port reports the latest attempt, not an earlier one: a value only from
\* a 2xx answer, an error only of the kind that ended the last attempt.
ReportsLatestAttempt ==
  /\ result = "value" => latest = "2xx"
  /\ result = "network" => latest = "network"
  /\ result = "read" => latest = "read"
  /\ result = "api" => latest \in {"transient", "permanent"}

\* The retry policy: an error other than "cancelled" is given up on only when
\* it is permanent or the attempts are used up, and a permanent error, or an
\* answer, is the last request.  The provider is never sent more than one
\* request and MaxRetries retries.
RetriesOnlyTransient ==
  /\ sent <= IF MaxRetries < 0 THEN 0 ELSE MaxRetries + 1
  /\ result \in {"network", "read"} \/ (result = "api" /\ latest = "transient")
       => sent = MaxRetries + 1
  /\ latest \in {"2xx", "permanent"} => pc \in {"decode", "done"}

\* A pause is never longer than the cap.  Up to the 36th attempt it is never
\* shorter than the first one, nor than the one before it; from then on the
\* shift wraps.
PausesGrow ==
  pc = "wait" =>
    /\ attempt \in 1..MaxRetries
    /\ Backoff(attempt) <= 5000
    /\ attempt <= 36 =>
         /\ Backoff(attempt) >= 200
         /\ attempt > 1 => Backoff(attempt) >= Backoff(attempt - 1)

\* Every call comes to an end, whatever the provider does.
CallReturns == <>(pc = "done")

-----------------------------------------------------------------------------
\* What do's comment says: it "returns the response body for a 2xx response, or
\* a descriptive error".  With a negative MaxRetries it returns neither.
BodyOrError == pc = "decode" => latest = "2xx"
=============================================================================
