---------------------------- MODULE JobLifecycle ----------------------------
(***************************************************************************)
(* What the service promises about one recording, whatever the handlers,   *)
(* the pool, the workers and the shutdown do: the life of its job as a     *)
(* poller sees it, the pool's one decision about it, and the note that     *)
(* reaches the destination.                                                *)
(***************************************************************************)
EXTENDS Naturals

CONSTANT Job

VARIABLES
  phase,  \* the status a poller reads, or "absent"
  fate,   \* the pool's decision: "open", then "admitted" or "refused"
  rows    \* notes written

lifeVars == <<phase, fate, rows>>

Init ==
  /\ phase = [j \in Job |-> "absent"]
  /\ fate  = [j \in Job |-> "open"]
  /\ rows  = [j \in Job |-> 0]

Becomes(j, from, to) ==
  /\ phase[j] = from
  /\ phase' = [phase EXCEPT ![j] = to]

Decided(j, decision) ==
  /\ phase[j] = "queued"
  /\ fate[j] = "open"
  /\ fate' = [fate EXCEPT ![j] = decision]
  /\ UNCHANGED <<phase, rows>>

Create(j) ==
  /\ Becomes(j, "absent", "queued")
  /\ UNCHANGED <<fate, rows>>

Admit(j)  == Decided(j, "admitted")
Refuse(j) == Decided(j, "refused")

\* A refused job may be marked failed; it is never processed.
Withdraw(j) ==
  /\ fate[j] = "refused"
  /\ Becomes(j, "queued", "failed")
  /\ UNCHANGED <<fate, rows>>

Start(j) ==
  /\ fate[j] = "admitted"
  /\ Becomes(j, "queued", "processing")
  /\ UNCHANGED <<fate, rows>>

Deliver(j) ==
  /\ phase[j] = "processing"
  /\ rows[j] = 0
  /\ rows' = [rows EXCEPT ![j] = 1]
  /\ UNCHANGED <<phase, fate>>

Complete(j) ==
  /\ rows[j] = 1
  /\ Becomes(j, "processing", "completed")
  /\ UNCHANGED <<fate, rows>>

Fail(j) ==
  /\ Becomes(j, "processing", "failed")
  /\ UNCHANGED <<fate, rows>>

Next ==
  \E j \in Job : \/ Create(j) \/ Admit(j) \/ Refuse(j) \/ Withdraw(j)
                 \/ Start(j) \/ Deliver(j) \/ Complete(j) \/ Fail(j)

Spec == Init /\ [][Next]_lifeVars
-----------------------------------------------------------------------------
\* What the rules amount to: a recording leads to one note at most, and to none
\* unless the pool admitted its job; a job reads completed only with its note
\* written, and is in progress only when admitted; one that the pool refused is
\* never worked on; and no decision is made about a job that cannot be polled.
Promise ==
  \A j \in Job :
    /\ rows[j] \in {0, 1}
    /\ rows[j] = 1 => fate[j] = "admitted"
    /\ phase[j] = "completed" => rows[j] = 1
    /\ phase[j] \in {"processing", "completed"} => fate[j] = "admitted"
    /\ fate[j] = "refused" => phase[j] \in {"queued", "failed"} /\ rows[j] = 0
    /\ phase[j] = "failed" => fate[j] # "open"
    /\ phase[j] = "absent" => fate[j] = "open"
=============================================================================
