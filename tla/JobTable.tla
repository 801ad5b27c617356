------------------------------ MODULE JobTable ------------------------------
(***************************************************************************)
(* What domain.JobStore promises its callers: a table of values.  A caller *)
(* works on a record of its own, and no matter what it does to that record *)
(* the table only changes by Create and Update.                            *)
(***************************************************************************)
CONSTANTS Job, Caller, Val, Nil

VARIABLES
  table,  \* the stored records, Nil for a missing key
  own     \* the record each caller works on, Nil for none

tableVars == <<table, own>>

\* A record, its analysis, and the lists of the analysis; Nil where missing.
List     == Val \cup {Nil}
Analysis == [val : Val, list : List] \cup {Nil}
Record   == [val : Val, result : Analysis]

Init ==
  /\ table = [j \in Job |-> Nil]
  /\ own   = [c \in Caller |-> Nil]

\* NewJob, Start, Complete, Fail, or the return of an error instead of a job.
Works(c) ==
  /\ \E rec \in Record \cup {Nil} : own' = [own EXCEPT ![c] = rec]
  /\ UNCHANGED table

Create(c, j) ==
  /\ own[c] # Nil
  /\ table[j] = Nil
  /\ table' = [table EXCEPT ![j] = own[c]]
  /\ UNCHANGED own

Get(c, j) ==
  /\ table[j] # Nil
  /\ own' = [own EXCEPT ![c] = table[j]]
  /\ UNCHANGED table

Update(c, j) ==
  /\ own[c] # Nil
  /\ table[j] # Nil
  /\ table' = [table EXCEPT ![j] = own[c]]
  /\ UNCHANGED own

Next ==
  \E c \in Caller :
    Works(c) \/ \E j \in Job : Create(c, j) \/ Get(c, j) \/ Update(c, j)

Spec == Init /\ [][Next]_tableVars
=============================================================================
