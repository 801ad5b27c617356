----------------------------- MODULE MCService ------------------------------
(* Service on a small instance. *)
EXTENDS Service, TLC

\* Jobs and workers are interchangeable.
Symmetry == Permutations(Job) \cup Permutations(Worker)

\* One request that passes the checks (a body that breaks off is rejected with
\* the same effect as one that does not pass), and one note.
MCUploads ==
  {[bearer |-> "right", key |-> "none", form |-> "ok", size |-> 1, allowed |-> TRUE]}
MCPayloads == {[title |-> "words", keys |-> <<"words">>, items |-> <<>>]}

\* Nothing has failed so far but what a full or closed pool, a deadline or the
\* end of the grace period makes fail.
Calm ==
  /\ gone = {} /\ phase # "dead"
  /\ \A j \in Job : /\ answer[j] \notin {"400", "500"}
                   /\ job[j] # Absent /\ job[j].err # "" => Pool!CtxDone(j)

\* The fair behaviours of a size that liveness can be checked in: uploads are
\* spooled one at a time, and a disconnect, a rejected upload, a disk error, a
\* failing port or a failing listener, each of which only ends something
\* earlier, happens to a lone request.
Tame ==
  /\ Calm \/ Cardinality({j \in Job : req[j] # "none"}) <= 1
  /\ Cardinality({j \in Job : req[j] \in {"validate", "spool", "create"}}) <= 1

TameSpec == Init /\ [][Next /\ Tame']_vars /\ Fairness
=============================================================================
