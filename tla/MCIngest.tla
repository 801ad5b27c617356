---------------------------- MODULE MCIngest -------------------------------
(* Ingest on a small instance: a limit of three bytes, one of them for the  *)
(* form.                                                                    *)
EXTENDS Ingest, TLC

\* Jobs are interchangeable.
Symmetry == Permutations(Job)

Sent(bearer, key, form, size, allowed) ==
  [bearer |-> bearer, key |-> key, form |-> form, size |-> size, allowed |-> allowed]

\* The notes the pipeline may attach.
MCPayloads == {[title |-> "words", keys |-> <<"words">>, items |-> <<>>]}

\* Every pair of tokens, and every form, size and type.
MCUploads ==
  {Sent(t[1], t[2], "ok", 2, TRUE) : t \in Token \X Token}
  \cup {Sent("right", "none", f, n, a) :
          f \in {"ok", "missing", "broken"}, n \in {0, 2, 3, 4}, a \in BOOLEAN}
=============================================================================
