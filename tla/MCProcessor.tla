---------------------------- MODULE MCProcessor -----------------------------
(* Processor on a small instance. *)
EXTENDS Processor, TLC

\* Jobs are interchangeable.
Symmetry == Permutations(Job)

Entry(task, owner) == [task |-> task, owner |-> owner]

\* A full answer, one with entries to drop, and an empty one.
MCPayloads ==
  {[title |-> "padded words", keys |-> <<"words", "padded words">>,
    items |-> <<Entry("words", "words")>>],
   [title |-> "words", keys |-> <<"spaces", "words", "">>,
    items |-> <<Entry("spaces", "words"), Entry("words", "")>>],
   [title |-> "", keys |-> <<"">>, items |-> <<>>]}
=============================================================================
