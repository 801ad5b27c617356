------------------------------- MODULE Lists --------------------------------
(***************************************************************************)
(* The loops of config.go and analyzer.go that go through a slice and      *)
(* append what they keep of it to another: SelectSeq with a set for its    *)
(* test, in a form that can be reasoned about.                             *)
(***************************************************************************)
EXTENDS Naturals, Sequences

\* What such a loop has kept after each of its rounds.
Kept(seq, S) ==
  LET kept[i \in 0..Len(seq)] ==
        IF i = 0 THEN <<>>
        ELSE IF seq[i] \in S THEN Append(kept[i - 1], seq[i]) ELSE kept[i - 1]
  IN kept

\* The elements of seq that are in S, in their order.
Only(seq, S) == Kept(seq, S)[Len(seq)]
=============================================================================
