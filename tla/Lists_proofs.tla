---------------------------- MODULE Lists_proofs ----------------------------
(***************************************************************************)
(* What Only returns, for any list.  The induction over the list is the    *)
(* least-number principle: a theorem of the library says it of sets, which *)
(* the provers can use, where NatInduction says it of operators.           *)
(***************************************************************************)
EXTENDS Lists, WellFoundedInduction, TLAPS

\* A function on the first n numbers is a list of its values.
LEMMA ListFrom ==
  ASSUME NEW A, NEW n \in Nat, NEW f \in [1..n -> A]
  PROVE  f \in Seq(A)
OBVIOUS

\* The elements of a list.
LEMMA ListHas ==
  ASSUME NEW A, NEW seq \in Seq(A)
  PROVE  \A i \in DOMAIN seq : seq[i] \in A
OBVIOUS

\* A list without elements is the empty one.
LEMMA EmptyList ==
  ASSUME NEW A, NEW seq \in Seq(A)
  PROVE  seq = <<>> <=> {seq[i] : i \in DOMAIN seq} = {}
<1>1. DOMAIN seq = 1..Len(seq) /\ Len(seq) \in Nat
  OBVIOUS
<1>2. CASE Len(seq) = 0
  <2>1. seq = <<>> /\ DOMAIN seq = {}
    BY <1>1, <1>2
  <2>2. QED
    BY <2>1
<1>3. CASE Len(seq) # 0
  <2>1. 1 \in DOMAIN seq /\ seq # <<>>
    BY <1>1, <1>3
  <2>2. QED
    BY <2>1
<1>4. QED
  BY <1>2, <1>3

\* A list of the elements of a set is a list of those of a larger one.
LEMMA ListOfMore ==
  ASSUME NEW A, NEW B, A \subseteq B, NEW seq \in Seq(A)
  PROVE  seq \in Seq(B)
OBVIOUS

\* A set of numbers that is not empty has a least one.
LEMMA LeastNumber ==
  ASSUME NEW T \in SUBSET Nat, T # {}
  PROVE  \E m \in T : \A n \in T : m <= n
<1>1. IsWellFoundedOn(OpToRel(<, Nat), Nat)
  BY NatLessThanWellFounded
<1>2. PICK m \in T : \A n \in T : <<n, m>> \notin OpToRel(<, Nat)
  BY <1>1, WFMin
<1>3. ASSUME NEW n \in T PROVE m <= n
  <2>1. n \in Nat /\ m \in Nat /\ <<n, m>> \in Nat \X Nat
    OBVIOUS
  <2>2. ~(n < m)
    BY <1>2, <2>1 DEF OpToRel
  <2>3. QED
    BY <2>1, <2>2
<1>4. QED
  BY <1>3

\* Induction over the numbers in a set.
LEMMA InductionOverSet ==
  ASSUME NEW S \in SUBSET Nat, 0 \in S, \A n \in S : n + 1 \in S
  PROVE  S = Nat
<1>1. SUFFICES ASSUME Nat \ S # {} PROVE FALSE
  OBVIOUS
<1>2. PICK m \in Nat \ S : \A n \in Nat \ S : m <= n
  BY <1>1, LeastNumber
<1>3. m # 0 /\ m - 1 \in Nat /\ m - 1 < m
  BY <1>2
<1>4. m - 1 \in S
  BY <1>2, <1>3
<1>5. (m - 1) + 1 \in S
  BY <1>4
<1>6. QED
  BY <1>2, <1>3, <1>5

-----------------------------------------------------------------------------
\* g is what n rounds of the loop keep.
Loops(g, n, seq, S) ==
  g = [i \in 0..n |->
         IF i = 0 THEN <<>>
         ELSE IF seq[i] \in S THEN Append(g[i - 1], seq[i]) ELSE g[i - 1]]

\* The loop does run: for any number of rounds there is such a function.
LEMMA LoopRuns ==
  ASSUME NEW seq, NEW S
  PROVE  \A n \in Nat : \E g : Loops(g, n, seq, S)
<1> DEFINE Runs == {n \in Nat : \E g : Loops(g, n, seq, S)}
<1>1. 0 \in Runs
  <2> DEFINE g == [i \in 0..0 |-> <<>>]
  <2>1. Loops(g, 0, seq, S)
    BY DEF Loops
  <2>2. QED
    BY <2>1
<1>2. ASSUME NEW n \in Runs PROVE n + 1 \in Runs
  <2>1. PICK g : Loops(g, n, seq, S)
    OBVIOUS
  <2> DEFINE last == IF seq[n + 1] \in S THEN Append(g[n], seq[n + 1]) ELSE g[n]
             h == [i \in 0..(n + 1) |-> IF i = n + 1 THEN last ELSE g[i]]
  <2>2. \A i \in 0..(n + 1) :
          h[i] = IF i = 0 THEN <<>>
                 ELSE IF seq[i] \in S THEN Append(h[i - 1], seq[i]) ELSE h[i - 1]
    <3> SUFFICES ASSUME NEW i \in 0..(n + 1)
                 PROVE  h[i] = IF i = 0 THEN <<>>
                               ELSE IF seq[i] \in S THEN Append(h[i - 1], seq[i])
                                                    ELSE h[i - 1]
      OBVIOUS
    <3>1. CASE i = 0
      BY <2>1, <3>1 DEF Loops
    <3>2. CASE i = n + 1
      <4>1. n \in Nat /\ h[n] = g[n] /\ i - 1 = n /\ i # 0
        BY <3>2
      <4>2. h[i] = last
        BY <3>2
      <4>3. QED
        BY <3>2, <4>1, <4>2
    <3>3. CASE i \in 1..n
      <4>1. i \in 0..n /\ i - 1 \in 0..n /\ i # n + 1 /\ i - 1 # n + 1
        BY <3>3
      <4>2. h[i] = g[i] /\ h[i - 1] = g[i - 1]
        BY <4>1
      <4>3. QED
        BY <2>1, <3>3, <4>1, <4>2 DEF Loops
    <3>4. QED
      BY <3>1, <3>2, <3>3
  <2>3. Loops(h, n + 1, seq, S)
    BY <2>2 DEF Loops
  <2>4. QED
    BY <2>3
<1> HIDE DEF Runs
<1>3. Runs = Nat
  BY <1>1, <1>2, InductionOverSet DEF Runs
<1>4. QED
  BY <1>3 DEF Runs

\* The rounds of the loop, as its definition means them.
LEMMA KeptRounds ==
  ASSUME NEW seq, NEW S, Len(seq) \in Nat
  PROVE  Loops(Kept(seq, S), Len(seq), seq, S)
<1>1. \E g : Loops(g, Len(seq), seq, S)
  BY LoopRuns
<1>2. QED
  BY <1>1 DEF Kept, Loops

\* What is kept is a list of elements of seq that are in S.
LEMMA OnlyKeeps ==
  ASSUME NEW A, NEW S, NEW seq \in Seq(A)
  PROVE  Only(seq, S) \in Seq(A \cap S)
<1> DEFINE n == Len(seq)
           kept == Kept(seq, S)
           Good == {i \in Nat : i <= n => kept[i] \in Seq(A \cap S)}
<1>0. n \in Nat
  OBVIOUS
<1>1. Loops(kept, n, seq, S)
  BY <1>0, KeptRounds
<1> HIDE DEF kept
<1>2. 0 \in Good
  <2>1. kept[0] = <<>>
    BY <1>0, <1>1 DEF Loops
  <2>2. <<>> \in Seq(A \cap S)
    OBVIOUS
  <2>3. QED
    BY <2>1, <2>2
<1>3. ASSUME NEW i \in Good PROVE i + 1 \in Good
  <2> SUFFICES ASSUME i + 1 <= n PROVE kept[i + 1] \in Seq(A \cap S)
    OBVIOUS
  <2>1. kept[i] \in Seq(A \cap S) /\ i + 1 \in 0..n /\ i + 1 # 0 /\ (i + 1) - 1 = i
    BY <1>0
  <2>2. kept[i + 1] = IF seq[i + 1] \in S THEN Append(kept[i], seq[i + 1]) ELSE kept[i]
    BY <1>1, <2>1 DEF Loops
  <2>3. seq[i + 1] \in A
    BY <1>0, <2>1
  <2>4. QED
    BY <2>1, <2>2, <2>3
<1> HIDE DEF Good
<1>4. Good = Nat
  BY <1>2, <1>3, InductionOverSet DEF Good
<1>5. QED
  BY <1>0, <1>4 DEF Good, Only, kept

\* Nothing in S is lost on the way.
LEMMA OnlyLosesNothing ==
  ASSUME NEW A, NEW S, NEW seq \in Seq(A), NEW k \in DOMAIN seq, seq[k] \in S
  PROVE  \E i \in DOMAIN Only(seq, S) : Only(seq, S)[i] = seq[k]
<1> DEFINE n == Len(seq)
           kept == Kept(seq, S)
           Has(i) == kept[i] \in Seq(A) /\ \E m \in DOMAIN kept[i] : kept[i][m] = seq[k]
           Good == {i \in Nat : i <= n =>
                      kept[i] \in Seq(A) /\ (k <= i => Has(i))}
<1>0. n \in Nat /\ k \in 1..n
  OBVIOUS
<1>1. Loops(kept, n, seq, S)
  BY <1>0, KeptRounds
<1> HIDE DEF kept
<1>2. 0 \in Good
  <2>1. kept[0] = <<>>
    BY <1>0, <1>1 DEF Loops
  <2>2. <<>> \in Seq(A)
    OBVIOUS
  <2>3. ~(k <= 0)
    BY <1>0
  <2> HIDE DEF Has
  <2>4. QED
    BY <2>1, <2>2, <2>3
<1>3. ASSUME NEW i \in Good PROVE i + 1 \in Good
  <2> SUFFICES ASSUME i + 1 <= n
               PROVE  kept[i + 1] \in Seq(A) /\ (k <= i + 1 => Has(i + 1))
    OBVIOUS
  <2>1. /\ kept[i] \in Seq(A) /\ (k <= i => Has(i))
        /\ i + 1 \in 0..n /\ i + 1 # 0 /\ (i + 1) - 1 = i
    BY <1>0
  <2>2. kept[i + 1] = IF seq[i + 1] \in S THEN Append(kept[i], seq[i + 1]) ELSE kept[i]
    BY <1>1, <2>1 DEF Loops
  <2>3. seq[i + 1] \in A
    BY <1>0, <2>1
  <2>4. CASE seq[i + 1] \notin S
    <3>1. kept[i + 1] = kept[i] /\ i + 1 # k
      BY <2>2, <2>4
    <3>2. k <= i + 1 => k <= i
      BY <1>0, <3>1
    <3>3. QED
      BY <2>1, <3>1, <3>2
  <2>5. CASE seq[i + 1] \in S
    <3>1. /\ kept[i + 1] = Append(kept[i], seq[i + 1])
          /\ kept[i + 1] \in Seq(A)
          /\ Len(kept[i + 1]) = Len(kept[i]) + 1
          /\ kept[i + 1][Len(kept[i]) + 1] = seq[i + 1]
          /\ \A m \in 1..Len(kept[i]) : kept[i + 1][m] = kept[i][m]
      <4>1. kept[i + 1] = Append(kept[i], seq[i + 1])
        BY <2>2, <2>5
      <4>2. kept[i] \in Seq(A)
        BY <2>1
      <4>3. QED
        BY <2>3, <4>1, <4>2
    <3>2. DOMAIN kept[i] = 1..Len(kept[i]) /\ DOMAIN kept[i + 1] = 1..(Len(kept[i]) + 1)
      BY <2>1, <3>1
    <3>3. Len(kept[i]) \in Nat
      BY <2>1
    <3>4. CASE k = i + 1
      <4>1. Len(kept[i]) + 1 \in DOMAIN kept[i + 1]
        BY <3>2, <3>3
      <4>2. Has(i + 1)
        BY <3>1, <3>4, <4>1
      <4> HIDE DEF Has
      <4>3. QED
        BY <3>1, <4>2
    <3>5. CASE k # i + 1
      <4>1. ASSUME k <= i + 1 PROVE Has(i + 1)
        <5>1. k <= i
          BY <1>0, <3>5, <4>1
        <5>2. PICK m \in DOMAIN kept[i] : kept[i][m] = seq[k]
          BY <2>1, <5>1
        <5>3. m \in DOMAIN kept[i + 1] /\ kept[i + 1][m] = seq[k]
          BY <3>1, <3>2, <3>3, <5>2
        <5>4. QED
          BY <3>1, <5>3
      <4>2. QED
        BY <3>1, <4>1
    <3>6. QED
      BY <3>4, <3>5
  <2>6. QED
    BY <2>4, <2>5
<1> HIDE DEF Good
<1>4. Good = Nat
  BY <1>2, <1>3, InductionOverSet DEF Good
<1>5. QED
  BY <1>0, <1>4 DEF Good, Only, kept

\* Only is a filter: what it returns has the elements of the list that are in S,
\* all of them and no other.
THEOREM OnlyFilters ==
  ASSUME NEW A, NEW S, NEW seq \in Seq(A)
  PROVE  {Only(seq, S)[i] : i \in DOMAIN Only(seq, S)} = {seq[k] : k \in DOMAIN seq} \cap S
<1> DEFINE R == {seq[k] : k \in DOMAIN seq}
           out == Only(seq, S)
<1>1. out \in Seq(R \cap S)
  <2>1. seq \in Seq(R)
    BY DOMAIN seq = 1..Len(seq)
  <2>2. QED
    BY <2>1, OnlyKeeps
<1>2. ASSUME NEW i \in DOMAIN out PROVE out[i] \in R \cap S
  BY <1>1
<1>3. ASSUME NEW k \in DOMAIN seq, seq[k] \in S PROVE \E i \in DOMAIN out : out[i] = seq[k]
  BY <1>3, OnlyLosesNothing
<1> HIDE DEF out
<1>4. QED
  BY <1>2, <1>3 DEF out
=============================================================================
