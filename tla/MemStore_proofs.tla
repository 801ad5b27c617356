-------------------------- MODULE MemStore_proofs ---------------------------
(***************************************************************************)
(* For any number of jobs, callers and addresses: the store's records      *)
(* share no memory with anything else, and the store implements JobTable.  *)
(***************************************************************************)
EXTENDS MemStore, TLAPS

Inv == TypeOK /\ Detached

\* A record s untouched by a step: its memory is where it was.
Stays(s) ==
  /\ ResultOf(s)' = ResultOf(s)
  /\ ListOf(s)' = ListOf(s)
  /\ ValueOf(s)' = ValueOf(s)

\* The record a is new, and owns all its memory.
Brandnew(a) ==
  /\ a \in Addr
  /\ a \notin Roots
  /\ ResultOf(a)' \in {Nil, a}
  /\ ListOf(a)' \in {Nil, a}
  /\ ResultOf(a)' = a => \A s \in Roots : ResultOf(s) # a
  /\ ListOf(a)' = a => \A s \in Roots : ListOf(s) # a

\* What cloneJob does: the memory stays typed, every record within reach is left
\* alone, and the new one owns its memory and has the value of the old.
LEMMA CloneCopies ==
  ASSUME TypeOK, NEW r \in Roots, r # Nil, NEW a \in Addr, Clone(r, a)
  PROVE  /\ jobs' \in [Addr -> [val : Val, result : Ref]]
         /\ results' \in [Addr -> [val : Val, list : Ref]]
         /\ lists' \in [Addr -> Val]
         /\ \A s \in Roots : Stays(s)
         /\ Brandnew(a)
         /\ ValueOf(a)' = ValueOf(r)
<1> USE NilAssumption DEF Ref
<1>1. Roots \subseteq Ref
  BY DEF TypeOK, Roots
<1>2. /\ jobs' \in [Addr -> [val : Val, result : Ref]]
      /\ results' \in [Addr -> [val : Val, list : Ref]]
      /\ lists' \in [Addr -> Val]
  BY <1>1 DEF TypeOK, Clone, ResultOf, ListOf
<1>3. \A s \in Roots : Stays(s)
  BY <1>1, ZenonT(40) DEF TypeOK, Clone, Stays, ResultOf, ListOf, ValueOf,
              FreshJob, FreshResult, FreshList
<1>4. Brandnew(a)
  BY <1>1 DEF TypeOK, Clone, Brandnew, ResultOf, ListOf,
              FreshJob, FreshResult, FreshList
<1>5. ValueOf(a)' = ValueOf(r)
  BY <1>1 DEF TypeOK, Clone, ResultOf, ListOf, ValueOf
<1>6. QED
  BY <1>2, <1>3, <1>4, <1>5

\* The records x and y share no memory after the step.
ApartNext(x, y) ==
  /\ x # y \/ x = Nil
  /\ ResultOf(x)' # ResultOf(y)' \/ ResultOf(x)' = Nil
  /\ ListOf(x)' # ListOf(y)' \/ ListOf(x)' = Nil

\* Records that were apart and stay where they are remain apart; a new record
\* is apart from all of them.
LEMMA NewRecordApart ==
  ASSUME \A s \in Roots : Stays(s), NEW a, Brandnew(a)
  PROVE  /\ \A x, y \in Roots : Apart(x, y) => ApartNext(x, y)
         /\ \A x \in Roots : ApartNext(x, a) /\ ApartNext(a, x)
<1>1. \A x, y \in Roots : Apart(x, y) => ApartNext(x, y)
  BY DEF Stays, Apart, ApartNext
<1>2. \A x \in Roots : ApartNext(x, a) /\ ApartNext(a, x)
  BY DEF Stays, Brandnew, ApartNext
<1>3. QED
  BY <1>1, <1>2

\* To be detached after a step is to have its pointers apart.
LEMMA DetachedNext ==
  ASSUME \A i \in Job, d \in Caller : \A x, y :
           x = index'[i] /\ y = held'[d] => ApartNext(x, y),
         \A i, k \in Job : \A x, y :
           i # k /\ x = index'[i] /\ y = index'[k] => ApartNext(x, y),
         \A d, e \in Caller : \A x, y :
           d # e /\ x = held'[d] /\ y = held'[e] => ApartNext(x, y)
  PROVE  Detached'
BY DEF Detached, Apart, ApartNext, ResultOf, ListOf

\* A step of the store itself: the new record goes into the map or to a caller.
LEMMA CallKeepsInv ==
  ASSUME Inv, NEW c \in Caller, NEW j \in Job, Calls(c, j)
  PROVE  Inv'
<1> USE NilAssumption DEF Ref, Inv
<1>1. CASE Create(c, j) \/ Update(c, j)
  <2>1. PICK a \in Addr : Clone(held[c], a) /\ Stores(j, a) /\ held[c] # Nil
    BY <1>1 DEF Create, Update
  <2>2. held[c] \in Roots
    BY DEF Roots
  <2>3. /\ TypeOK'
        /\ \A s \in Roots : Stays(s)
        /\ Brandnew(a)
    BY <2>1, <2>2, CloneCopies DEF TypeOK, Stores
  <2>4. Detached'
    <3>1. /\ \A i \in Job : index'[i] = IF i = j THEN a ELSE index[i]
          /\ \A d \in Caller : held'[d] = held[d]
          /\ \A i \in Job : index[i] \in Roots
          /\ \A d \in Caller : held[d] \in Roots
      BY <2>1 DEF Stores, TypeOK, Roots
    <3>2. QED
      BY <2>3, <3>1, NewRecordApart, DetachedNext DEF Detached
  <2>5. QED
    BY <2>3, <2>4
<1>2. CASE Get(c, j)
  <2>1. PICK a \in Addr : /\ Clone(index[j], a)
                          /\ index[j] # Nil
                          /\ held' = [held EXCEPT ![c] = a]
                          /\ index' = index
    BY <1>2 DEF Get
  <2>2. index[j] \in Roots
    BY DEF Roots
  <2>3. /\ TypeOK'
        /\ \A s \in Roots : Stays(s)
        /\ Brandnew(a)
    BY <2>1, <2>2, CloneCopies DEF TypeOK
  <2>4. Detached'
    <3>1. /\ \A i \in Job : index'[i] = index[i]
          /\ \A d \in Caller : held'[d] = IF d = c THEN a ELSE held[d]
          /\ \A i \in Job : index[i] \in Roots
          /\ \A d \in Caller : held[d] \in Roots
      BY <2>1 DEF TypeOK, Roots
    <3>2. QED
      BY <2>3, <3>1, NewRecordApart, DetachedNext DEF Detached
  <2>5. QED
    BY <2>3, <2>4
<1>3. QED
  BY <1>1, <1>2 DEF Calls

\* A step that leaves every pointer, and every record but the one r, where it is,
\* and gives r at most new memory, leaves the records apart.
LEMMA OneReshaped ==
  ASSUME Detached, UNCHANGED <<index, held>>, NEW c \in Caller, NEW r, r = held[c], r # Nil,
         \A s \in Roots : s # r => ResultOf(s)' = ResultOf(s) /\ ListOf(s)' = ListOf(s),
         ResultOf(r)' \in {ResultOf(r)} \cup FreshResult,
         ListOf(r)' \in {ListOf(r), Nil} \cup FreshList
  PROVE  Detached'
<1>1. ASSUME NEW x \in Roots, NEW y \in Roots, Apart(x, y), x # y \/ x # r
      PROVE  ApartNext(x, y)
  <2>1. ResultOf(x) # ResultOf(y) \/ ResultOf(x) = Nil
    BY <1>1 DEF Apart
  <2>2. ListOf(x) # ListOf(y) \/ ListOf(x) = Nil
    BY <1>1 DEF Apart
  <2>3. x # y \/ x = Nil
    BY <1>1 DEF Apart
  <2>4. /\ \A s \in Roots : ResultOf(s) \notin FreshResult
        /\ \A s \in Roots : ListOf(s) \notin FreshList
    BY DEF FreshResult, FreshList
  <2>5. CASE x # r /\ y # r
    BY <2>1, <2>2, <2>3, <2>5 DEF ApartNext
  <2>6. CASE x = r /\ y # r
    BY <2>1, <2>2, <2>3, <2>4, <2>6 DEF ApartNext
  <2>7. CASE x # r /\ y = r
    BY <2>1, <2>2, <2>3, <2>4, <2>7 DEF ApartNext
  <2>8. QED
    BY <1>1, <2>5, <2>6, <2>7
<1>2. /\ \A i \in Job : index[i] \in Roots /\ index'[i] = index[i]
      /\ \A d \in Caller : held[d] \in Roots /\ held'[d] = held[d]
  BY DEF Roots
<1>3. QED
  BY <1>1, <1>2, DetachedNext DEF Detached, Apart

\* A step of a caller: it moves its own pointer or writes through it.
LEMMA EditKeepsInv ==
  ASSUME Inv, NEW c \in Caller, Edits(c)
  PROVE  Inv'
<1> USE NilAssumption DEF Ref, Inv
<1>1. CASE GetFails(c)
  BY <1>1 DEF GetFails, TypeOK, Detached, Apart, ResultOf, ListOf
<1>2. CASE NewJob(c)
  <2>1. PICK a \in FreshJob, v \in Val :
          /\ jobs' = [jobs EXCEPT ![a] = [val |-> v, result |-> Nil]]
          /\ held' = [held EXCEPT ![c] = a]
          /\ UNCHANGED <<results, lists, index>>
    BY <1>2 DEF NewJob
  <2>2. TypeOK'
    BY <2>1 DEF TypeOK, FreshJob
  <2>3. /\ \A s \in Roots : Stays(s)
        /\ Brandnew(a)
    <3>1. Roots \subseteq Ref
      BY DEF TypeOK, Roots
    <3>2. \A s \in Roots : Stays(s)
      BY <2>1, <3>1 DEF TypeOK, FreshJob, Stays, ResultOf, ListOf, ValueOf
    <3>3. Brandnew(a)
      BY <2>1 DEF TypeOK, FreshJob, Brandnew, ResultOf, ListOf
    <3>4. QED
      BY <3>2, <3>3
  <2>4. /\ \A i \in Job : index'[i] = index[i]
        /\ \A d \in Caller : held'[d] = IF d = c THEN a ELSE held[d]
        /\ \A i \in Job : index[i] \in Roots
        /\ \A d \in Caller : held[d] \in Roots
    BY <2>1 DEF TypeOK, Roots
  <2>5. Detached'
    <3>1. \A i \in Job, d \in Caller : \A x, y :
            x = index'[i] /\ y = held'[d] => ApartNext(x, y)
      BY <2>3, <2>4, NewRecordApart DEF Detached
    <3>2. \A i, k \in Job : \A x, y :
            i # k /\ x = index'[i] /\ y = index'[k] => ApartNext(x, y)
      BY <2>3, <2>4, NewRecordApart DEF Detached
    <3>3. \A d, e \in Caller : \A x, y :
            d # e /\ x = held'[d] /\ y = held'[e] => ApartNext(x, y)
      BY <2>3, <2>4, NewRecordApart DEF Detached
    <3>4. QED
      BY <3>1, <3>2, <3>3, DetachedNext
  <2>6. QED
    BY <2>2, <2>5
<1>3. ASSUME Complete(c) \/ WriteJob(c) \/ WriteResult(c) \/ WriteList(c)
      PROVE  Inv'
  <2> DEFINE r == held[c]
  <2>1. /\ UNCHANGED <<index, held>>
        /\ r # Nil /\ r \in Addr
        /\ Roots \subseteq Ref
    BY <1>3 DEF Complete, WriteJob, WriteResult, WriteList, ResultOf, ListOf, TypeOK, Roots
  <2>2. ResultOf(r) \in Ref /\ ListOf(r) \in Ref
    BY <2>1 DEF TypeOK, ResultOf, ListOf
  <2>3. CASE Complete(c)
    <3>1. PICK a \in FreshResult \cap FreshList, v \in Val, lst \in Val \cup {Nil} :
            /\ jobs' = [jobs EXCEPT ![r] = [val |-> v, result |-> a]]
            /\ results' = [results EXCEPT ![a] =
                             [val |-> v, list |-> IF lst = Nil THEN Nil ELSE a]]
            /\ lists' = IF lst = Nil THEN lists ELSE [lists EXCEPT ![a] = lst]
      BY <2>3 DEF Complete
    <3>2. a \in Addr /\ \A s \in Roots : ResultOf(s) # a
      BY <3>1 DEF FreshResult
    <3>3. TypeOK'
      BY <2>1, <3>1, <3>2 DEF TypeOK
    <3>4. ResultOf(r)' = a /\ ListOf(r)' \in {Nil, a}
      BY <2>1, <3>1, <3>2 DEF TypeOK, ResultOf, ListOf
    <3>5. \A s \in Roots : s # r => ResultOf(s)' = ResultOf(s) /\ ListOf(s)' = ListOf(s)
      BY <2>1, <3>1, <3>2 DEF TypeOK, ResultOf, ListOf
    <3>6. Detached'
      BY <2>1, <3>1, <3>4, <3>5, OneReshaped
    <3>7. QED
      BY <3>3, <3>6
  <2>4. CASE WriteJob(c) \/ WriteResult(c) \/ WriteList(c)
    <3>1. TypeOK'
      <4>1. CASE WriteJob(c)
        BY <2>1, <4>1 DEF WriteJob, TypeOK
      <4>2. CASE WriteResult(c)
        <5>1. PICK v \in Val : results' = [results EXCEPT ![ResultOf(r)].val = v]
          BY <4>2 DEF WriteResult
        <5>2. results' \in [Addr -> [val : Val, list : Ref]]
          BY <2>2, <4>2, <5>1 DEF WriteResult, TypeOK
        <5>3. QED
          BY <4>2, <5>2 DEF WriteResult, TypeOK
      <4>3. CASE WriteList(c)
        <5>1. PICK v \in Val : lists' = [lists EXCEPT ![ListOf(r)] = v]
          BY <4>3 DEF WriteList
        <5>2. lists' \in [Addr -> Val]
          BY <2>2, <4>3, <5>1 DEF WriteList, TypeOK
        <5>3. QED
          BY <4>3, <5>2 DEF WriteList, TypeOK
      <4>4. QED
        BY <2>4, <4>1, <4>2, <4>3
    <3>2. \A s \in Roots : ResultOf(s)' = ResultOf(s) /\ ListOf(s)' = ListOf(s)
      <4>1. CASE WriteJob(c)
        BY <2>1, <4>1 DEF WriteJob, TypeOK, ResultOf, ListOf
      <4>2. CASE WriteResult(c)
        BY <2>1, <4>2 DEF WriteResult, TypeOK, ResultOf, ListOf
      <4>3. CASE WriteList(c)
        BY <2>1, <4>3 DEF WriteList, ResultOf, ListOf
      <4>4. QED
        BY <2>4, <4>1, <4>2, <4>3
    <3>3. r \in Roots
      BY DEF Roots
    <3>4. Detached'
      BY <2>1, <3>2, <3>3, OneReshaped
    <3>5. QED
      BY <3>1, <3>4
  <2> HIDE DEF Inv
  <2>5. QED
    BY <1>3, <2>3, <2>4, Zenon
<1> HIDE DEF Inv
<1>4. QED
  BY <1>1, <1>2, <1>3 DEF Edits

\* Types, and Detached: the store's records and the callers' share no memory,
\* because cloneJob allocates whatever it puts on the other side.
THEOREM MemoryDetached == Spec => [](TypeOK /\ Detached)
<1>1. Init => Inv
  BY NilAssumption DEF Init, Inv, TypeOK, Detached, Apart, ResultOf, ListOf, Ref
<1>2. Inv /\ [Next]_memVars => Inv'
  <2> SUFFICES ASSUME Inv, [Next]_memVars PROVE Inv'
    OBVIOUS
  <2>1. CASE Next
    BY <2>1, CallKeepsInv, EditKeepsInv DEF Next
  <2>2. CASE UNCHANGED memVars
    BY <2>2 DEF memVars, Inv, TypeOK, Detached, Apart, ResultOf, ListOf
  <2>3. QED
    BY <2>1, <2>2
<1>3. QED
  BY <1>1, <1>2, PTL DEF Spec, Inv

-----------------------------------------------------------------------------
\* A caller's step leaves the value of every record alone that is apart from
\* its own.
LEMMA EditIsLocal ==
  ASSUME Inv, NEW c \in Caller, Edits(c),
         NEW x \in Roots, Apart(x, held[c])
  PROVE  ValueOf(x)' = ValueOf(x)
<1> USE NilAssumption DEF Ref, Inv, TypeOK, Apart, ResultOf, ListOf, ValueOf
<1>1. x \in Ref /\ held[c] \in Ref
  BY DEF Roots
<1>2. CASE GetFails(c)
  BY <1>1, <1>2 DEF GetFails
<1>3. CASE NewJob(c)
  BY <1>1, <1>3 DEF NewJob, FreshJob
<1>4. CASE Complete(c)
  BY <1>1, <1>4 DEF Complete, FreshResult, FreshList
<1>5. CASE WriteJob(c)
  BY <1>1, <1>5 DEF WriteJob
<1>6. CASE WriteResult(c)
  BY <1>1, <1>6 DEF WriteResult
<1>7. CASE WriteList(c)
  BY <1>1, <1>7 DEF WriteList
<1>8. QED
  BY <1>2, <1>3, <1>4, <1>5, <1>6, <1>7 DEF Edits

\* A pointer leads to a record, unless it is Nil.
LEMMA ValueTyped ==
  ASSUME TypeOK, NEW r \in Ref
  PROVE  /\ ValueOf(r) \in Abstract!Record \cup {Nil}
         /\ ValueOf(r) = Nil <=> r = Nil
BY NilAssumption DEF TypeOK, ValueOf, ResultOf, ListOf, Ref,
                     Abstract!Record, Abstract!Analysis, Abstract!List

\* The state functions of the refinement, entry by entry, after a step.
LEMMA ValuesNext ==
  /\ \A j \in Job : \A x : x = index'[j] => Table'[j] = ValueOf(x)'
  /\ \A c \in Caller : \A x : x = held'[c] => Own'[c] = ValueOf(x)'
BY DEF Table, Own, ValueOf, ResultOf, ListOf

\* Every call and every edit is the abstract one on the values.
LEMMA StepRefines ==
  ASSUME Inv, Inv', [Next]_memVars
  PROVE  [Abstract!Next]_<<Table, Own>>
<1> USE DEF Inv
<1>1. /\ \A j \in Job : Table[j] = ValueOf(index[j]) /\ index[j] \in Roots \cap Ref
      /\ \A c \in Caller : Own[c] = ValueOf(held[c]) /\ held[c] \in Roots \cap Ref
      /\ Table = [j \in Job |-> Table[j]] /\ Table' = [j \in Job |-> Table'[j]]
      /\ Own = [c \in Caller |-> Own[c]] /\ Own' = [c \in Caller |-> Own'[c]]
  BY DEF Table, Own, Roots, TypeOK
<1>2. ASSUME NEW c \in Caller, NEW j \in Job, Create(c, j) \/ Update(c, j)
      PROVE  Abstract!Next
  <2>1. PICK a \in Addr : Clone(held[c], a) /\ Stores(j, a) /\ held[c] # Nil
    BY <1>2 DEF Create, Update
  <2>2. /\ \A s \in Roots : ValueOf(s)' = ValueOf(s)
        /\ ValueOf(a)' = ValueOf(held[c])
    BY <1>1, <2>1, CloneCopies DEF Stays
  <2>3. /\ \A i \in Job : index'[i] = IF i = j THEN a ELSE index[i]
        /\ \A d \in Caller : held'[d] = held[d]
    BY <2>1 DEF Stores, TypeOK
  <2>4. /\ \A i \in Job : Table'[i] = IF i = j THEN Own[c] ELSE Table[i]
        /\ \A d \in Caller : Own'[d] = Own[d]
    BY <1>1, <2>2, <2>3, ValuesNext
  <2>5. Table' = [Table EXCEPT ![j] = Own[c]] /\ Own' = Own
    BY <1>1, <2>4
  <2>6. Own[c] # Nil /\ (index[j] = Nil <=> Table[j] = Nil)
    BY <1>1, <2>1, ValueTyped
  <2>7. Abstract!Create(c, j) \/ Abstract!Update(c, j)
    BY <1>2, <2>5, <2>6 DEF Create, Update, Abstract!Create, Abstract!Update
  <2>8. QED
    BY <2>7 DEF Abstract!Next
<1>3. ASSUME NEW c \in Caller, NEW j \in Job, Get(c, j)
      PROVE  Abstract!Next
  <2>1. PICK a \in Addr : /\ Clone(index[j], a)
                          /\ index[j] # Nil
                          /\ held' = [held EXCEPT ![c] = a]
                          /\ index' = index
    BY <1>3 DEF Get
  <2>2. /\ \A s \in Roots : ValueOf(s)' = ValueOf(s)
        /\ ValueOf(a)' = ValueOf(index[j])
    BY <1>1, <2>1, CloneCopies DEF Stays
  <2>3. /\ \A i \in Job : index'[i] = index[i]
        /\ \A d \in Caller : held'[d] = IF d = c THEN a ELSE held[d]
    BY <2>1 DEF TypeOK
  <2>4. /\ \A i \in Job : Table'[i] = Table[i]
        /\ \A d \in Caller : Own'[d] = IF d = c THEN Table[j] ELSE Own[d]
    BY <1>1, <2>2, <2>3, ValuesNext
  <2>5. Own' = [Own EXCEPT ![c] = Table[j]] /\ Table' = Table
    BY <1>1, <2>4
  <2>6. Abstract!Get(c, j)
    BY <1>1, <2>1, <2>5, ValueTyped DEF Abstract!Get
  <2>7. QED
    BY <2>6 DEF Abstract!Next
<1>4. ASSUME NEW c \in Caller, Edits(c)
      PROVE  Abstract!Next
  <2>1. /\ index' = index
        /\ \A d \in Caller : d # c => held'[d] = held[d]
    BY <1>4 DEF Edits, GetFails, NewJob, Complete, WriteJob, WriteResult,
                WriteList, TypeOK
  <2>2. /\ \A i \in Job : Table'[i] = Table[i]
        /\ \A d \in Caller : d # c => Own'[d] = Own[d]
    BY <1>1, <1>4, <2>1, EditIsLocal, ValuesNext DEF Detached
  <2>3. Own'[c] \in Abstract!Record \cup {Nil}
    <3>1. (\A r \in Ref : ValueOf(r) \in Abstract!Record \cup {Nil})'
      BY NilAssumption DEF TypeOK, ValueOf, ResultOf, ListOf, Ref,
                           Abstract!Record, Abstract!Analysis, Abstract!List
    <3>2. QED
      BY <3>1 DEF Own, TypeOK
  <2>4. Own' = [Own EXCEPT ![c] = Own'[c]] /\ Table' = Table
    BY <1>1, <2>2
  <2>5. Abstract!Works(c)
    BY <2>3, <2>4 DEF Abstract!Works
  <2>6. QED
    BY <2>5 DEF Abstract!Next
<1>5. CASE UNCHANGED memVars
  BY <1>5 DEF memVars, Table, Own, ValueOf, ResultOf, ListOf
<1>6. QED
  BY <1>2, <1>3, <1>4, <1>5 DEF Next, Calls

\* On pointers and cells, the store is the table of values it promises to be.
THEOREM StoreIsTable == Spec => ImplementsTable
<1>1. Init => Abstract!Init
  BY DEF Init, Abstract!Init, Table, Own, ValueOf
<1>2. Inv /\ Inv' /\ [Next]_memVars => [Abstract!Next]_<<Table, Own>>
  BY StepRefines
<1>3. Spec => []Inv
  BY MemoryDetached DEF Inv
<1>4. QED
  BY <1>1, <1>2, <1>3, PTL DEF Spec, ImplementsTable, Abstract!Spec,
                               Abstract!tableVars
=============================================================================
