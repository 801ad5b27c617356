------------------------------ MODULE MemStore ------------------------------
(***************************************************************************)
(* The store of internal/adapter/memstore/store.go at the level of memory: *)
(* a job is a cell that points to its analysis, whose slices point to      *)
(* their arrays.  The store's map and its callers hold pointers, and a     *)
(* caller may write to whatever its pointer leads to.                      *)
(*                                                                         *)
(* Every method holds the lock from its look at the map to its return, and *)
(* writes only to cells it has just allocated: a call is one step.  A call *)
(* under a done context, a Create of a known job and an Update of an       *)
(* unknown one change nothing.  KeyPoints and ActionItems are alike, one   *)
(* list stands for both.                                                   *)
(***************************************************************************)
CONSTANTS
  Job, Caller,
  Addr,  \* addresses, in each of the three kinds of memory
  Val,   \* contents of the other fields
  Zero,  \* what memory holds before it is used
  Nil

\* Nil is no address, no contents and no record.
ASSUME NilAssumption ==
  /\ Nil \notin Addr \cup Val
  /\ Nil \notin [val : Val, list : Val \cup {Nil}]
  /\ Nil \notin [val : Val, result : [val : Val, list : Val \cup {Nil}] \cup {Nil}]
  /\ Zero \in Val

VARIABLES
  jobs,     \* Job structs: their fields and the Result pointer
  results,  \* Analysis structs: their fields and the slice
  lists,    \* the arrays under the slices
  index,    \* the store's map
  held      \* the pointer each caller works with

memVars == <<jobs, results, lists, index, held>>

Ref == Addr \cup {Nil}

Init ==
  /\ jobs    = [a \in Addr |-> [val |-> Zero, result |-> Nil]]
  /\ results = [a \in Addr |-> [val |-> Zero, list |-> Nil]]
  /\ lists   = [a \in Addr |-> Zero]
  /\ index = [j \in Job |-> Nil]
  /\ held  = [c \in Caller |-> Nil]

-----------------------------------------------------------------------------
\* What a pointer leads to.
ResultOf(r) == IF r = Nil THEN Nil ELSE jobs[r].result
ListOf(r)   == IF ResultOf(r) = Nil THEN Nil ELSE results[ResultOf(r)].list

Roots == {index[j] : j \in Job} \cup {held[c] : c \in Caller}

\* The allocator returns memory nobody can reach.
FreshJob    == Addr \ Roots
FreshResult == Addr \ {ResultOf(r) : r \in Roots}
FreshList   == Addr \ {ListOf(r) : r \in Roots}

\* Mutant: the clone's analysis shares the arrays of its slices.
CloneShares(r, a) ==
  LET res == ResultOf(r) IN
  /\ a \in FreshJob \cap FreshResult
  /\ jobs' = [jobs EXCEPT ![a] = [val |-> jobs[r].val,
                                  result |-> IF res = Nil THEN Nil ELSE a]]
  /\ results' = IF res = Nil THEN results
                ELSE [results EXCEPT ![a] = results[res]]
  /\ UNCHANGED lists

\* cloneJob: a copy, at the new address a, of all the pointer r leads to.
Clone(r, a) ==
  LET res == ResultOf(r)
      lst == ListOf(r)
  IN
  /\ a \in FreshJob \cap FreshResult \cap FreshList
  /\ jobs' = [jobs EXCEPT ![a] = [val |-> jobs[r].val,
                                  result |-> IF res = Nil THEN Nil ELSE a]]
  /\ results' = IF res = Nil THEN results
                ELSE [results EXCEPT ![a] = [val |-> results[res].val,
                                             list |-> IF lst = Nil THEN Nil ELSE a]]
  /\ lists' = IF lst = Nil THEN lists ELSE [lists EXCEPT ![a] = lists[lst]]

Stores(j, a) == index' = [index EXCEPT ![j] = a] /\ UNCHANGED held

\* Mutant: the caller's own record goes into the map.
CreateKeeps(c, j) ==
  /\ held[c] # Nil
  /\ index[j] = Nil
  /\ Stores(j, held[c])
  /\ UNCHANGED <<jobs, results, lists>>

Create(c, j) ==
  /\ held[c] # Nil
  /\ index[j] = Nil
  /\ \E a \in Addr : Clone(held[c], a) /\ Stores(j, a)

Update(c, j) ==
  /\ held[c] # Nil
  /\ index[j] # Nil
  /\ \E a \in Addr : Clone(held[c], a) /\ Stores(j, a)

Get(c, j) ==
  /\ index[j] # Nil
  /\ \E a \in Addr : Clone(index[j], a) /\ held' = [held EXCEPT ![c] = a]
  /\ UNCHANGED index

\* Get returns no job: a done context, or an unknown id.
GetFails(c) ==
  /\ held' = [held EXCEPT ![c] = Nil]
  /\ UNCHANGED <<jobs, results, lists, index>>

-----------------------------------------------------------------------------
(***************************************************************************)
(* The callers: the submit handler, the processor and the status endpoint, *)
(* which write at most as these actions do.                                *)
(***************************************************************************)
\* domain.NewJob.
NewJob(c) ==
  /\ \E a \in FreshJob, v \in Val :
       /\ jobs' = [jobs EXCEPT ![a] = [val |-> v, result |-> Nil]]
       /\ held' = [held EXCEPT ![c] = a]
  /\ UNCHANGED <<results, lists, index>>

\* job.Start and job.Fail; a caller may do the same to the analysis.
WriteJob(c) ==
  /\ held[c] # Nil
  /\ \E v \in Val : jobs' = [jobs EXCEPT ![held[c]].val = v]
  /\ UNCHANGED <<results, lists, index, held>>

WriteResult(c) ==
  /\ ResultOf(held[c]) # Nil
  /\ \E v \in Val : results' = [results EXCEPT ![ResultOf(held[c])].val = v]
  /\ UNCHANGED <<jobs, lists, index, held>>

WriteList(c) ==
  /\ ListOf(held[c]) # Nil
  /\ \E v \in Val : lists' = [lists EXCEPT ![ListOf(held[c])] = v]
  /\ UNCHANGED <<jobs, results, index, held>>

\* job.Complete: the record points to a new analysis, with lists or without.
Complete(c) ==
  /\ held[c] # Nil
  /\ \E a \in FreshResult \cap FreshList, v \in Val, lst \in Val \cup {Nil} :
       /\ jobs' = [jobs EXCEPT ![held[c]] = [val |-> v, result |-> a]]
       /\ results' = [results EXCEPT ![a] =
                        [val |-> v, list |-> IF lst = Nil THEN Nil ELSE a]]
       /\ lists' = IF lst = Nil THEN lists ELSE [lists EXCEPT ![a] = lst]
  /\ UNCHANGED <<index, held>>

Calls(c, j) == Create(c, j) \/ Get(c, j) \/ Update(c, j)

Edits(c) ==
  \/ GetFails(c) \/ NewJob(c) \/ Complete(c)
  \/ WriteJob(c) \/ WriteResult(c) \/ WriteList(c)

Next == \E c \in Caller : Edits(c) \/ \E j \in Job : Calls(c, j)

Spec == Init /\ [][Next]_memVars

-----------------------------------------------------------------------------
\* Types; the memory never refers to an address outside it.
TypeOK ==
  /\ jobs \in [Addr -> [val : Val, result : Ref]]
  /\ results \in [Addr -> [val : Val, list : Ref]]
  /\ lists \in [Addr -> Val]
  /\ index \in [Job -> Ref]
  /\ held \in [Caller -> Ref]

\* Two records that share no memory.
Apart(r, s) ==
  /\ r # s \/ r = Nil
  /\ ResultOf(r) # ResultOf(s) \/ ResultOf(r) = Nil
  /\ ListOf(r) # ListOf(s) \/ ListOf(r) = Nil

\* "every boundary copies the job": no memory of a stored record, down to the
\* arrays of its lists, is within reach of a caller or of another record.
Detached ==
  /\ \A j \in Job, c \in Caller : Apart(index[j], held[c])
  /\ \A i, j \in Job : i # j => Apart(index[i], index[j])
  /\ \A c, d \in Caller : c # d => Apart(held[c], held[d])

-----------------------------------------------------------------------------
\* The value a pointer leads to, as JobStore and the clients see it.
ValueOf(r) ==
  LET res == ResultOf(r)
      lst == ListOf(r)
  IN IF r = Nil THEN Nil
     ELSE [val |-> jobs[r].val,
           result |-> IF res = Nil THEN Nil
                      ELSE [val |-> results[res].val,
                            list |-> IF lst = Nil THEN Nil ELSE lists[lst]]]

Table == [j \in Job |-> ValueOf(index[j])]
Own   == [c \in Caller |-> ValueOf(held[c])]

Abstract == INSTANCE JobTable WITH table <- Table, own <- Own

\* "callers can never mutate stored state without going through Update": on
\* pointers and cells, the store is still the table of values it promises.
ImplementsTable == Abstract!Spec
=============================================================================
