SPECIFICATION Spec
CONSTANTS
  Job = {j1}
  Caller = {c1, c2}
  Addr = {a1, a2, a3, a4, a5, a6, a7}
  Val = {v1, v2}
  Nil = Nil
  Zero = v1
VIEW View
INVARIANTS
  Detached
PROPERTIES
  ImplementsTable
