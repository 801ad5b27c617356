SPECIFICATION Spec
CONSTANTS
  Job = {j1, j2}
  Absent = Absent
  Payloads <- MCPayloads
SYMMETRY Symmetry
INVARIANTS
  TypeOK
  StoreWellFormed
  DeliveredOnce
  ReasonTellsDelivery
  SettledUnlessExpired
  PolledAsDelivered
PROPERTIES
  StatusMonotone
