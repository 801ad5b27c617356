SPECIFICATION Spec
CONSTANTS
  Job = {j1}
  Absent = Absent
  Payloads <- MCPayloads
INVARIANTS
  AtLeastOnceDelivery
