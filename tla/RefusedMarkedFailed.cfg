SPECIFICATION Spec
CONSTANTS
  Job = {j1}
  Absent = Absent
  Payloads <- MCPayloads
  Uploads <- MCUploads
  TokenSet = TRUE
  MaxBytes = 3
  FormBytes = 1
INVARIANTS
  RefusedIsMarkedFailed
