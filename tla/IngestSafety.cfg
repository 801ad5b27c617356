SPECIFICATION Spec
CONSTANTS
  Job = {j1, j2}
  Absent = Absent
  Payloads <- MCPayloads
  Uploads <- MCUploads
  TokenSet = TRUE
  MaxBytes = 3
  FormBytes = 1
SYMMETRY Symmetry
INVARIANTS
  TypeOK
  UploadHasOwner
  AnswerMatchesPool
  RefusedIsSettled
  OnlySoundKept
  RefusalFitsUpload
