SPECIFICATION Spec
CONSTANTS
  Job = {j1, j2}
  Worker = {w1, w2}
  QueueSize = 1
  None = None
  Absent = Absent
  Payloads <- MCPayloads
  Uploads <- MCUploads
  TokenSet = TRUE
  MaxBytes = 2
  FormBytes = 1
  Main = Main
INVARIANTS
  AudioAvailable
  NoStrayUpload
  ExitAccountsForAll
  AnswerKept
PROPERTIES
  ImplementsPool
  ImplementsProcessor
  ImplementsIngest
  ImplementsLifecycle
SYMMETRY Symmetry
