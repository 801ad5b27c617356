SPECIFICATION TameSpec
CONSTANTS
  Job = {j1, j2}
  Worker = {w1}
  QueueSize = 1
  None = None
  Absent = Absent
  Payloads <- MCPayloads
  Uploads <- MCUploads
  TokenSet = TRUE
  MaxBytes = 2
  FormBytes = 1
  Main = Main
PROPERTIES
  AcceptedIsProcessed
  RequestAnswered
  SignalStops
