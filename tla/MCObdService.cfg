SPECIFICATION Spec
CONSTANTS
  NoMessage = NoMessage
  Message <- MCMessage
  Pids = {12, 32}
  ObdServiceConfig <- MCConfig
  kMaxRawDataLength = 7
  kVinLength = 2
  kMaxStoredDtcRecords = 2
INVARIANTS
  TypeOK
  ResultAnswersRequest
  WaitIsBounded
PROPERTIES
  EndLeavesNoMessage
  ImplementsLifecycle
