SPECIFICATION Spec
CONSTANTS
  NoMessage = NoMessage
  Message <- MCMessage
  Dids <- MCDids
  StatusMasks = {255}
  UdsServiceConfig <- MCConfig
  kMaxRawDataLength = 7
INVARIANTS
  TypeOK
  ResultAnswersRequest
  WaitIsBounded
PROPERTIES
  EndLeavesNoMessage
  ImplementsLifecycle
