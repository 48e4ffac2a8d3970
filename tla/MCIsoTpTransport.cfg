SPECIFICATION Spec
CONSTANTS
  Byte = {0}
  CfData = 2
  SeqModulus = 2
  KMaxPayload = 6
  Config <- MCConfig
  Payload <- MCPayload
  Frame <- MCFrame
  SendResult = {"Ok", "TxBusy", "BusOff"}
  SendDelay = {0, 1}
  MaxTime = 3
INVARIANTS
  TypeOK
  BufferHasOneOwner
  SendPositionConsistent
PROPERTIES
  PendingMessageIsStable
  SeparationIsKept
  ExpiredAssemblyIsDropped
  EndIsReportedTruthfully
  ImplementsContract
