SPECIFICATION FairSpec
CONSTANTS
  NoMessage = NoMessage
  Message <- MCMessage
  Dids <- MCDids
  StatusMasks = {255}
  UdsServiceConfig <- MCUdsConfig
  UdsRawDataLength = 7
  Pids = {32}
  ObdServiceConfig <- MCObdConfig
  ObdRawDataLength = 5
  kVinLength = 2
  kMaxStoredDtcRecords = 2
INVARIANTS
  ResultsAreNotMixedUp
PROPERTIES
  OnlyActiveServicesTake
  BothRequestsEnd
