SPECIFICATION FairSpec
CONSTANTS
  NoMessage = NoMessage
  Message <- MCLiveMessage
  Dids <- MCDids
  StatusMasks = {255}
  UdsServiceConfig <- MCConfig
  kMaxRawDataLength = 7
PROPERTIES
  EveryRequestEnds
