SPECIFICATION PublicationSpec
CONSTANTS
  kMaxSignalIdLength = 64
  kMaxUnitLength = 32
  kMaxTextLength = 17
  Input <- MCInput
  MemorySize = 120
  Slack <- MCSlack
INVARIANTS
  TellsExactlyTheView
  CallerMemoryIsRespected
