SPECIFICATION ExportSpec
CONSTANTS
  kMaxSignalIdLength = 5
  kMaxUnitLength = 2
  kMaxTextLength = 3
  WrittenSample <- MCSamples
  CallerSample <- MCCaller
  OutputCapacity = {37, 38}
  Burst <- MCBurst
PROPERTIES
  EveryRecordReads
  OnlyRecordsRead
