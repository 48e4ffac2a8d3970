SPECIFICATION Spec
CONSTANTS
  RxQueueLength = 2
  TxQueueLength = 1
INVARIANTS
  TypeOK
  HealthyDriverStarts
PROPERTIES
  AlertsReachTheCaller
  LossIsReportedFirst
