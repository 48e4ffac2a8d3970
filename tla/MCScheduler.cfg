SPECIFICATION FairSpec
CONSTANTS
  JobId = {a, b, c}
  Period = {0, 2, 3}
  Capacity = 2
  MaxTime = 9
INVARIANTS
  TypeOK
  ActiveIsDue
  PromisedRunsAreOwed
PROPERTIES
  CadenceIsKept
  FirstJobIsServed
