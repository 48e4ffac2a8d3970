SPECIFICATION Spec
CONSTANTS
  SignalId = {s, t, w}
  SampleValue = {u, v}
  Timestamp = {0, 1}
  Capacity = 2
  NoSample = NoSample
  ProfileIdentity = {kamiq, other, foreign}
  Admitted = {kamiq, other}
  NoIdentity = NoIdentity
  RegistryProfile = kamiq
  Registry <- MCRegistry
  BufferCapacity = {0, 1, 2}
INVARIANTS
  TypeOK
  NewestIsHeld
  SnapshotIsOneMoment
