SPECIFICATION Spec
CONSTANTS
  Identities <- ThreeIdentities
  c1 = c1
  c2 = c2
  Snapshots <- FourSnapshots
  MaxScans = 3
INVARIANTS
  ReplayIsFaithful
  HistoryIsTold
  FinalizedIsOneRun
CHECK_DEADLOCK FALSE
