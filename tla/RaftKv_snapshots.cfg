SPECIFICATION FairSpec
CONSTANTS
  n1 = n1  n2 = n2  k1 = k1  k2 = k2  v1 = v1  v2 = v2
  NoNode = NoNode  NoKey = NoKey  NoValue = NoValue
  Nodes = {n1, n2}
  Bootstrap = n1
  Keys = {k1}
  Values = {v1}
  DualMode <- SyncAndAsync
  PrimaryDurable <- AllDurable
  DualDurable <- CopyInMemory
  KeepLogs = 1
  MaxLog = 4
  MaxRestarts = 0
  MaxFailures = 1
CHECK_DEADLOCK FALSE
INVARIANTS ReplicasAgree SnapshotsExact CopyFromLog
PROPERTIES WalksTheLog AllApplied
