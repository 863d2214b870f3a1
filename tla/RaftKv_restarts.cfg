SPECIFICATION Spec
CONSTANTS
  n1 = n1  n2 = n2  k1 = k1  k2 = k2  v1 = v1  v2 = v2
  NoNode = NoNode  NoKey = NoKey  NoValue = NoValue
  Nodes = {n1}
  Bootstrap = n1
  Keys = {k1, k2}
  Values = {v1, v2}
  DualMode <- AllSync
  PrimaryDurable <- AllDurable
  DualDurable <- AllDurable
  KeepLogs = 1
  MaxLog = 5
  MaxRestarts = 2
  MaxFailures = 1
CHECK_DEADLOCK FALSE
SYMMETRY Symmetry
INVARIANTS PrimaryExact AppliedVisible SyncCopyEqual PurgedReflected
