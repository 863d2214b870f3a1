SPECIFICATION Spec
CONSTANTS
  n1 = n1  n2 = n2  k1 = k1  v1 = v1  v2 = v2  k2 = k2
  NoNode = NoNode  NoKey = NoKey  NoValue = NoValue
  Nodes = {n1}
  Bootstrap = n1
  Keys = {k1}
  Values = {v1, v2}
  DualMode <- AllAsync
  PrimaryDurable <- AllDurable
  DualDurable <- AllDurable
  KeepLogs = 1
  MaxLog = 5
  MaxRestarts = 0
  MaxFailures = 0
INVARIANT AsyncCopyConverges
CHECK_DEADLOCK FALSE
