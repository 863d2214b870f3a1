SPECIFICATION StoresSpec
CONSTANTS
  Radix = 3
  MaxIndex = 5
  MaxTerm = 2
  MaxBatch = 2
  MaxLogStops = 2
  LogPowerFails = TRUE
  Names = {orders, items}
  User = user
  Cols = {x, y}
  UserCols = {x}
  MaxId = 3
  MaxStops = 2
  PowerFails = TRUE
  TextIndexes = {x1}
  DocIds = {0, 1}
  Odd = Odd
  Contents = {a, b}
  Gone = Gone
  MaxWrites = 5
  MaxDowns = 2
  MaxErrors = 1
INVARIANTS StoreMatches AckedDurable TablesWhole IdsUnique DocumentsKept
CHECK_DEADLOCK FALSE
