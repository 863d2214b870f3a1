SPECIFICATION FairSpec
CONSTANTS
  Schemas = {shop}
  Sys = sys
  Tables = {orders}
  User = user
  Targets <- MCTargets
  SqlLock = sqllock
  Callers = {c1, c2}
  Ops = {"create_table", "drop_table", "write", "sql_query"}
  MayCancel = FALSE
  MaxRestarts = 0
PROPERTY EveryRequestEnds
CHECK_DEADLOCK FALSE
