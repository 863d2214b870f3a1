SPECIFICATION FairSpec
CONSTANTS
  Schemas = {shop}
  Sys = sys
  Tables = {orders}
  User = user
  Targets <- MCTargets
  SqlLock = sqllock
  Callers = {c1, c2}
  Ops = {"create_schema", "drop_schema", "create_table", "drop_table", "read", "write", "sql_query", "refresh"}
  MayCancel = TRUE
  MaxRestarts = 1
INVARIANTS AckedVisible DroppedGone NoEngineReplaced
PROPERTY EndsUncrossed
