SPECIFICATION Spec
CONSTANTS
  Vecs = {v1, v2}
  Callers = {t1, t2}
  Boot = boot
  Ops = {"insert", "delete", "entry_stored", "entry_node", "entry_both", "save", "load", "rebuild", "quit"}
  Mode = "snapshot"
  Early = TRUE
  Crashes = TRUE
  Cancels = TRUE
  MaxCalls = 3
  MaxStops = 1
  Queries <- AnyQueries
  Multiplier = 1
INVARIANTS AgreeUnlessTorn ReadsAsAnswered
CHECK_DEADLOCK FALSE
