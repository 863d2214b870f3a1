SPECIFICATION FairSpec
CONSTANTS
  Self = s
  Joiner = auto
  Peers = {p1, p2}
  Configured = {p1, p2}
  Callers = {a1, a2}
  AutoJoin = TRUE
  MayTimeOut = TRUE
  MaxLosses = 1
INVARIANTS AckedAdds AckedRemoves
PROPERTIES VotersGrow AllJoin
CHECK_DEADLOCK FALSE
