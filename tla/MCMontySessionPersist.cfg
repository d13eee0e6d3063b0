SPECIFICATION Safety
CONSTANTS
  NoRun = NoRun
  Run = {r1, r2}
  Root = {w1}
  SessionId = {"main"}
  MaxCalls = 1
INVARIANTS
  OkRunsPersist
CHECK_DEADLOCK FALSE
