SPECIFICATION Spec
CONSTANTS
  NoRun = NoRun
  Run = {r1, r2, r3}
  Root = {w1}
  SessionId = {"main"}
  MaxCalls = 1
PROPERTIES
  RunsEnd
CHECK_DEADLOCK FALSE
