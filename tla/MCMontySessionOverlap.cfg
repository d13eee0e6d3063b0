SPECIFICATION Safety
CONSTANTS
  NoRun = NoRun
  Run = {r1, r2, r3}
  Root = {w1, w2}
  SessionId = {"main"}
  MaxCalls = 2
SYMMETRY CallSymmetry
INVARIANTS
  TypeOK
  SerialRunsAccumulate
  StoredIsSavedHistory
  SessionsIsolated
  OkIsSaved
  CallerSupersedes
  ClassificationCovers
CHECK_DEADLOCK FALSE
