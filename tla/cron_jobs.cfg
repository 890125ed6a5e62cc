SPECIFICATION FairSpec
CONSTANTS
  Jobs = {j1, j2}
  Workers = {w1, w2}
  OwnStore = FALSE
  Once = {j1}
  Repeat = {}
  Kinds = {"repeat"}
  Limits = {0}
  Outcomes = {"ok", "error", "panic"}
  Ops = {"create", "pause", "resume", "trigger", "delete"}
  CanStop = TRUE
  MaxEvents = 2
  NoJob = NoJob
  MaxConcurrent = 1
  MaxFailures = 2
  Callers = {c1}
INVARIANTS
  OneExecution
PROPERTIES
  DueRuns
  StopReturns
CHECK_DEADLOCK FALSE
