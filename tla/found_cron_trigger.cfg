SPECIFICATION FairSpec
CONSTANTS
  Jobs = {j1}
  Workers = {w1}
  OwnStore = TRUE
  Once = {}
  Repeat = {j1}
  Kinds = {}
  Limits = {0, 1}
  Outcomes = {"ok"}
  Ops = {"trigger"}
  CanStop = FALSE
  MaxEvents = 1
  NoJob = NoJob
  MaxConcurrent = 1
  MaxFailures = 2
  Callers = {c1}
PROPERTIES
  TriggerRuns
CHECK_DEADLOCK FALSE
