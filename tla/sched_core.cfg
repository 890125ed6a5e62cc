SPECIFICATION FairSpec
CONSTANTS
  a = a
  b = b
  c = c
  Nodes = {a, b, c}
  Deps <- JoinDeps
  Reviewed = {c}
  Feedback <- NoFeedback
  GoalMode = FALSE
  MaxParallel = 2
  MaxRetries = 1
  MaxIterations = 1
  ReviewAttempts = 2
  GoalMax = 0
  MaxQuotaBreaks = 1
  QueueSize = 1
  Slots = {1}
  ExecFailures = {"transient", "fatal", "quota"}
  ReviewResults <- AllVerdicts
  Controls = {"terminate"}
  MaxSubmits = 0
INVARIANTS
  TypeOK
  NoOrphan
  SkippedForCause
  CompletedMeansAll
  InterruptedAtRest
PROPERTIES
  NoWorkAfterTerminate
  ImplementsDAG
  RunReturns
