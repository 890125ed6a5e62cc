SPECIFICATION FairSpec
CONSTANTS
  a = a
  b = b
  c = c
  Nodes = {a, b, c}
  Deps <- JoinDeps
  Reviewed = {c}
  Feedback <- NoFeedback
  GoalMode = FALSE
  MaxParallel = 2
  MaxRetries = 0
  MaxIterations = 2
  ReviewAttempts = 1
  GoalMax = 0
  MaxQuotaBreaks = 0
  QueueSize = 1
  Slots = {1, 2}
  ExecFailures = {"fatal"}
  ReviewResults <- RetryVerdicts
  Controls = {"retry", "cancel"}
  MaxSubmits = 2
INVARIANTS
  WorkOnCompleted
  OneWorker
  BlockedNotCompleted
  ExecutionInv
PROPERTIES
  CompletedKept
  StopReturns
