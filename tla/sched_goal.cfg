SPECIFICATION FairSpec
CONSTANTS
  a = a
  b = b
  c = c
  Nodes = {a, b, c}
  Deps <- JoinDeps
  Reviewed = {a, b, c}
  Feedback <- GoalFeedback
  GoalMode = TRUE
  MaxParallel = 2
  MaxRetries = 1
  MaxIterations = 1
  ReviewAttempts = 2
  GoalMax = 1
  MaxQuotaBreaks = 0
  QueueSize = 1
  Slots = {1}
  ExecFailures = {"transient"}
  ReviewResults <- SimpleVerdicts
  Controls = {"terminate", "cancel"}
  MaxSubmits = 0
INVARIANTS
  RoundsWithin
  NotDoomed
PROPERTIES
  StartsOnCompleted
  RunReturns
