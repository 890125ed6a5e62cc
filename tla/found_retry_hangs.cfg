SPECIFICATION FairSpec
CONSTANTS
  a = a
  b = b
  c = c
  Nodes = {a, b, c}
  Deps <- ChainDeps
  Reviewed = {}
  Feedback <- NoFeedback
  GoalMode = FALSE
  MaxParallel = 2
  MaxRetries = 0
  MaxIterations = 1
  ReviewAttempts = 1
  GoalMax = 0
  MaxQuotaBreaks = 1
  QueueSize = 1
  Slots = {1}
  ExecFailures = {"fatal"}
  ReviewResults = {}
  Controls = {"retry"}
  MaxSubmits = 1
PROPERTIES
  RunReturns
