SPECIFICATION ChatFairSpec
CONSTANTS
  t1 = t1
  t2 = t2
  col = col
  b1 = b1
  Traces = {t1, t2}
  Botless = {}
  All = All
  OfBot = OfBot
  Topics = {t1}
  Chat = t1
  Subs = {col, b1}
  Collector = col
  Sender = b1
  StoreCapacity = 1
  BufferSize = 1
  MaxSubscriptions = 2
  MaxEvents = 4
  CanClose = TRUE
  DbFails = FALSE
  CanStop = FALSE
PROPERTIES
  Settles
CHECK_DEADLOCK FALSE
