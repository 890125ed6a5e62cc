SPECIFICATION Spec
CONSTANTS
  t1 = t1
  t2 = t2
  t3 = t3
  s1 = s1
  s2 = s2
  Traces = {t1, t2, t3}
  Botless = {t2}
  All = All
  OfBot = OfBot
  Topics = {t1, OfBot}
  Subs = {s1, s2}
  StoreCapacity = 1
  BufferSize = 1
  MaxSubscriptions = 2
  MaxEvents = 3
  CanClose = TRUE
INVARIANTS
  StoreInv
PROPERTIES
  ImplementsStream
CHECK_DEADLOCK FALSE
SYMMETRY HandleSymmetry
