SPECIFICATION Spec
CONSTANTS
  q1 = q1
  q2 = q2
  s1 = s1
  s2 = s2
  im = im
  web = web
  m1 = m1
  ChoiceIds = {q1, q2}
  SecretIds = {s1, s2}
  Chats = {im, web}
  Web = {web}
  Messages = {m1}
INVARIANTS
  RegistryInv
  ClosedOnce
  OneSecret
  Reported
CHECK_DEADLOCK FALSE
SYMMETRY IdSymmetry
