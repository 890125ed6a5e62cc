SPECIFICATION FairSpec
CONSTANTS
  r1 = r1
  r2 = r2
  u1 = u1
  u2 = u2
  Runners = {r1, r2}
  Nobody = Nobody
  Users = {u1}
  Parts = 1
  MaxQuotaBreaks = 1
  Controls = {"quota", "retry", "sweep", "stall"}
  MaxCrashes = 1
  MaxRestarts = 1
PROPERTIES
  Ends
