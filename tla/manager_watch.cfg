SPECIFICATION FairSpec
CONSTANTS
  r1 = r1
  r2 = r2
  u1 = u1
  u2 = u2
  Runners = {r1, r2}
  Nobody = Nobody
  Users = {u1}
  Parts = 3
  MaxQuotaBreaks = 2
  Controls = {"terminate", "quota"}
  MaxCrashes = 3
  MaxRestarts = 0
INVARIANTS
  TypeOK
  OneRunner
  Reachable
  Owned
  ParkedHasTime
PROPERTIES
  WorkKept
  EndStands
  Ends
