SPECIFICATION Spec
CONSTANTS
  s1 = s1
  s2 = s2
  v1 = v1
  v2 = v2
  r1 = r1
  r2 = r2
  Slugs = {s1, s2}
  Vms = {v1, v2}
  Vps = Vps
  NoMachine = NoMachine
  NoRow = NoRow
  Requests = {r1}
  Poller = Poller
  MaxRegions = 2
  Faults = {}
  Admin = {"impatient"}
INVARIANTS TaskKeepsItsRegion
