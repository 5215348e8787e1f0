SPECIFICATION FairSpec
CONSTANTS
  ann = ann
  bob = bob
  t1 = t1
  t2 = t2
  Names = {ann, bob}
  Extensions <- Same
  Provisioned <- NoProvisioned
  Tasks = {t1, t2}
  NoTask = NoTask
  NoPeer = NoPeer
  LastOctet = 3
  MaxKey = 2
  Faults = {"show", "sync"}
  AuthLimit = 1
INVARIANTS TypeOK Reachable
PROPERTIES ServedStays DeleteSettles HandlersEnd LockoutEnds
