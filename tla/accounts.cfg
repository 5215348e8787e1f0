SPECIFICATION FairSpec
CONSTANTS
  Names = {"admin", "ann"}
  SeedName = "admin"
  Keep = Keep
  Requests = {r1, r2}
  r1 = r1
  r2 = r2
  c1 = c1
  Clients = {c1}
  NoClient = NoClient
  Limit = 2
  MaxId = 3
INVARIANTS TypeOK NamesUnique OvershootBounded
PROPERTIES ChangesAsOrdered LockoutEnds
