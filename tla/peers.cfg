SPECIFICATION FairSpec
CONSTANTS
  Names <- MCNames
  Extensions <- NoPrefixPairs
  Provisioned <- MCProvisioned
  Tasks = {t1, t2}
  t1 = t1
  t2 = t2
  NoTask = NoTask
  NoPeer = NoPeer
  LastOctet = 4
  MaxKey = 4
  Faults = {"sync", "route"}
INVARIANTS TypeOK UniqueAddresses ServedToOwner FilesAgree
PROPERTIES CreateOkUsable DeleteExact RequestsFinish RefinesRegistry
