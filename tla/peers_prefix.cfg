SPECIFICATION Spec
CONSTANTS
  Names <- MCNames
  Provisioned <- MCProvisioned
  Tasks = {t1, t2}
  t1 = t1
  t2 = t2
  NoTask = NoTask
  NoPeer = NoPeer
  LastOctet = 4
  MaxKey = 4
  Extensions <- PrefixPair
  Faults = {}
PROPERTIES DeleteExact
