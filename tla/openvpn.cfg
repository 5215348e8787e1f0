SPECIFICATION FairSpec
CONSTANTS
  ann = ann
  all = all
  t1 = t1
  t2 = t2
  Names = {ann, all}
  AllName = all
  Tasks = {t1, t2}
  NoTask = NoTask
  MaxScripts = 2
  MaxCerts = 2
  Faults = {"build", "revoke", "restart"}
INVARIANTS TypeOK AcceptedRevocable NoDeadConfigs
PROPERTIES CreatedUsable DeleteCutsOff RequestsAnswered
