SPECIFICATION FairSpec
CONSTANTS
  Sources <- Services
  LookBack = 1
  Window = 1
  PageSize = 2
  MaxPages = 2
  MaxNow = 2
  MaxLines = 3
  MaxLives = 2
INVARIANTS TypeOK NothingSkipped NoDuplicates NoFalseAlarm PagesCover
PROPERTIES EventuallyStored
