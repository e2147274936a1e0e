SPECIFICATION FairSpec
CONSTANTS
  MaxFlowFile = 2
  MaxRecord = 2
  MaxBoot = 1
  QueueCapacity = 1
  a = a
  b = b
  ConnId = {a, b}
  NoId = NoId
  Flows <- ChainOrIdle
  NoFlow = NoFlow
  Payload <- Copies
  Absent = Absent
  Torn = Torn
  DropOldest = TRUE
  FlashFaults = FALSE
INVARIANTS
  TypeOK
  DuplicatesComeFromReplay
  StampsAreTrue
PROPERTIES
  PendingIsTaken
  QueuesDrain
