SPECIFICATION Spec
CONSTANTS
  MaxFlowFile = 3
  MaxRecord = 3
  MaxBoot = 2
  QueueCapacity = 2
  a = a
  b = b
  ConnId = {a}
  NoId = NoId
  Flows <- JustPair
  NoFlow = NoFlow
  Payload <- Copies
  Absent = Absent
  Torn = Torn
  DropOldest = TRUE
  FlashFaults = FALSE
INVARIANTS
  ReplayMissesNothing
  OldestFirst
PROPERTIES
  RecordsAreImmutable
