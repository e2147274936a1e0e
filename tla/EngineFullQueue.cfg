SPECIFICATION Spec
CONSTANTS
  MaxFlowFile = 2
  MaxRecord = 3
  MaxBoot = 1
  QueueCapacity = 1
  a = a
  b = b
  ConnId = {a}
  NoId = NoId
  Flows <- JustPair
  NoFlow = NoFlow
  Payload <- Copies
  Absent = Absent
  Torn = Torn
  DropOldest = FALSE
  FlashFaults = FALSE
INVARIANTS
  FullQueueLosesNothing
