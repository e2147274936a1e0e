SPECIFICATION Spec
CONSTANTS
  MaxFlowFile = 1
  MaxRecord = 3
  MaxBoot = 1
  QueueCapacity = 1
  a = a
  b = b
  ConnId = {a, b}
  NoId = NoId
  Flows <- FanOrDefault
  NoFlow = NoFlow
  Payload <- Copies
  Absent = Absent
  Torn = Torn
  DropOldest = FALSE
  FlashFaults = TRUE
INVARIANTS
  NothingVanishes
