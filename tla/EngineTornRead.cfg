SPECIFICATION Spec
CONSTANTS
  MaxFlowFile = 2
  MaxRecord = 3
  MaxBoot = 0
  QueueCapacity = 2
  a = a
  b = b
  ConnId = {a}
  NoId = NoId
  Flows <- JustPair
  NoFlow = NoFlow
  Payload <- Copies
  Absent = Absent
  Torn = Torn
  DropOldest = FALSE
  FlashFaults = FALSE
INVARIANTS
  PowerLossLeavesRecord
