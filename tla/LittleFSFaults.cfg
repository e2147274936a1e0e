SPECIFICATION FairSpec
CONSTANTS
  Engine = engine
  Main = main
  small = small
  big = big
  MaxRecord = 3
  MaxBoot = 1
  Payload <- SmallAndBig
  Size <- SizeSmallAndBig
  MetaBytes = 1
  Capacity = 8
  HighPct = 75
  LowPct = 50
  BatchHint = 1
  Absent = Absent
  Torn = Torn
  DropOldest = TRUE
  FlashFaults = TRUE
  MountFaults = FALSE
INVARIANTS
  UsedCoversStored
PROPERTIES
  ImplementsStore
  CallsReturn
