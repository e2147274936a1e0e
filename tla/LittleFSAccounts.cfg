SPECIFICATION Spec
CONSTANTS
  Engine = engine
  Main = main
  small = small
  big = big
  MaxRecord = 4
  MaxBoot = 1
  Payload <- SmallAndBig
  Size <- SizeSmallAndBig
  MetaBytes = 1
  Capacity = 10
  HighPct = 50
  LowPct = 30
  BatchHint = 0
  Absent = Absent
  Torn = Torn
  DropOldest = FALSE
  FlashFaults = FALSE
  MountFaults = TRUE
INVARIANTS
  TypeOK
  CountCoversStored
  WatermarkHolds
