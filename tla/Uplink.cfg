SPECIFICATION UplinkFairSpec
CONSTANTS
  Page = 1
  Batch = 2
  Chunk = 1
  MaxTime = 3
  Old = 2
  MaxRows = 3
  PerSecond = 2
  MaxFlight = 1
  MaxFaults = 1
INVARIANTS NothingPassedOver
PROPERTIES EverythingArrives
