CONSTANTS
  c1 = c1
  Clients = {c1}
  Capacity = 4
  Rate = 4
  WcuCapacity = 1
  Requests = {3}
  StartCounts = {0}
  Changes <- MCChanges
  MaxShards = 4
  MaxBatch = 2
  MaxAcquires = 4
  MaxTime = 1
  MaxFaults = 0
SPECIFICATION Spec
PROPERTY WcuRefillsEachSecond
CHECK_DEADLOCK FALSE
