CONSTANTS
  c1 = c1
  Clients = {c1}
  Capacity = 4
  Rate = 4
  WcuCapacity = 1
  Requests = {1}
  StartCounts = {0, 2}
  Changes = {2}
  MaxShards = 4
  MaxBatch = 2
  MaxAcquires = 3
  MaxTime = 1
  MaxFaults = 1
SPECIFICATION FairSpec
INVARIANTS TypeOK DebtOnShardZero UsageIsCounted ShardZeroLeads ShardsFilledOnce
PROPERTY CountsArrive
CHECK_DEADLOCK FALSE
