CONSTANTS
  Milli = 2
  Clients = {c1, c2}
  c1 = c1
  c2 = c2
  Limits <- MCLimits
  Capacity <- MCCapacity
  RefillAmount <- MCRefillAmount
  Period <- MCPeriod
  Requests <- MCRequests
  Deltas <- MCDeltas
  SpeculativeWrites = {TRUE}
  Skew = 0
  MaxClock = 4
  MaxAcquires = 3
  MaxRemovals = 0
  MaxFaults = 0
SPECIFICATION Spec
INVARIANTS NoDoubleRefill WithinCapacity CountedOnce
SYMMETRY Symmetric
CHECK_DEADLOCK FALSE
