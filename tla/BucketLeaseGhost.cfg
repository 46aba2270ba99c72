CONSTANTS
  Milli = 2
  Clients = {c1, c2}
  c1 = c1
  c2 = c2
  Limits <- MCLimits
  Capacity <- MCCapacity
  RefillAmount <- MCRefillAmount
  Period <- MCPeriod
  Requests <- MCRequests
  Deltas <- MCDeltas
  SpeculativeWrites = {TRUE}
  Skew = 0
  MaxClock = 1
  MaxAcquires = 3
  MaxRemovals = 1
  MaxFaults = 0
SPECIFICATION Spec
INVARIANT CreateLosesToCreator
SYMMETRY Symmetric
CHECK_DEADLOCK FALSE
