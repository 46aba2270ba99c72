CONSTANTS
  Milli = 2
  Clients = {c1, c2}
  c1 = c1
  c2 = c2
  Limits <- MCLimits
  Capacity <- MCCapacity
  RefillAmount <- MCRefillAmount
  Period <- MCPeriod
  Requests <- MCRequests
  Deltas <- MCDeltas
  SpeculativeWrites = {TRUE, FALSE}
  Skew = 1
  MaxClock = 3
  MaxAcquires = 2
  MaxRemovals = 1
  MaxFaults = 1
SPECIFICATION Spec
INVARIANTS TypeOK RateBound
PROPERTIES AcquireNeverOverdraws ImplementsLedger
SYMMETRY Symmetric
CHECK_DEADLOCK FALSE
