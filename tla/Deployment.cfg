SPECIFICATION Spec
CONSTANTS
  alice = alice
  bob = bob
  carol = carol
  Clients = {alice, bob, carol}
  Version <- MCVersion
  Major <- MCMajor
  MaxCalls = 3
  MaxFaults = 1
  MaxDeletes = 1
INVARIANTS TypeOK CodeDeployed RecordIsTrue
CHECK_DEADLOCK FALSE
