SPECIFICATION Spec
CONSTANTS
  alice = alice
  bob = bob
  carol = carol
  Clients = {alice, bob, carol}
  Version <- MCVersion
  Major <- MCMajor
  MaxCalls = 2
  MaxFaults = 0
  MaxDeletes = 0
INVARIANT RecordSaysDeployed
CHECK_DEADLOCK FALSE
