CONSTANTS
  key_a = key_a
  key_b = key_b
  project = project
  c1 = c1
  c2 = c2
  Clients = {c1, c2}
  Children <- MCChildren
  Parent = project
  Capacity <- MCCapacity
  Requests = {1, 2}
  Changes <- MCChanges
  MaxAcquires = 3
  MaxFaults = 1
SPECIFICATION Spec
INVARIANTS TypeOK ConsumedTogether FaultsCostOneRequest
SYMMETRY Symmetric
CHECK_DEADLOCK FALSE
