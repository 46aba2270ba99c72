CONSTANTS
  a1 = a1
  a2 = a2
  c1 = c1
  gpt = gpt
  Resources = {gpt}
  Admins = {a1, a2}
  Clients = {c1}
  Invocations = 2
  MaxCalls = 4
  MaxFaults = 1
SPECIFICATION Spec
INVARIANTS TypeOK RegistryCounts NothingEscapes
SYMMETRY Symmetric
CHECK_DEADLOCK FALSE
