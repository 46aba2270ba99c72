CONSTANTS
  a1 = a1
  a2 = a2
  c1 = c1
  gpt = gpt
  Resources = {gpt}
  Admins = {a1, a2}
  Clients = {c1}
  Invocations = 0
  MaxCalls = 2
  MaxFaults = 0
SPECIFICATION Spec
PROPERTY HitsCascade
CHECK_DEADLOCK FALSE
