CONSTANTS
  here = here
  there = there
  admin = admin
  other = other
  local = local
  remote = remote
  Processes = {here, there}
  Clients = {local, remote}
  Admins = {admin}
  ProcessOf <- MCProcessOf
  Precedence <- TwoLevels
  Names = {"rpm", "tpm"}
  MaxCapacity = 2
  Settable <- MCSettable
  Starts <- MCStarts
  MaxChanges = 2
SPECIFICATION Spec
INVARIANT ParamsComplete
