CONSTANTS
  here = here
  there = there
  admin = admin
  other = other
  local = local
  remote = remote
  Processes = {here, there}
  Clients = {local}
  Admins = {admin, other}
  ProcessOf <- MCTwoAdmins
  Precedence <- ThreeLevels
  Names = {"rpm", "tpm"}
  MaxCapacity = 2
  Settable <- MCSettable
  Starts <- OneLevel
  MaxChanges = 1
SPECIFICATION FairSpec
INVARIANTS TypeOK ParamsFollowLimits TtlFollowsSource
PROPERTY LimitsConverge
