SPECIFICATION Spec
CONSTANTS
  alice = alice
  bob = bob
  red = red
  blue = blue
  NoName = NoName
  Repos = {alice, bob}
  Admins = {alice, bob}
  Names = {red}
  Items = {1}
  MaxIds = 1
  MaxDeaths = 0
PROPERTY PreventsRecovery
CHECK_DEADLOCK FALSE
