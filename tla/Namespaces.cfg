SPECIFICATION Spec
CONSTANTS
  alice = alice
  bob = bob
  red = red
  blue = blue
  NoName = NoName
  Repos = {alice, bob}
  Admins = {alice, bob}
  Names = {red, blue}
  Items = {1}
  MaxIds = 2
  MaxDeaths = 1
SYMMETRY ActorSymmetry
CONSTRAINT SomeUncontested
INVARIANTS TypeOK OwnIds RecordsAgree
PROPERTIES PurgeIsTerminal LiveDataKept
CHECK_DEADLOCK FALSE
