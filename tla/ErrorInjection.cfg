\* The server with up to two children, or one rcopy; three packets each.
SPECIFICATION LibrarySpec
CONSTANTS
  Unset = Unset
  Garbage = Garbage
  Environments <- MCEnvironments
  Times = {100}
  Modulus = 3
  MaxChildren = 2
  MaxMessages = 3
CHECK_DEADLOCK FALSE
INVARIANTS
  ListIsHonoured
  EnvironmentWins
  SeedsApart
