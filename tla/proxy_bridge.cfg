SPECIFICATION BridgeFairSpec
CONSTANTS
  Sessions = {s1, s2}
  MaxStatus = 2
INVARIANT ExitIsTruthful
PROPERTY LeaversAreReleased
CHECK_DEADLOCK FALSE
