SPECIFICATION FairSpec
CONSTANTS
  NumForwards = 1
  Remotes = {r1, r2}
  Stuck = {r1}
  AcceptCap = 1
  MaxFails = 2
  MaxConns = 2
CHECK_DEADLOCK FALSE
PROPERTY StopReturns
PROPERTY DeadLinkIsReplaced
