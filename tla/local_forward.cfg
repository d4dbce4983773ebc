SPECIFICATION FairSpec
CONSTANTS
  Users = {u1, u2}
  Stuck = {u1}
  MaxConns = 2
INVARIANTS TypeOK ClosedForCause
PROPERTIES ImplementsTunnel StopEndsAll DeadLinkIsReplaced
CHECK_DEADLOCK FALSE
