SPECIFICATION Spec
CONSTANTS
  NumForwards = 2
  Remotes = {r1, r2}
  Stuck = {}
  AcceptCap = 1
  MaxFails = 1
  MaxConns = 2
CHECK_DEADLOCK FALSE
INVARIANT TypeOK
INVARIANT ReportNeverBlocks
PROPERTY ImplementsTunnel
SYMMETRY MCSymmetry
