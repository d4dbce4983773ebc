SPECIFICATION FairSpec
CONSTANTS
  Goroutines = {g1, g2}
  MaxHandlers = 2
PROPERTY CallsProduceOutput
CHECK_DEADLOCK FALSE
