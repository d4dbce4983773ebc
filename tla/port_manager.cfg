SPECIFICATION Spec
CONSTANTS
  Devices <- MCDevices
  PortOf <- MCPortOf
  BootPorts <- MCBootPorts
  Clients = {c1, c2}
  MaxServers = 2
CHECK_DEADLOCK FALSE
INVARIANT RunningIsMapped
INVARIANT OneRecorderPerFile
INVARIANT ShutdownIsComplete
SYMMETRY MCSymmetry
