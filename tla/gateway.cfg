SPECIFICATION FairSpec
CONSTANTS
  Unset = Unset
  Here = Here
  Number <- MCNumber
  Callers <- MCCallers
  Files <- MCFiles
  Flags <- MCFlags
  Tids <- MCTids
  MaxFaults = 1
INVARIANTS SharedIdentity ListedIsBound
PROPERTY TunnelsComeUp
