SPECIFICATION FairSpec
CONSTANTS
  py = py
  node = node
  base = base
  Procs <- MCCallers
  Callers <- MCCallers
  Python <- MCPython
  Carried <- MCCarried
  NoCred = NoCred
  NoToken = NoToken
  MaxFam = 1
  MaxGen = 2
  MaxFaults = 2
INVARIANTS
  RefreshInv
  NoReplay
  RotatesOnlyStale
  ReloginIsEarned
PROPERTIES
  Promised
  EveryCallEnds
CHECK_DEADLOCK FALSE
