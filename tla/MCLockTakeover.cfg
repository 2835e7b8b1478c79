SPECIFICATION Spec
CONSTANTS
  py1 = py1
  py2 = py2
  node1 = node1
  Nobody = Nobody
  Procs <- MCProcs
  Python <- MCPython
  Stale = 1
  Timeout = 2
  MaxDeaths = 1
  Stalls = FALSE
INVARIANT
  MutualExclusion
CHECK_DEADLOCK FALSE
