SPECIFICATION SessionSpec
CONSTANTS
  caller = caller
  pycmd = pycmd
  nodecmd = nodecmd
  Procs <- MCProcs
  Callers <- MCCallers
  Commands <- MCCommands
  Python <- MCPython
  Carried <- MCCarried
  Kinds = {"start"}
  home = home
  other = other
  Bases <- MCBases
  NoCred = NoCred
  NoToken = NoToken
  MaxFam = 1
  MaxGen = 1
  MaxFaults = 0
  MaxTemp = 2
SYMMETRY MCSymmetry
INVARIANT
  StartNeverOrphans
CHECK_DEADLOCK FALSE
