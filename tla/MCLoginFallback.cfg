SPECIFICATION SessionSpec
CONSTANTS
  caller = caller
  pycmd = pycmd
  nodecmd = nodecmd
  Procs <- MCProcs
  Callers <- MCCallers
  Commands <- MCCommands
  Python <- MCPython
  Carried <- MCCarried
  Kinds = {"login"}
  home = home
  other = other
  Bases <- MCBases
  NoCred = NoCred
  NoToken = NoToken
  MaxFam = 2
  MaxGen = 1
  MaxFaults = 0
  MaxTemp = 1
SYMMETRY MCSymmetry
PROPERTY
  PlainLoginKeeps
CHECK_DEADLOCK FALSE
