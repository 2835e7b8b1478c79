SPECIFICATION SessionSpec
CONSTANTS
  caller = caller
  pycmd = pycmd
  nodecmd = nodecmd
  Procs <- MCProcs
  Callers <- MCCallers
  Commands <- MCCommands
  Python <- MCPython
  Carried <- MCCarried
  Kinds = {"login", "logout", "start"}
  home = home
  other = other
  Bases <- MCBases
  NoCred = NoCred
  NoToken = NoToken
  MaxFam = 2
  MaxGen = 1
  MaxFaults = 0
  MaxTemp = 2
SYMMETRY MCSymmetry
INVARIANTS
  SessionTypeOK
  ProfileKept
  LogoutSticks
  FiledAtItsDeployment
  RotationInv
PROPERTIES
  RefreshKeepsLogin
CHECK_DEADLOCK FALSE
