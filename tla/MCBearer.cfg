SPECIFICATION Spec
CONSTANTS
  anona = anona
  own = own
  plain = plain
  Deployments = {anona, own, plain}
  Insecure = {plain}
  AnonaHosts = {anona}
  Home = anona
  Inputs <- MCInputs
  MaxIssued = 3
  None = None
INVARIANTS
  TypeOK
  PinnedWhileQuiet
  RightCredential
PROPERTIES
  OneFreshRetry
  EveryMessageEnds
CHECK_DEADLOCK FALSE
