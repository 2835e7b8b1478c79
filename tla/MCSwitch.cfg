SPECIFICATION Spec
CONSTANTS
  anona = anona
  own = own
  plain = plain
  Deployments = {anona, own, plain}
  Insecure = {plain}
  AnonaHosts = {anona}
  Home = anona
  Inputs <- MCStored
  MaxIssued = 3
  None = None
INVARIANT
  OwnDeployment
CHECK_DEADLOCK FALSE
