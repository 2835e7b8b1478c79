SPECIFICATION Spec
CONSTANTS
  p1 = p1
  p2 = p2
  r1 = r1
  repo = repo
  Repo = Repo
  Pushes = {p1, p2}
  Recalls = {r1}
  Names = {repo, Repo}
  Home = repo
  Setups <- MCSetups
  Accounts <- MCAccounts
  Casts <- MCCasts
  MaxChanges = 1
  None = None
INVARIANTS
  TypeOK
  OwnSpaceOnly
  NotLost
PROPERTIES
  OneDelivery
  EveryPushEnds
CHECK_DEADLOCK FALSE
