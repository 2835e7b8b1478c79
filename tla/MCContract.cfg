SPECIFICATION Spec
CONSTANTS
  one = one
  two = two
  Cmds <- MCCmds
  Workloads <- MCWorkloads
  mission = mission
  dial = dial
  Fields <- MCFields
  j1 = j1
  j2 = j2
  Jobs = {j1, j2}
  MaxRetries = 1
  Null = Null
INVARIANTS
  OnlyAnonaErrors
CHECK_DEADLOCK FALSE
