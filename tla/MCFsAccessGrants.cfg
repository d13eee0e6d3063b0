SPECIFICATION Spec
CONSTANTS
  NoOp = NoOp
  Op = {o1, o2}
  Path <- MCPath
  Dir <- MCDir
  Root <- MCRoot
  Link <- MCLink
  MaxHops = 2
  Initial <- MCInitial
  Touched <- MCGrantTouched
  Request <- MCGrantRequests
  Policies <- MCPolicies
  MaxInode = 4
INVARIANTS
  AccessAsGranted
PROPERTIES
  OperationsEnd
CHECK_DEADLOCK FALSE
