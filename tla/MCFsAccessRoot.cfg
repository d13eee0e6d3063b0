SPECIFICATION Safety
CONSTANTS
  NoOp = NoOp
  Op = {o1}
  Path <- MCOverlapPath
  Dir <- MCDir
  Root <- MCRoot
  Link = {}
  MaxHops = 0
  Initial <- MCOverlapInitial
  Touched <- MCOverlapPath
  Request <- MCOverlapRequests
  Policies <- MCOverlapPolicies
  MaxInode = 2
INVARIANTS
  RootStaysCanonical
CHECK_DEADLOCK FALSE
