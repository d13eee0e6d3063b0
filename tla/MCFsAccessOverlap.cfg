SPECIFICATION Safety
CONSTANTS
  NoOp = NoOp
  Op = {o1, o2, o3}
  Path <- MCOverlapPath
  Dir <- MCDir
  Root <- MCRoot
  Link = {}
  MaxHops = 0
  Initial <- MCOverlapInitial
  Touched <- MCOverlapPath
  Request <- MCOverlapRequests
  Policies <- MCOverlapPolicies
  MaxInode = 4
SYMMETRY OpSymmetry
INVARIANTS
  TypeOK
  WritesIntact
  ReadsIntact
  PiecesKeepTheirPlace
CHECK_DEADLOCK FALSE
