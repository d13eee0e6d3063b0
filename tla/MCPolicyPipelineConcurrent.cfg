SPECIFICATION Spec
CONSTANTS
  fs = fs
  read = read
  anyPolicy = anyPolicy
  readPolicy = readPolicy
  Envelope = envelope
  Capability <- MCCapability
  Kind <- MCKind
  Action <- MCAction
  KindOf <- MCKindOf
  CapsOf <- MCCapsOf
  Policy <- MCPolicy
  Scope <- MCScope
  Answers <- MCAnswers
  Req = {r1, r2}
  MaxPolicyId = 3
INVARIANTS
  TypeOK
  GrantIdsUnique
  AuditFaithful
PROPERTIES
  ImplementsAuthorizer
CHECK_DEADLOCK FALSE
