SPECIFICATION Spec
CONSTANTS
  fs = fs
  read = read
  anyPolicy = anyPolicy
  readPolicy = readPolicy
  Envelope = envelope
  Capability <- MCCapability
  Kind <- MCKind
  Action <- MCAction
  KindOf <- MCKindOf
  CapsOf <- MCCapsOf
  Policy <- MCPolicy
  Scope <- MCScope
  Answers <- MCAnswers
  Req = {r1}
  MaxPolicyId = 4
INVARIANTS
  EnvelopeGate
  EnvelopeInv
  ReportExplainsOutcome
  PolicyIdsUnique
PROPERTIES
  CallsAnswered
CHECK_DEADLOCK FALSE
