SPECIFICATION Spec
CONSTANTS
  Word <- MCWord
  Fetch = {1, 2}
  Request <- MCRequest
  ExactUrl <- MCExactUrl
  Domain <- MCDomain
  Responses <- MCResponses
INVARIANTS
  DomainByLabels
  FetchAsGranted
PROPERTIES
  FetchesEnd
CHECK_DEADLOCK FALSE
