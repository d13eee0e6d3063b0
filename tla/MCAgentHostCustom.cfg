SPECIFICATION Safety
CONSTANTS
  readTool = readTool
  doubleTool = doubleTool
  customTool = customTool
  namelessTool = namelessTool
  c1 = c1
  c2 = c2
  NoTool = NoTool
  NoCall = NoCall
  Capability <- MCCapability
  Path = {"leaf", "tool"}
  Tool = {readTool, customTool, namelessTool}
  ValidSpec = {readTool, customTool}
  Declared <- MCDeclared
  Program <- MCProgram
  Required <- MCRequired
  Payload <- MCNoPayload
  Call = {c1, c2}
  Asks <- MCAsks
  MaxInv = 3
SYMMETRY Symmetry
INVARIANTS
  TypeOK
  EffectsWithinCall
  NestedWithinParent
  CapabilitiesAudited
  NoneOutlivesParent
PROPERTIES
  ImplementsMock
CHECK_DEADLOCK FALSE
