SPECIFICATION Spec
CONSTANTS
  readTool = readTool
  doubleTool = doubleTool
  customTool = customTool
  namelessTool = namelessTool
  c1 = c1
  c2 = c2
  NoTool = NoTool
  NoCall = NoCall
  Capability = {"FsRead"}
  Path = {"leaf", "double"}
  Tool = {readTool, doubleTool}
  ValidSpec = {readTool, doubleTool}
  Declared <- MCDeclared
  Program <- MCProgram
  Required <- MCRequired
  Payload <- MCPayload
  Call = {c1}
  Asks <- MCAsks
  MaxInv = 8
INVARIANTS
  DoubleIsTwice
  DoublingBound
PROPERTIES
  CallsReturn
CHECK_DEADLOCK FALSE
