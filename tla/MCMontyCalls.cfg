SPECIFICATION Spec
CONSTANTS
  Width = 4
  Precision = 3
  ToJson <- MontyToJson
  ToFields <- PairsToJson
  ToMonty <- JsonToMonty
  Exposed <- MCExposed
  OsTool <- MCOsTool
  Program <- MCProgram
  Name <- MCName
  Literal <- MCLiteral
  OsFunction <- MCOsFunction
  Class = {0, 1, 2}
  Answer <- MCAnswer
  Text <- MCText
  Chars <- MCChars
  Cut <- MCCut
  File <- MCFile
  MaxHeld = 2
  MaxRuns = 2
INVARIANTS
  ResultsPassOn
  PayloadsTellCallsApart
  FileToolsTakeOneDict
  SessionExplained
PROPERTIES
  WritesReported
CHECK_DEADLOCK FALSE
