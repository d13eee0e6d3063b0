---------------------------- MODULE MCAgentHost ----------------------------
(* Small instances of AgentHost.                                           *)
EXTENDS AgentHost, TLC

CONSTANTS readTool, doubleTool, customTool, namelessTool, c1, c2

Symmetry == Permutations(Call)

MCCapability == {"FsRead", "FsWrite"}

MCDeclared == [t \in Tool |-> IF t = readTool THEN {"FsRead"} ELSE {}]
MCProgram == [t \in Tool |->
  IF t = readTool THEN "access" ELSE IF t = doubleTool THEN "double" ELSE "custom"]
MCRequired == [t \in Tool |->
  IF t = customTool THEN {{"FsRead"}, {"FsRead", "FsWrite"}} ELSE {{"FsRead"}}]

(* Doubles over Doubles over a tool *)
MCPayload == {<<>>, <<"leaf">>, <<"double", "leaf">>}
MCNoPayload == {<<>>}

(* asks that inherit, that narrow {"FsRead", "FsWrite"} and expand {} and {"FsWrite"} *)
MCAsks == {None, Some({"FsRead"})}
============================================================================
