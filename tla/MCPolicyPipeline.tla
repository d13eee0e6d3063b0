-------------------------- MODULE MCPolicyPipeline --------------------------
(* Small instances of PolicyPipeline: two action types, of which reading   *)
(* needs a capability and handling the file system itself needs none.      *)
EXTENDS PolicyPipeline

CONSTANTS fs, read, anyPolicy, readPolicy

MCCapability == {"FsRead"}
MCKind == {fs, read}
MCAction == {fs, read}
MCKindOf == [a \in MCAction |-> a]
MCCapsOf == [a \in MCAction |-> IF a = read THEN {"FsRead"} ELSE {}]

(* One policy for every type and one wrapped typed policy; both may answer anything. *)
MCPolicy == {anyPolicy, readPolicy}
MCScope == [p \in MCPolicy |-> IF p = readPolicy THEN {read} ELSE MCKind]
MCAnswers == [p \in MCPolicy |-> PolicyDecision]
=============================================================================
