----------------------------- MODULE MCFsAccess -----------------------------
(* Small instances of FsAccess: a workspace "w" with a file and a place for *)
(* a link, and a file next to the workspace.                               *)
EXTENDS FsAccess, TLC

Home == <<"h">>
MCRoot == <<"h", "w">>
MCFile == <<"h", "w", "a">>
MCNew == <<"h", "w", "b">>
MCLinked == <<"h", "w", "l">>
MCOutside == <<"h", "ws">>
MCMissing == <<"h", "n">>
MCDir == {Home, MCRoot}
MCPath == MCDir \cup {MCFile, MCNew, MCLinked, MCOutside, MCMissing}
MCInitial == {MCFile, MCOutside}

(* A link to what is not there; and the file can be made a link out of the *)
(* workspace.                                                              *)
MCLink == {<<MCLinked, MCMissing>>, <<MCFile, MCOutside>>}
MCGrantTouched == {MCFile}

MCAround == MCRoot \o <<"..", "w", "a">>

All == {"FsRead", "FsWrite"}
Read(name, caps) == [kind |-> "read", name |-> name, size |-> 0, caps |-> caps]
Write(name, size, caps) == [kind |-> "write", name |-> name, size |-> size, caps |-> caps]

(* every read, writes of the file and of the link *)
MCPolicies == {[kind |-> "read", form |-> "prefix", operand |-> MCRoot],
               [kind |-> "write", form |-> "exact", operand |-> MCFile],
               [kind |-> "write", form |-> "exact", operand |-> MCLinked]}

(* who may access what *)
MCGrantRequests ==
  {Read(MCFile, All), Read(MCAround, {"FsWrite"})}
    \cup {Write(n, 1, All) : n \in {MCFile, MCNew, MCLinked}}

(* who overlaps whom on one file: a workspace with that file alone *)
MCOverlapPath == MCDir \cup {MCFile}
MCOverlapInitial == {MCFile}
MCOverlapRequests == {Read(MCFile, All), Write(MCFile, 2, All)}

MCOverlapPolicies == {[kind |-> k, form |-> "prefix", operand |-> MCRoot] : k \in Kind}

OpSymmetry == Permutations(Op)
=============================================================================
