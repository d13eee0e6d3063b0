------------------------------ MODULE MockHost ------------------------------
(***************************************************************************)
(* MockKernel (crates/test-support), the host the tests of the other       *)
(* crates run their tools on.  It has its own copy of registration, of the *)
(* tool context and of the attenuation of nested invocations, and does not *)
(* audit an override of what a tool declares.                              *)
(*                                                                         *)
(* Nothing is said of what a tool does between its invocations: it may     *)
(* perform what its capabilities cover, nest, return and fail as it likes. *)
(* What every behaviour of this module satisfies, a test on MockKernel may *)
(* rely on; AgentHost is shown to behave like it, so the application does  *)
(* what the tests ran on.                                                  *)
(***************************************************************************)
EXTENDS Naturals

CONSTANTS
  Capability,
  Path,      \* tool paths
  Tool,      \* tools a test may register
  ValidSpec, \* the tools whose spec has a name
  Declared,  \* ToolSpec.capabilities of each tool
  Call,      \* calls to MockKernel::invoke from a test
  NoTool, NoCall,
  MaxInv     \* bound on the invocations of a behaviour

Inv == 1..MaxInv

(* capabilities_override: Option<Capabilities> *)
Override == {<<>>} \cup {<<set>> : set \in SUBSET Capability}

VARIABLES
  tools,    \* MockKernel.tools
  pc,       \* where each invocation is
  call,     \* the call an invocation belongs to
  parent,   \* the invocation that made it, 0 for the call itself
  tool,     \* the registration the path resolved to
  caps,     \* MockToolContext.effective_capabilities
  effects,  \* the accesses that were granted and performed
  scopes    \* the audited nested scopes

tree == <<call, parent, tool, caps>>
vars == <<tools, pc, tree, effects, scopes>>

Init ==
  /\ tools = [p \in Path |-> NoTool]
  /\ pc = [i \in Inv |-> "unused"]
  /\ call = [i \in Inv |-> NoCall]
  /\ parent = [i \in Inv |-> 0]
  /\ tool = [i \in Inv |-> NoTool]
  /\ caps = [i \in Inv |-> {}]
  /\ effects = {}
  /\ scopes = {}

Running(i) == pc[i] = "running"

(* register takes &mut self; a taken path is a DuplicateTool, and          *)
(* RegisteredTool::from_tool refuses a tool without a name.                *)
Register(p, t) ==
  /\ \A i \in Inv : ~Running(i)
  /\ tools[p] = NoTool
  /\ t \in ValidSpec
  /\ tools' = [tools EXCEPT ![p] = t]
  /\ UNCHANGED <<pc, tree, effects, scopes>>

(* MockToolContext::new *)
Effective(p, override) == IF override = <<>> THEN Declared[tools[p]] ELSE override[1]

(* ToolHost::invoke: the path may be unknown, the workspace root may be    *)
(* gone, the input may not parse; otherwise the tool runs.                 *)
Enter(i, c, par, p, override) ==
  /\ pc[i] = "unused"
  /\ \/ /\ tools[p] # NoTool
        /\ pc' = [pc EXCEPT ![i] = "running"]
        /\ caps' = [caps EXCEPT ![i] = Effective(p, override)]
     \/ /\ tools[p] # NoTool
        /\ pc' = [pc EXCEPT ![i] = "error"]
        /\ \/ caps' = [caps EXCEPT ![i] = Effective(p, override)]
           \/ caps' = [caps EXCEPT ![i] = {}]
     \/ /\ tools[p] = NoTool
        /\ pc' = [pc EXCEPT ![i] = "error"]
        /\ caps' = [caps EXCEPT ![i] = {}]
  /\ call' = [call EXCEPT ![i] = c]
  /\ parent' = [parent EXCEPT ![i] = par]
  /\ tool' = [tool EXCEPT ![i] = tools[p]]
  /\ UNCHANGED <<tools, effects>>

Invoke(i, c, p, override) ==
  /\ \A j \in Inv : call[j] # c
  /\ Enter(i, c, 0, p, override)
  /\ UNCHANGED scopes

(* MockToolContext::invoke_tool: without an override the child has what    *)
(* the parent has; an override may only take away.                         *)
Nest(i, j, p, override) ==
  LET held == caps[i]
      actual == IF override = <<>> THEN held ELSE override[1]
  IN  /\ Running(i)
      /\ actual \subseteq held
      /\ Enter(j, call[i], i, p, <<actual>>)
      /\ scopes' = scopes \cup {[event |-> "nested_scope", parent |-> i, child |-> j,
                                 held |-> held, requested |-> override,
                                 actual |-> <<actual>>, expand |-> FALSE]}

RefuseExpansion(i, override) ==
  /\ Running(i)
  /\ override # <<>> /\ ~(override[1] \subseteq caps[i])
  /\ scopes' = scopes \cup {[event |-> "nested_scope", parent |-> i, child |-> 0,
                             held |-> caps[i], requested |-> override,
                             actual |-> <<>>, expand |-> TRUE]}
  /\ UNCHANGED <<tools, pc, tree, effects>>

(* A tool performs what the pipeline grants it, returns, or does both: the *)
(* envelope that MockKernel::new installs lets nothing else through.  A    *)
(* tool does not return before what it awaits.                             *)
Work(i) ==
  /\ Running(i)
  /\ \/ UNCHANGED effects
     \/ \E needs \in SUBSET caps[i] : effects' = effects \cup {[inv |-> i, needs |-> needs]}
  /\ \/ UNCHANGED pc
     \/ /\ \A j \in Inv : parent[j] = i => ~Running(j)
        /\ \E how \in {"ok", "error"} : pc' = [pc EXCEPT ![i] = how]
  /\ UNCHANGED <<tools, tree, scopes>>

(* The future of an invocation owns those it awaits. *)
Above[i \in Inv] == IF parent[i] = 0 THEN {} ELSE {parent[i]} \cup Above[parent[i]]

Drop(i) ==
  /\ Running(i)
  /\ pc' = [j \in Inv |-> IF Running(j) /\ (j = i \/ i \in Above[j]) THEN "dropped" ELSE pc[j]]
  /\ UNCHANGED <<tools, tree, effects, scopes>>

Next ==
  \/ \E p \in Path, t \in Tool : Register(p, t)
  \/ \E i \in Inv : \/ \E c \in Call, p \in Path, o \in Override : Invoke(i, c, p, o)
                    \/ \E j \in Inv, p \in Path, o \in Override : Nest(i, j, p, o)
                    \/ \E o \in Override : RefuseExpansion(i, o)
                    \/ Work(i) \/ Drop(i)

Spec == Init /\ [][Next]_vars
=============================================================================
