----------------------------- MODULE AgentHost -----------------------------
(***************************************************************************)
(* The host (crates/app): a registry of tools, and the tree of invocations *)
(* each call from outside grows.  Invocations of different calls, and of   *)
(* one custom tool that runs several at a time, interleave.  A nested      *)
(* invocation takes its capabilities from the one that makes it; the       *)
(* future of an invocation may be dropped, and with it those below.        *)
(*                                                                         *)
(* A grant is one step here, as Authorizer specifies it: the policies may  *)
(* allow what the capabilities cover and may refuse anything.              *)
(***************************************************************************)
EXTENDS Naturals, Sequences, FiniteSets

CONSTANTS
  Capability,
  Path,      \* tool paths
  Tool,      \* tools a host may register
  ValidSpec, \* the tools whose spec has a name
  Declared,  \* ToolSpec.capabilities of each tool
  Program,   \* what a tool does: "access", "double" or "custom"
  Required,  \* the capabilities a tool's own actions may need
  Asks,      \* the overrides a custom tool may ask a nested invocation for
  Payload,   \* inputs: the paths a Double unwraps, outermost first
  Call,      \* calls to App::invoke from outside
  NoTool, NoCall,
  MaxInv     \* bound on the invocations of a behaviour

Inv == 1..MaxInv

(* capabilities_override: Option<Capabilities> *)
None == <<>>
Some(set) == <<set>>
Override == {None} \cup {Some(set) : set \in SUBSET Capability}

ASSUME HostAssumption ==
  /\ ValidSpec \subseteq Tool
  /\ Declared \in [Tool -> SUBSET Capability]
  /\ Program \in [Tool -> {"access", "double", "custom"}]
  /\ Required \in [Tool -> SUBSET (SUBSET Capability)]
  /\ Asks \subseteq Override
  /\ Payload \subseteq Seq(Path)
  /\ \A pay \in Payload : pay # <<>> => Tail(pay) \in Payload
  /\ NoTool \notin Tool /\ NoCall \notin Call
  /\ MaxInv \in Nat

VARIABLES
  tools,    \* App.tools
  pc,       \* where each invocation is
  call,     \* the call an invocation belongs to
  parent,   \* the invocation that made it, 0 for the call itself
  tool,     \* the registration the path resolved to
  payload,
  caps,     \* ToolContext::effective_capabilities
  fault,    \* why an invocation failed
  answer,   \* the invocation whose outcome this one returned
  effects,  \* the accesses that were granted and performed
  audit     \* the audited capability events

local == <<call, parent, tool, payload, caps>>
vars == <<tools, pc, local, fault, answer, effects, audit>>

Fault == {"none", "unknown_tool", "io", "invalid_input", "denied", "execution"}
EntryFault == {"unknown_tool", "io", "invalid_input"}

(* tool_capabilities_override, tool_nested_scope *)
OverrideEvent == [event : {"capabilities_override"}, inv : Inv,
                  declared : SUBSET Capability, effective : SUBSET Capability]
ScopeEvent == [event : {"nested_scope"}, parent : Inv, child : Inv \cup {0},
               held : SUBSET Capability, requested : Override, actual : Override,
               expand : BOOLEAN]

TypeOK ==
  /\ tools \in [Path -> Tool \cup {NoTool}]
  /\ pc \in [Inv -> {"unused", "running", "ok", "error", "dropped"}]
  /\ call \in [Inv -> Call \cup {NoCall}]
  /\ parent \in [Inv -> Inv \cup {0}]
  /\ tool \in [Inv -> Tool \cup {NoTool}]
  /\ payload \in [Inv -> Payload \cup {<<>>}]
  /\ caps \in [Inv -> SUBSET Capability]
  /\ fault \in [Inv -> Fault]
  /\ answer \in [Inv -> Inv \cup {0}]
  /\ effects \subseteq [inv : Inv, needs : SUBSET Capability]
  /\ audit \subseteq (OverrideEvent \cup ScopeEvent)
  /\ \A i \in Inv : /\ (pc[i] = "error") = (fault[i] # "none")
                    /\ (pc[i] = "ok") = (answer[i] # 0)

Init ==
  /\ tools = [p \in Path |-> NoTool]
  /\ pc = [i \in Inv |-> "unused"]
  /\ call = [i \in Inv |-> NoCall]
  /\ parent = [i \in Inv |-> 0]
  /\ tool = [i \in Inv |-> NoTool]
  /\ payload = [i \in Inv |-> <<>>]
  /\ caps = [i \in Inv |-> {}]
  /\ fault = [i \in Inv |-> "none"]
  /\ answer = [i \in Inv |-> 0]
  /\ effects = {}
  /\ audit = {}

-----------------------------------------------------------------------------
(* Registration *)

Running(i) == pc[i] = "running"

(* App::register takes &mut self and refuses a path that is taken          *)
(* (DuplicateTool) and a tool without a name (InvalidSpec).                *)
Register(p, t) ==
  /\ \A i \in Inv : ~Running(i)
  /\ tools[p] = NoTool
  /\ t \in ValidSpec
  /\ tools' = [tools EXCEPT ![p] = t]
  /\ UNCHANGED <<pc, local, fault, answer, effects, audit>>

-----------------------------------------------------------------------------
(* Entering an invocation: ToolHost::invoke up to the tool's own code *)

Fresh(i) == pc[i] = "unused" /\ \A j \in 1..(i - 1) : pc[j] # "unused"

(* What parse_input may answer.  A Double needs a path and a payload; the  *)
(* inputs of other tools are not modelled, so either answer is possible.   *)
ParseFaults(t, pay) ==
  IF Program[t] = "double"
  THEN IF pay = <<>> THEN {"invalid_input"} ELSE {"none"}
  ELSE {"none", "invalid_input"}

(* The lookup, then the context (the workspace root may be gone), then     *)
(* the input.                                                              *)
EntryFaults(p, pay) ==
  IF tools[p] = NoTool THEN {"unknown_tool"} ELSE {"io"} \cup ParseFaults(tools[p], pay)

(* AppToolContext::new: an override replaces what the tool declares.       *)
Effective(p, override) == IF override = None THEN Declared[tools[p]] ELSE override[1]

(* Slip: the two sides of contains are swapped. *)
OverrideEventsSwapped(i, p, effective) ==
  IF Declared[tools[p]] \subseteq effective
  THEN {}
  ELSE {[event |-> "capabilities_override", inv |-> i,
         declared |-> Declared[tools[p]], effective |-> effective]}

OverrideEvents(i, p, effective) ==
  IF effective \subseteq Declared[tools[p]]
  THEN {}
  ELSE {[event |-> "capabilities_override", inv |-> i,
         declared |-> Declared[tools[p]], effective |-> effective]}

Enter(i, c, par, p, override, pay, scope) ==
  /\ Fresh(i)
  /\ \E f \in EntryFaults(p, pay) :
       LET hasContext == f \notin {"unknown_tool", "io"}
           effective == IF hasContext THEN Effective(p, override) ELSE {}
       IN  /\ caps' = [caps EXCEPT ![i] = effective]
           /\ audit' = audit \cup scope \cup
                         (IF hasContext THEN OverrideEvents(i, p, effective) ELSE {})
           /\ pc' = [pc EXCEPT ![i] = IF f = "none" THEN "running" ELSE "error"]
           /\ fault' = [fault EXCEPT ![i] = f]
  /\ call' = [call EXCEPT ![i] = c]
  /\ parent' = [parent EXCEPT ![i] = par]
  /\ tool' = [tool EXCEPT ![i] = tools[p]]
  /\ payload' = [payload EXCEPT ![i] = pay]
  /\ UNCHANGED <<tools, answer, effects>>

(* App::invoke from outside, once per call. *)
Invoke(c, p, override, pay) ==
  /\ \A i \in Inv : call[i] # c
  /\ \E i \in Inv : Enter(i, c, 0, p, override, pay, {})

(* ToolContext::invoke_tool *)
(* Slip: the two sides of contains are swapped. *)
ExpandsSwapped(i, override) == override # None /\ ~(caps[i] \subseteq override[1])

Expands(i, override) == override # None /\ ~(override[1] \subseteq caps[i])

(* Slip: a nested tool without an override starts from its own spec. *)
ChildCapsFromSpec(i, p, override) ==
  IF override = None
  THEN IF tools[p] = NoTool THEN {} ELSE Declared[tools[p]]
  ELSE override[1]

ChildCaps(i, p, override) == IF override = None THEN caps[i] ELSE override[1]

Scope(i, j, p, override) ==
  {[event |-> "nested_scope", parent |-> i, child |-> j, held |-> caps[i],
    requested |-> override, actual |-> Some(ChildCaps(i, p, override)), expand |-> FALSE]}

Nest(i, p, override, pay) ==
  /\ Running(i)
  /\ ~Expands(i, override)
  /\ \E j \in Inv :
       Enter(j, call[i], i, p, Some(ChildCaps(i, p, override)), pay, Scope(i, j, p, override))

(* The refused expansion is audited and answered with Denied; nothing runs. *)
RefuseExpansion(i, override) ==
  /\ Running(i)
  /\ Expands(i, override)
  /\ audit' = audit \cup {[event |-> "nested_scope", parent |-> i, child |-> 0, held |-> caps[i],
                           requested |-> override, actual |-> None, expand |-> TRUE]}
  /\ UNCHANGED <<tools, pc, local, fault, answer, effects>>

-----------------------------------------------------------------------------
(* Leaving an invocation *)

Children(i) == {j \in Inv : parent[j] = i}

Succeed(i, from) ==
  /\ pc' = [pc EXCEPT ![i] = "ok"]
  /\ answer' = [answer EXCEPT ![i] = from]
  /\ UNCHANGED <<tools, local, fault, audit>>

(* Slip: the error is swallowed. *)
FailSilently(i, f) ==
  /\ pc' = [pc EXCEPT ![i] = "error"]
  /\ UNCHANGED <<tools, local, fault, answer, audit>>

Fail(i, f) ==
  /\ pc' = [pc EXCEPT ![i] = "error"]
  /\ fault' = [fault EXCEPT ![i] = f]
  /\ UNCHANGED <<tools, local, answer, audit>>

(* What Authorizer lets through: never more than the capabilities cover. *)
Grantable(i, needs) == needs \subseteq caps[i]

(* A tool that makes one access: refused, failed by the backend, or done. *)
Access(i) ==
  /\ Running(i)
  /\ Program[tool[i]] = "access"
  /\ \E needs \in Required[tool[i]] :
       \/ Fail(i, "denied") /\ UNCHANGED effects
       \/ Grantable(i, needs) /\ Fail(i, "execution") /\ UNCHANGED effects
       \/ /\ Grantable(i, needs)
          /\ Succeed(i, i)
          /\ effects' = effects \cup {[inv |-> i, needs |-> needs]}

(* Double: the tool under the payload, twice; an error of either call is   *)
(* its own, and the outcome is the second one's.                           *)
Double(i) == Running(i) /\ Program[tool[i]] = "double"

(* Slips: the first failure is retried; a third call is made. *)
DoubleRetry(i) ==
  /\ Double(i)
  /\ Cardinality(Children(i)) < 2
  /\ \A j \in Children(i) : ~Running(j)
  /\ Nest(i, Head(payload[i]), None, Tail(payload[i]))

DoubleThrice(i) ==
  /\ Double(i)
  /\ Cardinality(Children(i)) < 3
  /\ \A j \in Children(i) : pc[j] = "ok"
  /\ Nest(i, Head(payload[i]), None, Tail(payload[i]))

DoubleCall(i) ==
  /\ Double(i)
  /\ Cardinality(Children(i)) < 2
  /\ \A j \in Children(i) : pc[j] = "ok"
  /\ Nest(i, Head(payload[i]), None, Tail(payload[i]))

(* Slip: only the first call is checked. *)
DoubleFailFirst(i) ==
  /\ Double(i)
  /\ \E j \in Children(i) : Children(i) = {j} /\ pc[j] = "error" /\ Fail(i, fault[j])
  /\ UNCHANGED effects

DoubleFail(i) ==
  /\ Double(i)
  /\ \E j \in Children(i) : pc[j] = "error" /\ Fail(i, fault[j])
  /\ UNCHANGED effects

DoubleReturn(i) ==
  /\ Double(i)
  /\ \E first, second \in Children(i) :
       /\ first < second
       /\ pc[first] = "ok" /\ pc[second] = "ok"
       /\ Succeed(i, answer[second])
  /\ UNCHANGED effects

(* A tool of the host's own may access, nest and return as it likes; its   *)
(* failures, whatever their kind, are one fault.                           *)
Custom(i) == Running(i) /\ Program[tool[i]] = "custom"

CustomAccess(i) ==
  /\ Custom(i)
  /\ \E needs \in Required[tool[i]] :
       /\ Grantable(i, needs)
       /\ effects' = effects \cup {[inv |-> i, needs |-> needs]}
  /\ UNCHANGED <<tools, pc, local, fault, answer, audit>>

CustomNest(i) ==
  /\ Custom(i)
  /\ \E override \in Asks :
       \/ \E p \in Path, pay \in Payload : Nest(i, p, override, pay)
       \/ RefuseExpansion(i, override)

CustomReturn(i) ==
  /\ Custom(i)
  /\ \A j \in Children(i) : ~Running(j)
  /\ Succeed(i, i) \/ Fail(i, "execution")
  /\ UNCHANGED effects

(* The invocations below one, which the future of that one owns. *)
Above[i \in Inv] == IF parent[i] = 0 THEN {} ELSE {parent[i]} \cup Above[parent[i]]
Below(i) == {j \in Inv : i \in Above[j]}

(* Slip: only the invocation itself stops. *)
DropAlone(i) ==
  /\ Running(i)
  /\ parent[i] # 0 => Custom(parent[i])
  /\ pc' = [pc EXCEPT ![i] = "dropped"]
  /\ UNCHANGED <<tools, local, fault, answer, effects, audit>>

(* The caller from outside, or a custom tool, drops the future. *)
Drop(i) ==
  /\ Running(i)
  /\ parent[i] # 0 => Custom(parent[i])
  /\ pc' = [j \in Inv |-> IF j \in {i} \cup Below(i) /\ Running(j) THEN "dropped" ELSE pc[j]]
  /\ UNCHANGED <<tools, local, fault, answer, effects, audit>>

-----------------------------------------------------------------------------
Return(i) == Access(i) \/ DoubleCall(i) \/ DoubleFail(i) \/ DoubleReturn(i) \/ CustomReturn(i)

Next ==
  \/ \E p \in Path, t \in Tool : Register(p, t)
  \/ \E c \in Call, p \in Path, pay \in Payload, override \in Override :
       Invoke(c, p, override, pay)
  \/ \E i \in Inv : Return(i) \/ CustomAccess(i) \/ CustomNest(i) \/ Drop(i)

Safety == Init /\ [][Next]_vars

(* The executor polls what is running, backends answer, custom tools return. *)
Spec == Safety /\ \A i \in Inv : WF_vars(Return(i))

-----------------------------------------------------------------------------
(* Properties *)

Top(c) == {i \in Inv : call[i] = c /\ parent[i] = 0}

(* However deep the nesting and whatever the tools in between declare or   *)
(* ask for, nothing a call performs needs a capability the call itself was *)
(* not given (app/src/lib.rs invoke_tool).                                 *)
EffectsWithinCall ==
  \A e \in effects : \E t \in Top(call[e.inv]) : e.needs \subseteq caps[t]

(* The capabilities narrow on the way down: the inductive form of it.      *)
NestedWithinParent ==
  \A i \in Inv : parent[i] # 0 => caps[i] \subseteq caps[parent[i]]

(* The trail explains every capability set in use: a nested invocation has *)
(* one scope event, made with what its parent held, and an invocation that *)
(* runs with more than its tool declares has an override event; refused    *)
(* expansions did ask for more.                                            *)
Scopes == {e \in audit : e.event = "nested_scope"}
ScopesOf(i) == {e \in Scopes : e.child = i}

CapabilitiesAudited ==
  /\ \A i \in Inv : pc[i] # "unused" /\ parent[i] # 0 =>
       /\ Cardinality(ScopesOf(i)) = 1
       /\ \A e \in ScopesOf(i) : /\ e.parent = parent[i] /\ ~e.expand
                                 /\ caps[i] \subseteq e.actual[1]
                                 /\ e.actual[1] \subseteq e.held
                                 /\ e.held = caps[parent[i]]
  /\ \A i \in Inv : pc[i] # "unused" /\ tool[i] # NoTool =>
       (~(caps[i] \subseteq Declared[tool[i]]) <=> \E e \in audit \ Scopes : e.inv = i)
  /\ \A e \in ScopesOf(0) : e.expand /\ ~(e.requested[1] \subseteq e.held)

(* A settled Double made both calls and returns the second's outcome, or   *)
(* stopped at the first error and returns that (tool-builtin double.rs).   *)
SameInput(j, i) ==
  /\ tool[j] # NoTool => tool[j] = tools[Head(payload[i])]
  /\ payload[j] = Tail(payload[i])

DoubleIsTwice ==
  \A i \in Inv : tool[i] # NoTool /\ Program[tool[i]] = "double" =>
    /\ \A j \in Children(i) : SameInput(j, i)
    /\ pc[i] = "ok" =>
         \E first, second \in Children(i) :
           /\ Children(i) = {first, second} /\ first < second
           /\ pc[first] = "ok" /\ pc[second] = "ok"
           /\ answer[i] = answer[second]
    /\ pc[i] = "error" /\ Children(i) = {} => fault[i] \in EntryFault
    /\ pc[i] = "error" /\ Children(i) # {} =>
         \E last \in Children(i) :
           /\ pc[last] = "error" /\ fault[i] = fault[last]
           /\ \A j \in Children(i) \ {last} : j < last /\ pc[j] = "ok"

(* The work of a call is bounded by its input as long as it reaches no     *)
(* tool that nests on its own: each layer of the payload at most doubles   *)
(* it (tool-builtin double.rs).                                            *)
DoublesOnly(c) ==
  \A i \in Inv : call[i] = c /\ tool[i] # NoTool => Program[tool[i]] # "custom"

DoublingBound ==
  \A c \in Call : DoublesOnly(c) =>
    \A t \in Top(c) :
      Cardinality({i \in Inv : call[i] = c}) <= 2 ^ (Len(payload[t]) + 1) - 1

(* No invocation outlives the one it was made by.                          *)
NoneOutlivesParent ==
  \A i \in Inv : Running(i) /\ parent[i] # 0 => Running(parent[i])

(* Whatever the application does, MockKernel might have done, but for the  *)
(* overrides the application audits: what holds of every behaviour of the  *)
(* host in crates/test-support holds of this one.                          *)
Mock == INSTANCE MockHost WITH scopes <- Scopes
ImplementsMock == Mock!Spec

(* Every call comes back.                                                  *)
CallsReturn ==
  \A c \in Call : (\E i \in Top(c) : Running(i)) ~> ~(\E i \in Top(c) : Running(i))
=============================================================================
