-------------------------- MODULE AgentHostProofs --------------------------
(***************************************************************************)
(* Proofs about AgentHost, for any tools, capabilities and calls and any   *)
(* bound on the invocations: what a call may do, and that the host         *)
(* implements MockHost.                                                    *)
(***************************************************************************)
EXTENDS AgentHost, FiniteSetTheorems, TLAPS

(* The fields the capability argument needs, with their types.             *)
Shape ==
  /\ tools \in [Path -> Tool \cup {NoTool}]
  /\ pc \in [Inv -> {"unused", "running", "ok", "error", "dropped"}]
  /\ call \in [Inv -> Call \cup {NoCall}]
  /\ parent \in [Inv -> Inv \cup {0}]
  /\ caps \in [Inv -> SUBSET Capability]
  /\ tool \in [Inv -> Tool \cup {NoTool}]
  /\ payload \in [Inv -> Payload \cup {<<>>}]
  /\ effects \subseteq [inv : Inv, needs : SUBSET Capability]

(* A Double that runs has a path to call: parse_input saw to it. *)
HasInput(i) ==
  Running(i) /\ Program[tool[i]] = "double" => payload[i] \in Payload \ {<<>>}

Used(i) == pc[i] # "unused"

(* A used invocation belongs to a call, and the call's own invocation has  *)
(* at least its capabilities; effects stay within those of the invocation. *)
RootedIn(i, t) ==
  /\ Used(t) /\ parent[t] = 0 /\ call[t] = call[i]
  /\ caps[i] \subseteq caps[t]

Covered(i) == parent[i] # 0 => Used(parent[i]) /\ caps[i] \subseteq caps[parent[i]]

CapsInv ==
  /\ \A i \in Inv : Used(i) <=> call[i] # NoCall
  /\ \A i \in Inv : Used(i) => \E t \in Inv : RootedIn(i, t)
  /\ \A i \in Inv : Covered(i) /\ HasInput(i)
  /\ \A e \in effects : Used(e.inv) /\ e.needs \subseteq caps[e.inv]

Ind == Shape /\ CapsInv

(* Everything but entering an invocation leaves the tree as it is and only *)
(* ends invocations that are in use.                                       *)
TreeStable ==
  /\ UNCHANGED <<call, parent, caps, tool, payload>>
  /\ \A i \in Inv : (Used(i)' <=> Used(i)) /\ (Running(i)' => Running(i))

LEMMA StableStep ==
  ASSUME Ind, Shape', TreeStable,
         \A e \in effects' \ effects : Used(e.inv) /\ e.needs \subseteq caps[e.inv]
  PROVE  CapsInv'
<1>1. \A i \in Inv : Used(i)' <=> call'[i] # NoCall
  BY DEF Ind, CapsInv, TreeStable
<1>2. ASSUME NEW i \in Inv, Used(i)' PROVE \E t \in Inv : RootedIn(i, t)'
  <2>1. PICK t \in Inv : RootedIn(i, t)
    BY <1>2 DEF Ind, CapsInv, TreeStable
  <2>2. RootedIn(i, t)'
    BY <2>1 DEF RootedIn, TreeStable
  <2> QED BY <2>2
<1>3. ASSUME NEW e \in effects' PROVE Used(e.inv)' /\ e.needs \subseteq caps'[e.inv]
  <2>1. Used(e.inv) /\ e.needs \subseteq caps[e.inv]
    BY <1>3 DEF Ind, CapsInv
  <2>2. e.inv \in Inv
    BY <1>3 DEF Shape
  <2> QED BY <2>1, <2>2 DEF TreeStable
<1>4. \A i \in Inv : HasInput(i)'
  BY DEF Ind, CapsInv, HasInput, TreeStable
<1>5. \A i \in Inv : Covered(i)'
  BY DEF Ind, CapsInv, Covered, TreeStable, Shape
<1> QED BY <1>1, <1>2, <1>3, <1>4, <1>5 DEF CapsInv

(* Entering adds one invocation, rooted in its parent's root or in itself. *)
LEMMA EnterStep ==
  ASSUME Ind, NEW i \in Inv, NEW c \in Call, NEW par \in Inv \cup {0}, NEW p \in Path,
         NEW override \in Override, NEW pay \in Payload, NEW scope,
         Enter(i, c, par, p, override, pay, scope),
         par = 0 => \A j \in Inv : call[j] # c,
         par # 0 => /\ Used(par) /\ call[par] = c
                    /\ override # None /\ override[1] \subseteq caps[par]
  PROVE  Ind'
<1>1. PICK f \in EntryFaults(p, pay) :
        /\ caps' = [caps EXCEPT ![i] =
                      IF f \notin {"unknown_tool", "io"} THEN Effective(p, override) ELSE {}]
        /\ pc' = [pc EXCEPT ![i] = IF f = "none" THEN "running" ELSE "error"]
  BY DEF Enter
<1>2. /\ pc[i] = "unused" /\ ~Used(i) /\ call[i] = NoCall
      /\ call' = [call EXCEPT ![i] = c] /\ parent' = [parent EXCEPT ![i] = par]
      /\ tool' = [tool EXCEPT ![i] = tools[p]] /\ payload' = [payload EXCEPT ![i] = pay]
      /\ UNCHANGED <<tools, effects>>
  BY DEF Enter, Fresh, Used, Ind, CapsInv
<1>3. f # "unknown_tool" => Effective(p, override) \in SUBSET Capability
  <2>1. override # None => override[1] \in SUBSET Capability
    BY DEF Override, None, Some
  <2>2. f # "unknown_tool" => tools[p] \in Tool
    BY DEF EntryFaults, Ind, Shape
  <2> QED BY <2>1, <2>2, HostAssumption DEF Effective
<1>4. Shape'
  BY <1>1, <1>2, <1>3 DEF Ind, Shape
<1>5. /\ Used(i)' /\ call'[i] = c /\ parent'[i] = par
      /\ \A j \in Inv \ {i} : /\ Used(j)' <=> Used(j)
                              /\ call'[j] = call[j] /\ parent'[j] = parent[j]
                              /\ caps'[j] = caps[j]
  BY <1>1, <1>2 DEF Ind, Shape, Used
<1>6. \A j \in Inv : Used(j)' <=> call'[j] # NoCall
  BY <1>5, HostAssumption DEF Ind, CapsInv
<1>7. ASSUME NEW j \in Inv, NEW t \in Inv, Used(j), RootedIn(j, t) PROVE RootedIn(j, t)'
  BY <1>2, <1>5, <1>7 DEF RootedIn
<1>8. ASSUME NEW j \in Inv, Used(j)' PROVE \E t \in Inv : RootedIn(j, t)'
  <2>1. CASE j # i
    BY <1>5, <1>7, <1>8, <2>1 DEF Ind, CapsInv
  <2>2. CASE j = i /\ par = 0
    BY <1>5, <2>2 DEF RootedIn
  <2>3. CASE j = i /\ par # 0
    <3>1. par \in Inv /\ par # i
      BY <1>2, <2>3
    <3>2. PICK t \in Inv : RootedIn(par, t)
      BY <2>3, <3>1 DEF Ind, CapsInv
    <3>3. t # i
      BY <1>2, <3>2 DEF RootedIn
    <3>4. caps'[i] \subseteq caps[par]
      BY <1>1, <2>3 DEF Effective, Ind, Shape
    <3> QED BY <1>5, <2>3, <3>1, <3>2, <3>3, <3>4 DEF RootedIn
  <2> QED BY <2>1, <2>2, <2>3
<1>9. ASSUME NEW e \in effects' PROVE Used(e.inv)' /\ e.needs \subseteq caps'[e.inv]
  <2>1. e \in effects /\ e.inv \in Inv
    BY <1>2, <1>9 DEF Ind, Shape
  <2> QED BY <1>2, <1>5, <2>1 DEF Ind, CapsInv
<1>10. ASSUME NEW j \in Inv PROVE HasInput(j)'
  <2>1. CASE j # i
    BY <1>1, <1>2, <2>1 DEF HasInput, Running, Ind, Shape, CapsInv
  <2>2. CASE j = i /\ f = "none"
    <3>1. Program[tools[p]] = "double" => pay # <<>>
      BY <2>2 DEF EntryFaults, ParseFaults
    <3> QED BY <1>2, <2>2, <3>1 DEF HasInput, Ind, Shape
  <2>3. CASE j = i /\ f # "none"
    BY <1>1, <2>3 DEF HasInput, Running, Ind, Shape
  <2> QED BY <2>1, <2>2, <2>3
<1>11. ASSUME NEW j \in Inv PROVE Covered(j)'
  <2>1. CASE j # i
    <3>1. parent[j] # 0 => parent[j] \in Inv \ {i}
      BY <1>2, <2>1 DEF Covered, Ind, Shape, CapsInv
    <3> QED BY <1>5, <2>1, <3>1 DEF Covered, Ind, CapsInv
  <2>2. CASE j = i /\ par = 0
    BY <1>5, <2>2 DEF Covered
  <2>3. CASE j = i /\ par # 0
    <3>1. par \in Inv /\ par # i
      BY <1>2, <2>3
    <3>2. caps'[i] \subseteq caps[par]
      BY <1>1, <2>3 DEF Effective, Ind, Shape
    <3> QED BY <1>5, <2>3, <3>1, <3>2 DEF Covered
  <2> QED BY <2>1, <2>2, <2>3
<1> QED BY <1>4, <1>6, <1>8, <1>9, <1>10, <1>11 DEF Ind, CapsInv

LEMMA NestStep ==
  ASSUME Ind, NEW i \in Inv, NEW p \in Path, NEW override \in Override, NEW pay \in Payload,
         Nest(i, p, override, pay)
  PROVE  Ind'
<1>1. Running(i) /\ ~Expands(i, override)
  BY DEF Nest
<1>2. Used(i) /\ call[i] \in Call
  BY <1>1 DEF Running, Used, Ind, CapsInv, Shape
<1>3. ChildCaps(i, p, override) \subseteq caps[i] /\ ChildCaps(i, p, override) \in SUBSET Capability
  BY <1>1 DEF ChildCaps, Expands, Ind, Shape
<1>4. /\ Some(ChildCaps(i, p, override)) \in Override
      /\ Some(ChildCaps(i, p, override)) # None
      /\ Some(ChildCaps(i, p, override))[1] = ChildCaps(i, p, override)
  BY <1>3 DEF Override, Some, None
<1>5. PICK j \in Inv :
        Enter(j, call[i], i, p, Some(ChildCaps(i, p, override)), pay, Scope(i, j, p, override))
  BY DEF Nest
<1>6. i \in Inv \cup {0} /\ i # 0
  BY HostAssumption DEF Inv
<1> QED BY <1>2, <1>3, <1>4, <1>5, <1>6, EnterStep

LEMMA CapsInit == Init => Ind
<1> SUFFICES ASSUME Init PROVE Ind
  OBVIOUS
<1>1. Shape
  BY DEF Init, Shape
<1>2. \A i \in Inv : ~Used(i) /\ call[i] = NoCall
  BY DEF Init, Used
<1>3. effects = {}
  BY DEF Init
<1>4. \A i \in Inv : Covered(i) /\ HasInput(i)
  BY HostAssumption DEF Init, Covered, HasInput, Running
<1> QED BY <1>1, <1>2, <1>3, <1>4 DEF Ind, CapsInv

LEMMA CapsStep == Ind /\ [Next]_vars => Ind'
<1> SUFFICES ASSUME Ind, [Next]_vars PROVE Ind'
  OBVIOUS
<1>1. ASSUME NEW p \in Path, NEW t \in Tool, Register(p, t) PROVE Ind'
  <2>1. Shape' /\ TreeStable /\ effects' = effects
    BY <1>1 DEF Register, Ind, Shape, TreeStable, Used, Running, local
  <2> QED BY <2>1, StableStep DEF Ind
<1>2. ASSUME NEW c \in Call, NEW p \in Path, NEW pay \in Payload, NEW override \in Override,
             Invoke(c, p, override, pay)
      PROVE  Ind'
  BY <1>2, EnterStep DEF Invoke
<1>3. ASSUME NEW i \in Inv, Access(i) PROVE Ind'
  <2>1. PICK needs \in Required[tool[i]] :
          \/ Fail(i, "denied") /\ UNCHANGED effects
          \/ Grantable(i, needs) /\ Fail(i, "execution") /\ UNCHANGED effects
          \/ /\ Grantable(i, needs)
             /\ Succeed(i, i)
             /\ effects' = effects \cup {[inv |-> i, needs |-> needs]}
    BY <1>3 DEF Access
  <2>2. TreeStable /\ UNCHANGED tools
    BY <1>3, <2>1 DEF Access, Fail, Succeed, TreeStable, Used, Running, local, Ind, Shape
  <2>3. pc' \in [Inv -> {"unused", "running", "ok", "error", "dropped"}]
    BY <2>1 DEF Fail, Succeed, Ind, Shape
  <2>4. \A e \in effects' \ effects :
          /\ e.inv = i /\ Used(e.inv) /\ e.needs \subseteq caps[e.inv]
          /\ e \in [inv : Inv, needs : SUBSET Capability]
    BY <1>3, <2>1 DEF Access, Running, Grantable, Used, Ind, Shape
  <2>5. Shape'
    BY <2>2, <2>3, <2>4 DEF Ind, Shape, TreeStable
  <2> QED BY <2>2, <2>4, <2>5, StableStep DEF Ind
<1>4. ASSUME NEW i \in Inv, DoubleCall(i) PROVE Ind'
  <2>1. Running(i) /\ Program[tool[i]] = "double"
        /\ Nest(i, Head(payload[i]), None, Tail(payload[i]))
    BY <1>4 DEF DoubleCall, Double
  <2>2. payload[i] \in Payload \ {<<>>}
    BY <2>1 DEF Ind, CapsInv, HasInput
  <2>3. Head(payload[i]) \in Path /\ Tail(payload[i]) \in Payload
    BY <2>2, HostAssumption
  <2>4. None \in Override
    BY DEF Override
  <2> QED BY <2>1, <2>3, <2>4, NestStep
<1>5. ASSUME NEW i \in Inv, DoubleFail(i) \/ DoubleReturn(i) \/ CustomReturn(i) PROVE Ind'
  <2>1. /\ Running(i) /\ UNCHANGED <<tools, local, effects>>
        /\ pc' = [pc EXCEPT ![i] = "ok"] \/ pc' = [pc EXCEPT ![i] = "error"]
    BY <1>5 DEF DoubleFail, DoubleReturn, CustomReturn, Double, Custom, Fail, Succeed
  <2>2. Shape' /\ TreeStable
    BY <2>1 DEF TreeStable, Used, Running, local, Ind, Shape
  <2> QED BY <2>1, <2>2, StableStep DEF Ind
<1>6. ASSUME NEW i \in Inv, CustomAccess(i) PROVE Ind'
  <2>1. PICK needs \in Required[tool[i]] :
          /\ Grantable(i, needs)
          /\ effects' = effects \cup {[inv |-> i, needs |-> needs]}
    BY <1>6 DEF CustomAccess
  <2>2. TreeStable /\ UNCHANGED <<tools, pc>>
    BY <1>6 DEF CustomAccess, TreeStable, Used, Running, local
  <2>3. \A e \in effects' \ effects :
          /\ e.inv = i /\ Used(e.inv) /\ e.needs \subseteq caps[e.inv]
          /\ e \in [inv : Inv, needs : SUBSET Capability]
    BY <1>6, <2>1 DEF CustomAccess, Custom, Running, Grantable, Used, Ind, Shape
  <2>4. Shape'
    BY <2>2, <2>3 DEF Ind, Shape, TreeStable
  <2> QED BY <2>2, <2>3, <2>4, StableStep DEF Ind
<1>7. ASSUME NEW i \in Inv, CustomNest(i) PROVE Ind'
  <2>1. CASE \E override \in Asks, p \in Path, pay \in Payload : Nest(i, p, override, pay)
    BY <2>1, NestStep, HostAssumption
  <2>2. CASE \E override \in Asks : RefuseExpansion(i, override)
    <3>1. UNCHANGED <<tools, pc, local, effects>>
      BY <2>2 DEF RefuseExpansion
    <3>2. Shape' /\ TreeStable
      BY <3>1 DEF TreeStable, Used, Running, local, Ind, Shape
    <3> QED BY <3>1, <3>2, StableStep DEF Ind
  <2> QED BY <1>7, <2>1, <2>2 DEF CustomNest
<1>8. ASSUME NEW i \in Inv, Drop(i) PROVE Ind'
  <2>1. /\ UNCHANGED <<tools, local, effects>>
        /\ pc' = [j \in Inv |-> IF j \in {i} \cup Below(i) /\ Running(j) THEN "dropped" ELSE pc[j]]
    BY <1>8 DEF Drop
  <2>2. Shape' /\ TreeStable
    BY <2>1 DEF TreeStable, Used, Running, local, Ind, Shape
  <2> QED BY <2>1, <2>2, StableStep DEF Ind
<1>9. CASE UNCHANGED vars
  <2>1. Shape' /\ TreeStable /\ effects' = effects
    BY <1>9 DEF vars, local, TreeStable, Used, Running, Ind, Shape
  <2> QED BY <2>1, StableStep DEF Ind
<1> QED BY <1>1, <1>2, <1>3, <1>4, <1>5, <1>6, <1>7, <1>8, <1>9 DEF Next, Return

(* EffectsWithinCall for any depth of nesting: attenuation at each nested  *)
(* invocation (app/src/lib.rs invoke_tool) bounds the whole tree by the    *)
(* capabilities of the call from outside.                                  *)
THEOREM CallBoundsEffects == Spec => []EffectsWithinCall
<1>1. Ind => EffectsWithinCall
  <2> SUFFICES ASSUME Ind, NEW e \in effects
               PROVE  \E t \in Top(call[e.inv]) : e.needs \subseteq caps[t]
    BY DEF EffectsWithinCall
  <2>1. e.inv \in Inv /\ Used(e.inv) /\ e.needs \subseteq caps[e.inv]
    BY DEF Ind, Shape, CapsInv
  <2>2. PICK t \in Inv : RootedIn(e.inv, t)
    BY <2>1 DEF Ind, CapsInv
  <2>3. t \in Top(call[e.inv]) /\ e.needs \subseteq caps[t]
    BY <2>1, <2>2 DEF RootedIn, Top
  <2> QED BY <2>3
<1> QED BY <1>1, CapsInit, CapsStep, PTL DEF Spec, Safety

(* NestedWithinParent for any tree: capabilities only narrow downwards.    *)
THEOREM NestedNeverWidens == Spec => []NestedWithinParent
<1>1. Ind => NestedWithinParent
  BY DEF Ind, CapsInv, Covered, NestedWithinParent
<1> QED BY <1>1, CapsInit, CapsStep, PTL DEF Spec, Safety

-----------------------------------------------------------------------------
(* The fields of TypeOK that Shape leaves out: how invocations ended, and  *)
(* the trail.                                                              *)
Ended ==
  /\ fault \in [Inv -> Fault]
  /\ answer \in [Inv -> Inv \cup {0}]
  /\ \A i \in Inv : /\ (pc[i] = "error") = (fault[i] # "none")
                    /\ (pc[i] = "ok") = (answer[i] # 0)

Trail == audit \subseteq (OverrideEvent \cup ScopeEvent)

LEMMA EnterKeepsTypes ==
  ASSUME Ind, Ended, Trail, NEW i \in Inv, NEW c \in Call, NEW par \in Inv \cup {0},
         NEW p \in Path, NEW override \in Override, NEW pay \in Payload,
         NEW scope \in SUBSET ScopeEvent, Enter(i, c, par, p, override, pay, scope)
  PROVE  Ended' /\ Trail'
<1>1. PICK f \in EntryFaults(p, pay) :
        LET hasContext == f \notin {"unknown_tool", "io"}
            effective == IF hasContext THEN Effective(p, override) ELSE {}
        IN  /\ audit' = audit \cup scope \cup
                          (IF hasContext THEN OverrideEvents(i, p, effective) ELSE {})
            /\ pc' = [pc EXCEPT ![i] = IF f = "none" THEN "running" ELSE "error"]
            /\ fault' = [fault EXCEPT ![i] = f]
  BY DEF Enter
<1>2. pc[i] = "unused" /\ answer' = answer
  BY DEF Enter, Fresh
<1>3. f \in Fault
  BY DEF EntryFaults, ParseFaults, Fault
<1>4. Ended'
  BY <1>1, <1>2, <1>3 DEF Ended, Ind, Shape
<1>5. CASE f \in {"unknown_tool", "io"}
  BY <1>1, <1>4, <1>5 DEF Trail
<1>6. CASE f \notin {"unknown_tool", "io"}
  <2>1. tools[p] \in Tool
    BY <1>6 DEF EntryFaults, Ind, Shape
  <2>2. Declared[tools[p]] \in SUBSET Capability
    BY <2>1, HostAssumption
  <2>3. Effective(p, override) \in SUBSET Capability
    BY <2>2 DEF Effective, Override, None, Some
  <2>4. OverrideEvents(i, p, Effective(p, override)) \subseteq OverrideEvent
    BY <2>2, <2>3 DEF OverrideEvents, OverrideEvent
  <2> QED BY <1>1, <1>4, <1>6, <2>4 DEF Trail
<1> QED BY <1>5, <1>6

LEMMA NestKeepsTypes ==
  ASSUME Ind, Ended, Trail, NEW i \in Inv, NEW p \in Path, NEW override \in Override,
         NEW pay \in Payload, Nest(i, p, override, pay)
  PROVE  Ended' /\ Trail'
<1>1. PICK j \in Inv :
        Enter(j, call[i], i, p, Some(ChildCaps(i, p, override)), pay, Scope(i, j, p, override))
  BY DEF Nest
<1>2. Running(i) /\ ~Expands(i, override)
  BY DEF Nest
<1>3. call[i] \in Call
  BY <1>2 DEF Running, Used, Ind, CapsInv, Shape
<1>4. ChildCaps(i, p, override) \in SUBSET Capability /\ caps[i] \in SUBSET Capability
  BY <1>2 DEF ChildCaps, Expands, Ind, Shape
<1>5. Some(ChildCaps(i, p, override)) \in Override
  BY <1>4 DEF Override, Some
<1>6. Scope(i, j, p, override) \subseteq ScopeEvent
  BY <1>4, <1>5 DEF Scope, ScopeEvent
<1> QED BY <1>1, <1>3, <1>5, <1>6, EnterKeepsTypes

LEMMA TypesStep == Ind /\ Ended /\ Trail /\ [Next]_vars => Ended' /\ Trail'
<1> SUFFICES ASSUME Ind, Ended, Trail, [Next]_vars PROVE Ended' /\ Trail'
  OBVIOUS
<1>1. ASSUME NEW p \in Path, NEW t \in Tool, Register(p, t) PROVE Ended' /\ Trail'
  BY <1>1 DEF Register, Ended, Trail
<1>2. ASSUME NEW c \in Call, NEW p \in Path, NEW pay \in Payload, NEW override \in Override,
             Invoke(c, p, override, pay)
      PROVE  Ended' /\ Trail'
  BY <1>2, EnterKeepsTypes DEF Invoke
<1>3. ASSUME NEW i \in Inv, Running(i),
             \/ \E f \in Fault \ {"none"} : Fail(i, f)
             \/ \E from \in Inv : Succeed(i, from)
      PROVE  Ended' /\ Trail'
  <2>1. CASE \E f \in Fault \ {"none"} : Fail(i, f)
    BY <1>3, <2>1 DEF Fail, Running, Ended, Trail, Ind, Shape
  <2>2. CASE \E from \in Inv : Succeed(i, from)
    <3>1. PICK from \in Inv : Succeed(i, from)
      BY <2>2
    <3>2. from # 0
      BY HostAssumption DEF Inv
    <3> QED BY <1>3, <3>1, <3>2 DEF Succeed, Running, Ended, Trail, Ind, Shape
  <2> QED BY <1>3, <2>1, <2>2
<1>4. ASSUME NEW i \in Inv, Access(i) PROVE Ended' /\ Trail'
  <2>1. Running(i) /\ (Fail(i, "denied") \/ Fail(i, "execution") \/ Succeed(i, i))
    BY <1>4 DEF Access
  <2> QED BY <1>3, <2>1 DEF Fault
<1>5. ASSUME NEW i \in Inv, DoubleCall(i) PROVE Ended' /\ Trail'
  <2>1. Running(i) /\ Program[tool[i]] = "double"
        /\ Nest(i, Head(payload[i]), None, Tail(payload[i]))
    BY <1>5 DEF DoubleCall, Double
  <2>2. payload[i] \in Payload \ {<<>>}
    BY <2>1 DEF Ind, CapsInv, HasInput
  <2>3. Head(payload[i]) \in Path /\ Tail(payload[i]) \in Payload
    BY <2>2, HostAssumption
  <2> QED BY <2>1, <2>3, NestKeepsTypes DEF Override
<1>6. ASSUME NEW i \in Inv, DoubleFail(i) PROVE Ended' /\ Trail'
  <2>1. PICK j \in Children(i) : pc[j] = "error" /\ Fail(i, fault[j])
    BY <1>6 DEF DoubleFail
  <2>2. fault[j] \in Fault \ {"none"}
    BY <2>1 DEF Children, Ended
  <2> QED BY <1>3, <1>6, <2>1, <2>2 DEF DoubleFail, Double
<1>7. ASSUME NEW i \in Inv, DoubleReturn(i) PROVE Ended' /\ Trail'
  <2>1. PICK second \in Children(i) : pc[second] = "ok" /\ Succeed(i, answer[second])
    BY <1>7 DEF DoubleReturn
  <2>2. answer[second] \in Inv
    BY <2>1 DEF Children, Ended
  <2> QED BY <1>3, <1>7, <2>1, <2>2 DEF DoubleReturn, Double
<1>8. ASSUME NEW i \in Inv, CustomReturn(i) PROVE Ended' /\ Trail'
  BY <1>3, <1>8 DEF CustomReturn, Custom, Fault
<1>9. ASSUME NEW i \in Inv, CustomAccess(i) PROVE Ended' /\ Trail'
  BY <1>9 DEF CustomAccess, Ended, Trail
<1>10. ASSUME NEW i \in Inv, CustomNest(i) PROVE Ended' /\ Trail'
  <2>1. ASSUME NEW override \in Asks, NEW p \in Path, NEW pay \in Payload,
               Nest(i, p, override, pay)
        PROVE  Ended' /\ Trail'
    BY <2>1, NestKeepsTypes, HostAssumption
  <2>2. ASSUME NEW override \in Asks, RefuseExpansion(i, override) PROVE Ended' /\ Trail'
    <3>1. Ended'
      BY <2>2 DEF RefuseExpansion, Ended
    <3>2. [event |-> "nested_scope", parent |-> i, child |-> 0, held |-> caps[i],
           requested |-> override, actual |-> None, expand |-> TRUE] \in ScopeEvent
      BY HostAssumption DEF ScopeEvent, Override, Ind, Shape
    <3> QED BY <2>2, <3>1, <3>2 DEF RefuseExpansion, Trail
  <2> QED BY <1>10, <2>1, <2>2 DEF CustomNest
<1>11. ASSUME NEW i \in Inv, Drop(i) PROVE Ended' /\ Trail'
  BY <1>11 DEF Drop, Running, Ended, Trail, Ind, Shape
<1>12. CASE UNCHANGED vars
  BY <1>12 DEF vars, Ended, Trail
<1> QED BY <1>1, <1>2, <1>4, <1>5, <1>6, <1>7, <1>8, <1>9, <1>10, <1>11, <1>12 DEF Next, Return

(* TypeOK, and with it that an invocation has a fault exactly if it failed *)
(* and an answer exactly if it succeeded (core tool/adapter.rs).           *)
THEOREM HostTypes == Spec => []TypeOK
<1>1. Init => Ended /\ Trail
  BY DEF Init, Ended, Trail, Fault
<1>2. Ind /\ Ended /\ Trail => TypeOK
  BY DEF Ind, Shape, Ended, Trail, TypeOK
<1> QED BY <1>1, <1>2, CapsInit, CapsStep, TypesStep, PTL DEF Spec, Safety

-----------------------------------------------------------------------------
(* The application host implements the host of the tests.                  *)
(*                                                                         *)
(* A tool of MockHost does not return before what it awaits.  A Double and *)
(* a tool of one access keep to that because of how they nest, which the   *)
(* invariant says.                                                         *)

IsDouble(i) == Program[tool[i]] = "double"
Siblings(i, j, k) == parent[j] = i /\ parent[k] = i /\ j # k

(* A tool of one access nests nothing; a Double makes at most two calls,   *)
(* and the second only after the first succeeded.                          *)
NestingInv ==
  /\ \A i, j \in Inv : parent[j] = i => Used(i) /\ Program[tool[i]] # "access"
  /\ \A i, j, k \in Inv : IsDouble(i) /\ Siblings(i, j, k) =>
       /\ ~(Running(j) /\ pc[k] # "ok")
       /\ \A l \in Inv : parent[l] = i => l \in {j, k}

RInd == Ind /\ NestingInv

(* What an outcome or the end of a future leaves as it is.                 *)
OkStable == \A i \in Inv : pc[i] = "ok" => pc'[i] = "ok"

LEMMA NestingStable ==
  ASSUME RInd, TreeStable, OkStable
  PROVE  NestingInv'
<1>1. ASSUME NEW i \in Inv, NEW j \in Inv, parent'[j] = i
      PROVE  Used(i)' /\ Program[tool'[i]] # "access"
  BY <1>1 DEF RInd, NestingInv, TreeStable
<1>2. ASSUME NEW i \in Inv, NEW j \in Inv, NEW k \in Inv, IsDouble(i)', Siblings(i, j, k)'
      PROVE  /\ ~(Running(j)' /\ pc'[k] # "ok")
             /\ \A l \in Inv : parent'[l] = i => l \in {j, k}
  <2>1. IsDouble(i) /\ Siblings(i, j, k)
    BY <1>2 DEF IsDouble, Siblings, TreeStable
  <2>2. /\ ~(Running(j) /\ pc[k] # "ok")
        /\ \A l \in Inv : parent[l] = i => l \in {j, k}
    BY <2>1 DEF RInd, NestingInv
  <2> QED BY <2>2 DEF TreeStable, OkStable
<1> QED BY <1>1, <1>2 DEF NestingInv

(* What the parent owes when an invocation is entered below it.            *)
MayNest(par) ==
  /\ Running(par) /\ Program[tool[par]] # "access"
  /\ IsDouble(par) => \A j, k \in Children(par) : pc[j] = "ok" /\ j = k

LEMMA NestingEnter ==
  ASSUME RInd, NEW i \in Inv, NEW c \in Call, NEW par \in Inv \cup {0}, NEW p \in Path,
         NEW override \in Override, NEW pay \in Payload, NEW scope,
         Enter(i, c, par, p, override, pay, scope),
         par # 0 => MayNest(par)
  PROVE  NestingInv'
<1>1. /\ ~Used(i) /\ Used(i)'
      /\ parent' = [parent EXCEPT ![i] = par] /\ tool' = [tool EXCEPT ![i] = tools[p]]
      /\ \A j \in Inv \ {i} : pc'[j] = pc[j]
  BY DEF Enter, Fresh, Used, RInd, Ind, Shape
<1>2. \A j \in Inv : parent[j] # i
  BY <1>1 DEF RInd, NestingInv
<1>3. par # i
  BY <1>1, HostAssumption DEF MayNest, Running, Used, Inv
<1>4. \A j \in Inv : parent'[j] # i
  BY <1>1, <1>2, <1>3 DEF RInd, Ind, Shape
<1>5. \A j \in Inv \ {i} : parent'[j] = parent[j] /\ tool'[j] = tool[j]
  BY <1>1 DEF RInd, Ind, Shape
<1>6. parent'[i] = par
  BY <1>1 DEF RInd, Ind, Shape
<1>7. ASSUME NEW a \in Inv, NEW j \in Inv, parent'[j] = a
      PROVE  Used(a)' /\ Program[tool'[a]] # "access"
  <2>1. a # i
    BY <1>4, <1>7
  <2>2. CASE j = i
    BY <1>1, <1>5, <1>6, <1>7, <2>1, <2>2, HostAssumption DEF MayNest, Running, Used, Inv
  <2>3. CASE j # i
    BY <1>1, <1>5, <1>7, <2>1, <2>3 DEF RInd, NestingInv, Used
  <2> QED BY <2>2, <2>3
<1>8. ASSUME NEW a \in Inv, NEW j \in Inv, NEW k \in Inv, IsDouble(a)', Siblings(a, j, k)'
      PROVE  /\ ~(Running(j)' /\ pc'[k] # "ok")
             /\ \A l \in Inv : parent'[l] = a => l \in {j, k}
  <2>1. a # i /\ IsDouble(a) /\ a # 0
    BY <1>4, <1>5, <1>8, HostAssumption DEF IsDouble, Siblings, Inv
  <2>2. CASE j # i /\ k # i
    <3>1. Siblings(a, j, k)
      BY <1>5, <1>8, <2>2 DEF Siblings
    <3>2. par # a
      BY <1>6, <2>1, <2>2, <3>1 DEF MayNest, Children, Siblings
    <3> QED BY <1>1, <1>5, <1>6, <2>1, <2>2, <3>1, <3>2 DEF RInd, NestingInv, Running
  <2>3. CASE j = i \/ k = i
    <3>1. par = a /\ MayNest(a)
      BY <1>6, <1>8, <2>1, <2>3 DEF Siblings
    <3>2. \A l, m \in Inv \ {i} : parent[l] = a /\ parent[m] = a => pc[l] = "ok" /\ l = m
      BY <2>1, <3>1 DEF MayNest, Children
    <3> QED BY <1>1, <1>5, <1>6, <1>8, <2>3, <3>2 DEF Siblings, Running
  <2> QED BY <2>2, <2>3
<1> QED BY <1>7, <1>8 DEF NestingInv

LEMMA AboveSame == Mock!Above = Above
  BY DEF Mock!Above, Above, Mock!Inv, Inv

(* Entering maps to entering, and adds the scope event it was given.       *)
LEMMA MockEnters ==
  ASSUME RInd, NEW i \in Inv, NEW c \in Call, NEW par \in Inv \cup {0}, NEW p \in Path,
         NEW override \in Override, NEW pay \in Payload, NEW scope,
         Enter(i, c, par, p, override, pay, scope)
  PROVE  /\ Mock!Enter(i, c, par, p, override)
         /\ Scopes' = Scopes \cup {e \in scope : e.event = "nested_scope"}
<1>1. PICK f \in EntryFaults(p, pay) :
        LET hasContext == f \notin {"unknown_tool", "io"}
            effective == IF hasContext THEN Effective(p, override) ELSE {}
        IN  /\ caps' = [caps EXCEPT ![i] = effective]
            /\ audit' = audit \cup scope \cup
                          (IF hasContext THEN OverrideEvents(i, p, effective) ELSE {})
            /\ pc' = [pc EXCEPT ![i] = IF f = "none" THEN "running" ELSE "error"]
            /\ fault' = [fault EXCEPT ![i] = f]
  BY DEF Enter
<1>2. /\ pc[i] = "unused"
      /\ call' = [call EXCEPT ![i] = c] /\ parent' = [parent EXCEPT ![i] = par]
      /\ tool' = [tool EXCEPT ![i] = tools[p]]
      /\ UNCHANGED <<tools, effects>>
  BY DEF Enter, Fresh
<1>3. f = "unknown_tool" <=> tools[p] = NoTool
  BY DEF EntryFaults, ParseFaults
<1>4. Effective(p, override) = Mock!Effective(p, override)
  BY DEF Effective, Mock!Effective, None
<1>5. Mock!Enter(i, c, par, p, override)
  BY <1>1, <1>2, <1>3, <1>4 DEF Mock!Enter
<1>6. \A e \in OverrideEvents(i, p, Effective(p, override)) : e.event # "nested_scope"
  BY DEF OverrideEvents
<1>7. Scopes' = Scopes \cup {e \in scope : e.event = "nested_scope"}
  BY <1>1, <1>6 DEF Scopes
<1> QED BY <1>5, <1>7

LEMMA NestMaps ==
  ASSUME RInd, NEW i \in Inv, NEW p \in Path, NEW override \in Override, NEW pay \in Payload,
         Nest(i, p, override, pay), MayNest(i)
  PROVE  NestingInv' /\ Mock!Next
<1>1. PICK j \in Inv :
        Enter(j, call[i], i, p, Some(ChildCaps(i, p, override)), pay, Scope(i, j, p, override))
  BY DEF Nest
<1>2. Running(i) /\ ~Expands(i, override)
  BY DEF Nest
<1>3. call[i] \in Call
  BY <1>2 DEF RInd, Ind, CapsInv, Shape, Used, Running
<1>4. ChildCaps(i, p, override) \subseteq caps[i] /\ ChildCaps(i, p, override) \in SUBSET Capability
  BY <1>2 DEF ChildCaps, Expands, RInd, Ind, Shape
<1>5. Some(ChildCaps(i, p, override)) \in Override
  BY <1>4 DEF Override, Some
<1>6. NestingInv'
  BY <1>1, <1>3, <1>5, NestingEnter
<1>7. /\ Mock!Enter(j, call[i], i, p, Some(ChildCaps(i, p, override)))
      /\ Scopes' = Scopes \cup {e \in Scope(i, j, p, override) : e.event = "nested_scope"}
  BY <1>1, <1>3, <1>5, MockEnters
<1>8. {e \in Scope(i, j, p, override) : e.event = "nested_scope"} = Scope(i, j, p, override)
  BY DEF Scope
<1>9. Mock!Nest(i, j, p, override)
  BY <1>2, <1>4, <1>7, <1>8 DEF Mock!Nest, Mock!Running, Running, ChildCaps, Scope, Some, None
<1>10. override \in Mock!Override
  BY DEF Override, Mock!Override, Some, None
<1> QED BY <1>6, <1>9, <1>10 DEF Mock!Next, Mock!Inv, Inv

(* Ending or going on without touching the tree maps to the work of a tool. *)
LEMMA WorkMaps ==
  ASSUME RInd, NEW i \in Inv, Running(i), UNCHANGED <<tools, local, audit>>,
         \/ UNCHANGED effects
         \/ \E needs \in SUBSET caps[i] : effects' = effects \cup {[inv |-> i, needs |-> needs]},
         \/ UNCHANGED pc
         \/ /\ \A j \in Inv : parent[j] = i => ~Running(j)
            /\ \E how \in {"ok", "error"} : pc' = [pc EXCEPT ![i] = how]
  PROVE  NestingInv' /\ Mock!Next
<1>1. TreeStable /\ OkStable
  BY DEF TreeStable, OkStable, Used, Running, local, RInd, Ind, Shape
<1>2. NestingInv'
  BY <1>1, NestingStable
<1>3. Mock!Work(i)
  BY DEF Mock!Work, Mock!Running, Mock!Inv, Mock!tree, Running, Inv, Scopes, local
<1> QED BY <1>2, <1>3 DEF Mock!Next, Mock!Inv, Inv

LEMMA FewChildren ==
  ASSUME RInd, NEW i \in Inv, Cardinality(Children(i)) < 2, NEW j \in Children(i), NEW k \in Children(i)
  PROVE  j = k
<1> SUFFICES ASSUME j # k PROVE FALSE
  OBVIOUS
<1>1. IsFiniteSet(Inv)
  BY HostAssumption, FS_Interval DEF Inv
<1>2. IsFiniteSet(Children(i))
  BY <1>1, FS_Subset DEF Children
<1>3. {j, k} \subseteq Children(i)
  OBVIOUS
<1>4. Cardinality({j, k}) <= Cardinality(Children(i))
  BY <1>2, <1>3, FS_Subset
<1>5. Cardinality({j, k}) = 2
  <2>1. IsFiniteSet({j}) /\ Cardinality({j}) = 1
    BY FS_Singleton
  <2>2. Cardinality({j} \cup {k}) = Cardinality({j}) + 1
    BY <2>1, FS_AddElement
  <2>3. {j} \cup {k} = {j, k}
    OBVIOUS
  <2> QED BY <2>1, <2>2, <2>3
<1>6. Cardinality(Children(i)) \in Nat
  BY <1>2, FS_CardinalityType
<1> QED BY <1>4, <1>5, <1>6

(* No call of a Double is running once one failed, or once two succeeded. *)
LEMMA DoubleSettled ==
  ASSUME RInd, NEW i \in Inv, IsDouble(i),
         \/ \E j \in Children(i) : pc[j] = "error"
         \/ \E j, k \in Children(i) : j # k /\ pc[j] = "ok" /\ pc[k] = "ok"
  PROVE  \A l \in Inv : parent[l] = i => ~Running(l)
<1> SUFFICES ASSUME NEW l \in Inv, parent[l] = i, Running(l) PROVE FALSE
  OBVIOUS
<1>1. CASE \E j \in Children(i) : pc[j] = "error"
  <2>1. PICK j \in Children(i) : pc[j] = "error"
    BY <1>1
  <2>2. j \in Inv /\ Siblings(i, l, j)
    BY <2>1 DEF Children, Siblings, Running
  <2> QED BY <2>1, <2>2 DEF RInd, NestingInv
<1>2. CASE \E j, k \in Children(i) : j # k /\ pc[j] = "ok" /\ pc[k] = "ok"
  <2>1. PICK j, k \in Children(i) : j # k /\ pc[j] = "ok" /\ pc[k] = "ok"
    BY <1>2
  <2>2. j \in Inv /\ k \in Inv /\ Siblings(i, j, k)
    BY <2>1 DEF Children, Siblings
  <2>3. l \in {j, k}
    BY <2>2 DEF RInd, NestingInv
  <2> QED BY <2>1, <2>3 DEF Running
<1> QED BY <1>1, <1>2

LEMMA RefinementInit == Init => NestingInv /\ Mock!Init
<1> SUFFICES ASSUME Init PROVE NestingInv /\ Mock!Init
  OBVIOUS
<1>1. \A i \in Inv : parent[i] = 0 /\ i # 0
  BY HostAssumption DEF Init, Inv
<1>2. NestingInv
  BY <1>1 DEF NestingInv, Siblings
<1>3. Mock!Init
  BY DEF Init, Mock!Init, Inv, Mock!Inv, Scopes
<1> QED BY <1>2, <1>3

LEMMA RefinementStep == RInd /\ [Next]_vars => NestingInv' /\ [Mock!Next]_(Mock!vars)
<1> SUFFICES ASSUME RInd, [Next]_vars PROVE NestingInv' /\ [Mock!Next]_(Mock!vars)
  OBVIOUS
<1>1. ASSUME NEW p \in Path, NEW t \in Tool, Register(p, t) PROVE NestingInv' /\ Mock!Next
  <2>1. TreeStable /\ OkStable
    BY <1>1 DEF Register, TreeStable, OkStable, Used, Running, local
  <2>2. Mock!Register(p, t)
    BY <1>1 DEF Register, Mock!Register, Mock!Running, Running, Mock!Inv, Inv, Mock!tree,
                local, Scopes
  <2> QED BY <2>1, <2>2, NestingStable DEF Mock!Next
<1>2. ASSUME NEW c \in Call, NEW p \in Path, NEW pay \in Payload, NEW override \in Override,
             Invoke(c, p, override, pay)
      PROVE  NestingInv' /\ Mock!Next
  <2>1. PICK i \in Inv : Enter(i, c, 0, p, override, pay, {})
    BY <1>2 DEF Invoke
  <2>2. NestingInv'
    BY <2>1, NestingEnter
  <2>3. Mock!Enter(i, c, 0, p, override) /\ Scopes' = Scopes
    BY <2>1, MockEnters
  <2>4. Mock!Invoke(i, c, p, override)
    BY <1>2, <2>3 DEF Invoke, Mock!Invoke, Mock!Inv, Inv
  <2>5. override \in Mock!Override
    BY DEF Override, Mock!Override, Some, None
  <2> QED BY <2>2, <2>4, <2>5 DEF Mock!Next, Mock!Inv, Inv
<1>3. ASSUME NEW i \in Inv, Access(i) PROVE NestingInv' /\ Mock!Next
  <2>1. PICK needs \in Required[tool[i]] :
          \/ Fail(i, "denied") /\ UNCHANGED effects
          \/ Grantable(i, needs) /\ Fail(i, "execution") /\ UNCHANGED effects
          \/ /\ Grantable(i, needs)
             /\ Succeed(i, i)
             /\ effects' = effects \cup {[inv |-> i, needs |-> needs]}
    BY <1>3 DEF Access
  <2>2. \A j \in Inv : parent[j] = i => ~Running(j)
    BY <1>3 DEF Access, RInd, NestingInv
  <2>3. /\ Running(i) /\ UNCHANGED <<tools, local, audit>>
        /\ \E how \in {"ok", "error"} : pc' = [pc EXCEPT ![i] = how]
        /\ \/ UNCHANGED effects
           \/ \E n \in SUBSET caps[i] : effects' = effects \cup {[inv |-> i, needs |-> n]}
    BY <1>3, <2>1 DEF Access, Fail, Succeed, Grantable
  <2> QED BY <2>2, <2>3, WorkMaps
<1>4. ASSUME NEW i \in Inv, DoubleCall(i) PROVE NestingInv' /\ Mock!Next
  <2>1. /\ Running(i) /\ Program[tool[i]] = "double"
        /\ Cardinality(Children(i)) < 2
        /\ \A j \in Children(i) : pc[j] = "ok"
        /\ Nest(i, Head(payload[i]), None, Tail(payload[i]))
    BY <1>4 DEF DoubleCall, Double
  <2>2. payload[i] \in Payload \ {<<>>}
    BY <2>1 DEF RInd, Ind, CapsInv, HasInput
  <2>3. Head(payload[i]) \in Path /\ Tail(payload[i]) \in Payload
    BY <2>2, HostAssumption
  <2>4. MayNest(i)
    BY <2>1, FewChildren DEF MayNest
  <2> QED BY <2>1, <2>3, <2>4, NestMaps DEF Override
<1>5. ASSUME NEW i \in Inv, DoubleFail(i) \/ DoubleReturn(i) PROVE NestingInv' /\ Mock!Next
  <2>1. IsDouble(i) /\ Running(i)
    BY <1>5 DEF DoubleFail, DoubleReturn, Double, IsDouble
  <2>2. /\ UNCHANGED <<tools, local, audit, effects>>
        /\ \E how \in {"ok", "error"} : pc' = [pc EXCEPT ![i] = how]
    BY <1>5 DEF DoubleFail, DoubleReturn, Fail, Succeed
  <2>3. \/ \E j \in Children(i) : pc[j] = "error"
        \/ \E j, k \in Children(i) : j # k /\ pc[j] = "ok" /\ pc[k] = "ok"
    BY <1>5 DEF DoubleFail, DoubleReturn, Children, Inv
  <2> QED BY <2>1, <2>2, <2>3, DoubleSettled, WorkMaps
<1>6. ASSUME NEW i \in Inv, CustomReturn(i) PROVE NestingInv' /\ Mock!Next
  <2>1. \A j \in Inv : parent[j] = i => ~Running(j)
    BY <1>6 DEF CustomReturn, Children
  <2>2. /\ Running(i) /\ UNCHANGED <<tools, local, audit, effects>>
        /\ \E how \in {"ok", "error"} : pc' = [pc EXCEPT ![i] = how]
    BY <1>6 DEF CustomReturn, Custom, Fail, Succeed
  <2> QED BY <2>1, <2>2, WorkMaps
<1>7. ASSUME NEW i \in Inv, CustomAccess(i) PROVE NestingInv' /\ Mock!Next
  <2>1. /\ Running(i) /\ UNCHANGED <<tools, local, audit, pc>>
        /\ \E n \in SUBSET caps[i] : effects' = effects \cup {[inv |-> i, needs |-> n]}
    BY <1>7 DEF CustomAccess, Custom, Grantable
  <2> QED BY <2>1, WorkMaps
<1>8. ASSUME NEW i \in Inv, CustomNest(i) PROVE NestingInv' /\ Mock!Next
  <2>1. MayNest(i)
    BY <1>8 DEF CustomNest, Custom, MayNest, IsDouble
  <2>2. ASSUME NEW override \in Asks, NEW p \in Path, NEW pay \in Payload,
               Nest(i, p, override, pay)
        PROVE  NestingInv' /\ Mock!Next
    BY <2>1, <2>2, NestMaps, HostAssumption
  <2>3. ASSUME NEW override \in Asks, RefuseExpansion(i, override)
        PROVE  NestingInv' /\ Mock!Next
    <3>1. TreeStable /\ OkStable
      BY <2>3 DEF RefuseExpansion, TreeStable, OkStable, Used, Running, local
    <3>2. Mock!RefuseExpansion(i, override)
      BY <2>3 DEF RefuseExpansion, Expands, Mock!RefuseExpansion, Mock!Running, Running,
                  Mock!tree, local, Scopes, None
    <3>3. override \in Mock!Override
      BY HostAssumption DEF Override, Mock!Override, Some, None
    <3> QED BY <3>1, <3>2, <3>3, NestingStable DEF Mock!Next, Mock!Inv, Inv
  <2> QED BY <1>8, <2>2, <2>3 DEF CustomNest
<1>9. ASSUME NEW i \in Inv, Drop(i) PROVE NestingInv' /\ Mock!Next
  <2>1. /\ Running(i) /\ UNCHANGED <<tools, local, effects, audit>>
        /\ pc' = [j \in Inv |-> IF j \in {i} \cup Below(i) /\ Running(j) THEN "dropped" ELSE pc[j]]
    BY <1>9 DEF Drop
  <2>2. TreeStable /\ OkStable
    BY <2>1 DEF TreeStable, OkStable, Used, Running, local
  <2>3. \A j \in Inv : j \in {i} \cup Below(i) <=> j = i \/ i \in Mock!Above[j]
    BY AboveSame DEF Below
  <2>4. Mock!Drop(i)
    BY <2>1, <2>3 DEF Mock!Drop, Mock!Running, Running, Mock!Inv, Inv, Mock!tree, local, Scopes
  <2> QED BY <2>2, <2>4, NestingStable DEF Mock!Next, Mock!Inv, Inv
<1>10. CASE UNCHANGED vars
  <2>1. TreeStable /\ OkStable
    BY <1>10 DEF vars, local, TreeStable, OkStable, Used, Running
  <2>2. UNCHANGED Mock!vars
    BY <1>10 DEF vars, local, Mock!vars, Mock!tree, Scopes
  <2> QED BY <2>1, <2>2, NestingStable
<1> QED BY <1>1, <1>2, <1>3, <1>4, <1>5, <1>6, <1>7, <1>8, <1>9, <1>10 DEF Next, Return

(* The application implements the host of the tests, for any tools, depth  *)
(* and number of calls: what MockKernel lets a tool do in a test           *)
(* (test-support/src/lib.rs) covers what App does with it.                 *)
THEOREM AppImplementsMock == Spec => ImplementsMock
<1>1. RInd /\ [Next]_vars => RInd'
  BY CapsStep, RefinementStep DEF RInd
<1>2. Init => RInd /\ Mock!Init
  BY CapsInit, RefinementInit DEF RInd
<1>3. RInd /\ [Next]_vars => [Mock!Next]_(Mock!vars)
  BY RefinementStep
<1> QED BY <1>1, <1>2, <1>3, PTL DEF Spec, Safety, ImplementsMock, Mock!Spec
=============================================================================
