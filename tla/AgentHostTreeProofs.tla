------------------------- MODULE AgentHostTreeProofs -------------------------
(***************************************************************************)
(* Proofs about the tree of invocations AgentHost grows, for any tools and *)
(* any bound on the invocations: what the trail says of it, that a future  *)
(* dropped takes down what is below, and what a Double makes of its input. *)
(***************************************************************************)
EXTENDS AgentHostProofs, NumberLemmas

-----------------------------------------------------------------------------
(* The kinds of step                                                       *)

(* A running invocation makes another; a Double only under its payload.    *)
Nests(i, j, p, override, pay) ==
  /\ MayNest(i) /\ ~Expands(i, override)
  /\ IsDouble(i) => /\ payload[i] \in Payload \ {<<>>}
                    /\ p = Head(payload[i]) /\ pay = Tail(payload[i])
  /\ Enter(j, call[i], i, p, Some(ChildCaps(i, p, override)), pay, Scope(i, j, p, override))

Calm(i) == \A l \in Inv : parent[l] = i => ~Running(l)

(* An invocation comes to its end with none running below it.              *)
Ends(i) ==
  /\ Running(i) /\ Calm(i) /\ UNCHANGED <<tools, local, audit>>
  /\ \/ \E f \in Fault \ {"none"} : Fail(i, f)
     \/ \E from \in Inv : Succeed(i, from)
  /\ IsDouble(i) => DoubleFail(i) \/ DoubleReturn(i)

(* Nothing happens to the tree, and the trail at most notes a refusal.     *)
Refusal(e) == e \in ScopeEvent /\ e.child = 0 /\ e.expand /\ ~(e.requested[1] \subseteq e.held)

Rests ==
  /\ UNCHANGED <<tools, pc, local, fault, answer>>
  /\ \A e \in audit : e \in audit'
  /\ \A e \in audit' : e \in audit \/ Refusal(e)

LEMMA StepKinds ==
  ASSUME RInd, Ended, [Next]_vars
  PROVE  \/ \E p \in Path, t \in Tool : Register(p, t)
         \/ \E i \in Inv, c \in Call, p \in Path, override \in Override, pay \in Payload :
              Enter(i, c, 0, p, override, pay, {}) /\ \A k \in Inv : call[k] # c
         \/ \E i, j \in Inv, p \in Path, override \in Override, pay \in Payload :
              Nests(i, j, p, override, pay)
         \/ \E i \in Inv : Ends(i) \/ Drop(i)
         \/ Rests
<1>1. ASSUME NEW c \in Call, NEW p \in Path, NEW pay \in Payload, NEW override \in Override,
             Invoke(c, p, override, pay)
      PROVE  \E i \in Inv :
               Enter(i, c, 0, p, override, pay, {}) /\ \A k \in Inv : call[k] # c
  BY <1>1 DEF Invoke
<1>2. ASSUME NEW i \in Inv, Access(i) PROVE Ends(i)
  <2>1. /\ Running(i) /\ Program[tool[i]] = "access"
        /\ Fail(i, "denied") \/ Fail(i, "execution") \/ Succeed(i, i)
    BY <1>2 DEF Access
  <2>2. Calm(i)
    BY <2>1 DEF RInd, NestingInv, Calm
  <2>3. ~IsDouble(i)
    BY <2>1 DEF IsDouble
  <2>4. UNCHANGED <<tools, local, audit>>
    BY <2>1 DEF Fail, Succeed
  <2> QED BY <2>1, <2>2, <2>3, <2>4 DEF Ends, Fault
<1>3. ASSUME NEW i \in Inv, DoubleCall(i)
      PROVE  \E j \in Inv, p \in Path, override \in Override, pay \in Payload :
               Nests(i, j, p, override, pay)
  <2>1. /\ Running(i) /\ Program[tool[i]] = "double"
        /\ Cardinality(Children(i)) < 2
        /\ \A j \in Children(i) : pc[j] = "ok"
        /\ Nest(i, Head(payload[i]), None, Tail(payload[i]))
    BY <1>3 DEF DoubleCall, Double
  <2>2. payload[i] \in Payload \ {<<>>}
    BY <2>1 DEF RInd, Ind, CapsInv, HasInput
  <2>3. Head(payload[i]) \in Path /\ Tail(payload[i]) \in Payload /\ None \in Override
    BY <2>2, HostAssumption DEF Override
  <2>4. MayNest(i)
    BY <2>1, FewChildren DEF MayNest
  <2>5. \E j \in Inv : Nests(i, j, Head(payload[i]), None, Tail(payload[i]))
    BY <2>1, <2>2, <2>4 DEF Nest, Nests
  <2> QED BY <2>3, <2>5
<1>4. ASSUME NEW i \in Inv, DoubleFail(i) \/ DoubleReturn(i) PROVE Ends(i)
  <2>1. IsDouble(i) /\ Running(i)
    BY <1>4 DEF DoubleFail, DoubleReturn, Double, IsDouble
  <2>2. \/ \E j \in Children(i) : pc[j] = "error"
        \/ \E j, k \in Children(i) : j # k /\ pc[j] = "ok" /\ pc[k] = "ok"
    BY <1>4 DEF DoubleFail, DoubleReturn, Children, Inv
  <2>3. Calm(i)
    BY <2>1, <2>2, DoubleSettled DEF Calm
  <2>4. \/ \E f \in Fault \ {"none"} : Fail(i, f)
        \/ \E from \in Inv : Succeed(i, from)
    <3>1. CASE DoubleFail(i)
      <4>1. PICK j \in Children(i) : pc[j] = "error" /\ Fail(i, fault[j])
        BY <3>1 DEF DoubleFail
      <4>2. fault[j] \in Fault \ {"none"}
        BY <4>1 DEF Children, Ended
      <4> QED BY <4>1, <4>2
    <3>2. CASE DoubleReturn(i)
      <4>1. PICK k \in Children(i) : pc[k] = "ok" /\ Succeed(i, answer[k])
        BY <3>2 DEF DoubleReturn
      <4>2. answer[k] \in Inv
        BY <4>1 DEF Children, Ended
      <4> QED BY <4>1, <4>2
    <3> QED BY <1>4, <3>1, <3>2
  <2>5. UNCHANGED <<tools, local, audit>>
    BY <2>4 DEF Fail, Succeed
  <2> QED BY <1>4, <2>1, <2>3, <2>4, <2>5 DEF Ends
<1>5. ASSUME NEW i \in Inv, CustomReturn(i) PROVE Ends(i)
  <2>1. Running(i) /\ Calm(i) /\ ~IsDouble(i) /\ (Succeed(i, i) \/ Fail(i, "execution"))
    BY <1>5 DEF CustomReturn, Custom, Children, Calm, IsDouble
  <2>2. UNCHANGED <<tools, local, audit>>
    BY <2>1 DEF Fail, Succeed
  <2> QED BY <2>1, <2>2 DEF Ends, Fault
<1>6. ASSUME NEW i \in Inv, CustomAccess(i) PROVE Rests
  BY <1>6 DEF CustomAccess, Rests
<1>7. ASSUME NEW i \in Inv, CustomNest(i)
      PROVE  \/ \E j \in Inv, p \in Path, override \in Override, pay \in Payload :
                  Nests(i, j, p, override, pay)
             \/ Rests
  <2>1. MayNest(i) /\ ~IsDouble(i)
    BY <1>7 DEF CustomNest, Custom, MayNest, IsDouble
  <2>2. ASSUME NEW override \in Asks, NEW p \in Path, NEW pay \in Payload,
               Nest(i, p, override, pay)
        PROVE  \E j \in Inv : Nests(i, j, p, override, pay)
    BY <2>1, <2>2 DEF Nest, Nests
  <2>3. ASSUME NEW override \in Asks, RefuseExpansion(i, override) PROVE Rests
    <3> DEFINE e == [event |-> "nested_scope", parent |-> i, child |-> 0, held |-> caps[i],
                     requested |-> override, actual |-> None, expand |-> TRUE]
    <3>1. e \in ScopeEvent
      BY HostAssumption DEF ScopeEvent, Override, RInd, Ind, Shape
    <3>2. Refusal(e)
      BY <2>3, <3>1 DEF Refusal, RefuseExpansion, Expands
    <3>3. /\ audit' = audit \cup {e}
          /\ UNCHANGED <<tools, pc, local, fault, answer>>
      BY <2>3 DEF RefuseExpansion
    <3> QED BY <3>2, <3>3 DEF Rests
  <2> QED BY <1>7, <2>2, <2>3, HostAssumption DEF CustomNest
<1>8. CASE UNCHANGED vars
  BY <1>8 DEF vars, Rests
<1> QED BY <1>1, <1>2, <1>3, <1>4, <1>5, <1>6, <1>7, <1>8 DEF Next, Return

LEMMA ChildOverride ==
  ASSUME Ind, NEW i \in Inv, Running(i), NEW p \in Path, NEW override \in Override,
         ~Expands(i, override)
  PROVE  /\ call[i] \in Call
         /\ Some(ChildCaps(i, p, override)) \in Override
         /\ ChildCaps(i, p, override) \subseteq caps[i]
<1>1. call[i] \in Call
  BY DEF Running, Used, Ind, CapsInv, Shape
<1>2. ChildCaps(i, p, override) \subseteq caps[i] /\ ChildCaps(i, p, override) \in SUBSET Capability
  BY DEF ChildCaps, Expands, Ind, Shape
<1> QED BY <1>1, <1>2 DEF Override, Some

(* Invocations take their places in order.                                 *)
Prefix == \A j, k \in Inv : k < j /\ Used(j) => Used(k)

(* What entering does to the tree: one invocation more, after all others,  *)
(* with none below it.                                                     *)
Entered(i, c, par, p, pay) ==
  /\ ~Used(i) /\ Used(i)' /\ \A j \in Inv \ {i} : Used(j) => j < i
  /\ \A j \in Inv : parent[j] # i
  /\ call'[i] = c /\ parent'[i] = par /\ tool'[i] = tools[p] /\ payload'[i] = pay
  /\ \A j \in Inv \ {i} : /\ pc'[j] = pc[j] /\ parent'[j] = parent[j]
                          /\ call'[j] = call[j]
                          /\ tool'[j] = tool[j] /\ payload'[j] = payload[j]
                          /\ caps'[j] = caps[j] /\ fault'[j] = fault[j]
                          /\ answer'[j] = answer[j]
  /\ pc'[i] \in {"running", "error"}
  /\ pc'[i] = "running" => tools[p] # NoTool
  /\ pc'[i] = "error" => fault'[i] \in EntryFault
  /\ tools' = tools

LEMMA EnterFacts ==
  ASSUME RInd, Ended, Prefix, NEW i \in Inv, NEW c \in Call, NEW par \in Inv \cup {0},
         NEW p \in Path, NEW override \in Override, NEW pay \in Payload, NEW scope,
         Enter(i, c, par, p, override, pay, scope)
  PROVE  Entered(i, c, par, p, pay)
<1>1. PICK f \in EntryFaults(p, pay) :
        /\ caps' = [caps EXCEPT ![i] =
                      IF f \notin {"unknown_tool", "io"} THEN Effective(p, override) ELSE {}]
        /\ pc' = [pc EXCEPT ![i] = IF f = "none" THEN "running" ELSE "error"]
        /\ fault' = [fault EXCEPT ![i] = f]
  BY DEF Enter
<1>2. /\ pc[i] = "unused"
      /\ call' = [call EXCEPT ![i] = c] /\ parent' = [parent EXCEPT ![i] = par]
      /\ tool' = [tool EXCEPT ![i] = tools[p]] /\ payload' = [payload EXCEPT ![i] = pay]
      /\ answer' = answer /\ tools' = tools
  BY DEF Enter, Fresh
<1>3. ~Used(i) /\ Used(i)' /\ pc'[i] \in {"running", "error"}
  BY <1>1, <1>2 DEF Used, RInd, Ind, Shape
<1>4. ASSUME NEW j \in Inv \ {i}, Used(j) PROVE j < i
  BY <1>3, <1>4 DEF Prefix, Inv
<1>5. \A j \in Inv : parent[j] # i
  BY <1>3 DEF RInd, NestingInv
<1>6. call'[i] = c /\ parent'[i] = par /\ tool'[i] = tools[p] /\ payload'[i] = pay
  BY <1>2 DEF RInd, Ind, Shape
<1>7. \A j \in Inv \ {i} : /\ pc'[j] = pc[j] /\ parent'[j] = parent[j]
                           /\ call'[j] = call[j]
                           /\ tool'[j] = tool[j] /\ payload'[j] = payload[j]
                           /\ caps'[j] = caps[j] /\ fault'[j] = fault[j]
                           /\ answer'[j] = answer[j]
  BY <1>1, <1>2 DEF RInd, Ind, Shape, Ended
<1>8. pc'[i] = "error" => fault'[i] \in EntryFault
  BY <1>1 DEF EntryFaults, ParseFaults, EntryFault, RInd, Ind, Shape, Ended
<1>9. pc'[i] = "running" => tools[p] # NoTool
  BY <1>1 DEF EntryFaults, RInd, Ind, Shape
<1> QED BY <1>2, <1>3, <1>4, <1>5, <1>6, <1>7, <1>8, <1>9 DEF Entered

-----------------------------------------------------------------------------
(* What a dropped future takes with it                                     *)

(* Above is a recursive function.  It has the value its definition calls   *)
(* for: the least set of ancestors solves the equation.                    *)
LEMMA AboveUnfolds ==
  ASSUME parent \in [Inv -> Inv \cup {0}], NEW j \in Inv
  PROVE  Above[j] = IF parent[j] = 0 THEN {} ELSE {parent[j]} \cup Above[parent[j]]
<1> DEFINE Upward(S) == \A k \in S : parent[k] # 0 => parent[k] \in S
           Holds(i, S) == S \subseteq Inv /\ Upward(S) /\ (parent[i] # 0 => parent[i] \in S)
           least == [i \in Inv |-> {k \in Inv : \A S \in SUBSET Inv : Holds(i, S) => k \in S}]
           Unfolds(f) == f = [i \in Inv |-> IF parent[i] = 0 THEN {}
                                            ELSE {parent[i]} \cup f[parent[i]]]
<1>1. ASSUME NEW i \in Inv, parent[i] = 0 PROVE least[i] = {}
  <2>1. Holds(i, {}) /\ {} \in SUBSET Inv
    BY <1>1
  <2>2. least[i] = {k \in Inv : \A S \in SUBSET Inv : Holds(i, S) => k \in S}
    OBVIOUS
  <2>3. \A k \in least[i] : \A S \in SUBSET Inv : Holds(i, S) => k \in S
    BY <2>2
  <2> HIDE DEF least, Holds
  <2>4. \A k \in least[i] : k \in {}
    BY <2>1, <2>3
  <2> QED BY <2>4
<1>2. ASSUME NEW i \in Inv, parent[i] # 0
      PROVE  least[i] = {parent[i]} \cup least[parent[i]]
  <2> DEFINE p == parent[i]
  <2>1. p \in Inv
    BY <1>2
  <2>2. p \in least[i]
    BY <1>2, <2>1
  <2>3. ASSUME NEW k \in least[p] PROVE k \in least[i]
    <3>1. k \in Inv
      BY <2>1
    <3>2. ASSUME NEW S \in SUBSET Inv, Holds(i, S) PROVE k \in S
      <4>1. p \in S /\ Upward(S)
        BY <1>2, <3>2
      <4>2. Holds(p, S)
        BY <4>1
      <4> QED BY <2>1, <2>3, <4>2
    <3> QED BY <3>1, <3>2
  <2>4. ASSUME NEW k \in least[i], k # p PROVE k \in least[p]
    <3>1. k \in Inv
      OBVIOUS
    <3>2. ASSUME NEW S \in SUBSET Inv, Holds(p, S) PROVE k \in S
      <4>1. S \cup {p} \in SUBSET Inv
        BY <2>1
      <4>2. Upward(S \cup {p})
        BY <3>2
      <4>3. Holds(i, S \cup {p})
        BY <4>1, <4>2
      <4>4. k \in S \cup {p}
        BY <4>1, <4>3
      <4> QED BY <2>4, <4>4
    <3> QED BY <2>1, <3>1, <3>2
  <2> QED BY <2>2, <2>3, <2>4
<1>3. Unfolds(least)
  <2> DEFINE right == [i \in Inv |-> IF parent[i] = 0 THEN {}
                                     ELSE {parent[i]} \cup least[parent[i]]]
  <2>1. \A i \in Inv : least[i] = right[i]
    <3> HIDE DEF least
    <3> QED BY <1>1, <1>2
  <2>2. least = right
    <3>1. least = [i \in Inv |-> least[i]]
      OBVIOUS
    <3>2. [i \in Inv |-> least[i]] = [i \in Inv |-> right[i]]
      BY <2>1
    <3> QED BY <3>1, <3>2
  <2> QED BY <2>2
<1>4. Above = CHOOSE f : Unfolds(f)
  BY DEF Above
<1> HIDE DEF least, Unfolds
<1>5. Unfolds(Above)
  BY <1>3, <1>4
<1> QED BY <1>5 DEF Unfolds

(* NoneOutlivesParent for any depth: an invocation ends with none running  *)
(* below it, and a future dropped takes every one below with it.           *)
LEMMA OutliveStep ==
  ASSUME RInd, Ended, Prefix, NoneOutlivesParent, [Next]_vars
  PROVE  NoneOutlivesParent'
<1> SUFFICES ASSUME NEW j \in Inv, Running(j)', parent'[j] # 0
             PROVE  Running(parent[j])'
  BY DEF NoneOutlivesParent
<1>1. \A k \in Inv : Running(k) /\ parent[k] # 0 => Running(parent[k]) /\ parent[k] \in Inv
  BY DEF NoneOutlivesParent, RInd, Ind, Shape
<1>2. ASSUME NEW i \in Inv, NEW c \in Call, NEW par \in Inv \cup {0}, NEW p \in Path,
             NEW override \in Override, NEW pay \in Payload, NEW scope,
             Enter(i, c, par, p, override, pay, scope), par # 0 => Running(par)
      PROVE  Running(parent[j])'
  <2>1. Entered(i, c, par, p, pay)
    BY <1>2, EnterFacts
  <2>2. ~Used(i) /\ parent'[i] = par
    BY <2>1 DEF Entered
  <2>3. \A k \in Inv \ {i} : pc'[k] = pc[k] /\ parent'[k] = parent[k]
    BY <2>1 DEF Entered
  <2>4. CASE j = i
    BY <1>2, <2>2, <2>3, <2>4 DEF Running, Used
  <2>5. CASE j # i
    BY <1>1, <2>2, <2>3, <2>5 DEF Running, Used
  <2> QED BY <2>4, <2>5
<1>3. ASSUME NEW i \in Inv, Ends(i) PROVE Running(parent[j])'
  <2>1. /\ Calm(i) /\ parent' = parent
        /\ pc' = [pc EXCEPT ![i] = "ok"] \/ pc' = [pc EXCEPT ![i] = "error"]
    BY <1>3 DEF Ends, Fail, Succeed, local
  <2>2. Running(j) /\ parent[j] # i
    BY <2>1 DEF Running, Calm, RInd, Ind, Shape
  <2> QED BY <1>1, <2>1, <2>2 DEF Running, RInd, Ind, Shape
<1>4. ASSUME NEW i \in Inv, Drop(i) PROVE Running(parent[j])'
  <2>1. /\ parent' = parent
        /\ pc' = [k \in Inv |-> IF k \in {i} \cup Below(i) /\ Running(k) THEN "dropped" ELSE pc[k]]
    BY <1>4 DEF Drop, local
  <2>2. Running(j) /\ j \notin {i} \cup Below(i)
    BY <2>1 DEF Running
  <2>3. Running(parent[j]) /\ parent[j] \in Inv
    BY <1>1, <2>1, <2>2
  <2>4. Above[j] = {parent[j]} \cup Above[parent[j]]
    BY <2>1, AboveUnfolds DEF RInd, Ind, Shape
  <2>5. parent[j] \notin {i} \cup Below(i)
    BY <2>2, <2>3, <2>4 DEF Below
  <2> QED BY <2>1, <2>3, <2>5 DEF Running
<1>5. CASE \E p \in Path, t \in Tool : Register(p, t)
  BY <1>1, <1>5 DEF Register, Running, local
<1>6. CASE Rests
  BY <1>1, <1>6 DEF Rests, Running, local
<1>7. ASSUME NEW i \in Inv, NEW k \in Inv, NEW p \in Path, NEW override \in Override,
             NEW pay \in Payload, Nests(i, k, p, override, pay)
      PROVE  Running(parent[j])'
  <2>1. Running(i) /\ ~Expands(i, override)
    BY <1>7 DEF Nests, MayNest
  <2>2. call[i] \in Call /\ Some(ChildCaps(i, p, override)) \in Override
    BY <2>1, ChildOverride DEF RInd
  <2> QED BY <1>2, <1>7, <2>1, <2>2 DEF Nests
<1> QED BY <1>2, <1>3, <1>4, <1>5, <1>6, <1>7, StepKinds

-----------------------------------------------------------------------------
(* What a Double makes of its input                                        *)

Result(i) ==
  /\ pc[i] = "ok" =>
       \E first, second \in Children(i) :
         /\ Children(i) = {first, second} /\ first < second
         /\ pc[first] = "ok" /\ pc[second] = "ok"
         /\ answer[i] = answer[second]
  /\ pc[i] = "error" /\ Children(i) = {} => fault[i] \in EntryFault
  /\ pc[i] = "error" /\ Children(i) # {} =>
       \E last \in Children(i) :
         /\ pc[last] = "error" /\ fault[i] = fault[last]
         /\ \A j \in Children(i) \ {last} : j < last /\ pc[j] = "ok"

(* Ids are drawn in order, so a Double's second call is the later one; it  *)
(* is made after the first succeeded, and of a tool that stays registered. *)
Unparented == \A i \in Inv : ~Used(i) => parent[i] = 0

DoubleInv ==
  /\ Prefix /\ Unparented
  /\ \A i, j \in Inv : IsDouble(i) /\ parent[j] = i =>
       payload[i] \in Payload \ {<<>>} /\ SameInput(j, i)
  /\ \A i, j, k \in Inv : IsDouble(i) /\ Siblings(i, j, k) /\ j < k => pc[j] = "ok"
  /\ \A i \in Inv : IsDouble(i) => Result(i)

(* How an invocation ended stays as it is. *)
EndStable ==
  \A j \in Inv : /\ pc[j] = "ok" => pc'[j] = "ok" /\ answer'[j] = answer[j]
                 /\ pc[j] = "error" => pc'[j] = "error" /\ fault'[j] = fault[j]

(* No step but i's own end gives i an outcome. *)
StillOpen(i) ==
  /\ pc'[i] = "ok" => pc[i] = "ok"
  /\ pc'[i] = "error" => pc[i] = "error"

LEMMA ResultStable ==
  ASSUME EndStable, NEW i \in Inv, Result(i), StillOpen(i), Children(i)' = Children(i)
  PROVE  Result(i)'
<1> DEFINE C == Children(i)
<1>1. C \subseteq Inv /\ Children(i)' = C
  BY DEF Children
<1>2. ASSUME pc'[i] = "ok"
      PROVE  \E first, second \in C :
               /\ C = {first, second} /\ first < second
               /\ pc'[first] = "ok" /\ pc'[second] = "ok"
               /\ answer'[i] = answer'[second]
  <2>1. pc[i] = "ok" /\ answer'[i] = answer[i]
    BY <1>2 DEF EndStable, StillOpen
  <2>2. PICK first, second \in C :
          /\ C = {first, second} /\ first < second
          /\ pc[first] = "ok" /\ pc[second] = "ok"
          /\ answer[i] = answer[second]
    BY <2>1 DEF Result
  <2> HIDE DEF C
  <2>3. pc'[first] = "ok" /\ pc'[second] = "ok" /\ answer'[second] = answer[second]
    BY <1>1, <2>2 DEF EndStable
  <2> QED BY <2>1, <2>2, <2>3
<1>3. ASSUME pc'[i] = "error" PROVE pc[i] = "error" /\ fault'[i] = fault[i]
  BY <1>3 DEF EndStable, StillOpen
<1>4. ASSUME pc'[i] = "error", C # {}
      PROVE  \E last \in C :
               /\ pc'[last] = "error" /\ fault'[i] = fault'[last]
               /\ \A j \in C \ {last} : j < last /\ pc'[j] = "ok"
  <2>1. PICK last \in C :
          /\ pc[last] = "error" /\ fault[i] = fault[last]
          /\ \A j \in C \ {last} : j < last /\ pc[j] = "ok"
    BY <1>3, <1>4 DEF Result
  <2> HIDE DEF C
  <2>2. pc'[last] = "error" /\ fault'[last] = fault[last]
    BY <1>1, <2>1 DEF EndStable
  <2>3. \A j \in C \ {last} : pc'[j] = "ok"
    BY <1>1, <2>1 DEF EndStable
  <2> QED BY <1>3, <1>4, <2>1, <2>2, <2>3
<1>5. pc'[i] = "error" /\ C = {} => fault'[i] \in EntryFault
  BY <1>3 DEF Result
<1> HIDE DEF C
<1> QED BY <1>1, <1>2, <1>4, <1>5 DEF Result

(* A Double that returns has the outcome of its second call, and one that  *)
(* fails that of the first call that did.                                  *)
LEMMA DoubleResult ==
  ASSUME RInd, Ended, DoubleInv, NEW i \in Inv, IsDouble(i), Ends(i), EndStable
  PROVE  Result(i)'
<1>1. /\ Children(i)' = Children(i) /\ Children(i) \subseteq Inv
      /\ \A j \in Children(i) : parent[j] = i /\ j # i
  BY DEF Ends, Children, local, Calm
<1>2. \A j, k \in Children(i) : j # k => Siblings(i, j, k)
  BY <1>1 DEF Siblings
<1>3. CASE DoubleFail(i)
  <2>1. PICK last \in Children(i) : pc[last] = "error" /\ Fail(i, fault[last])
    BY <1>3 DEF DoubleFail
  <2>2. pc'[i] = "error" /\ fault'[i] = fault[last]
    BY <2>1 DEF Fail, Ends, Running, RInd, Ind, Shape, Ended
  <2>3. pc'[last] = "error" /\ fault'[last] = fault[last]
    BY <1>1, <2>1 DEF EndStable
  <2>4. ASSUME NEW j \in Children(i) \ {last} PROVE j < last /\ pc'[j] = "ok"
    <3>1. j \in Inv /\ last \in Inv /\ j # last /\ Siblings(i, j, last) /\ Siblings(i, last, j)
      BY <1>1, <1>2, <2>1 DEF Siblings
    <3>2. ~(last < j)
      BY <2>1, <3>1 DEF DoubleInv
    <3>3. j < last
      BY <3>1, <3>2 DEF Inv
    <3>4. pc[j] = "ok"
      BY <3>1, <3>3 DEF DoubleInv
    <3> QED BY <3>1, <3>3, <3>4 DEF EndStable
  <2> QED BY <1>1, <2>1, <2>2, <2>3, <2>4 DEF Result
<1>4. CASE DoubleReturn(i)
  <2>1. PICK first, second \in Children(i) :
          /\ first < second /\ pc[first] = "ok" /\ pc[second] = "ok"
          /\ Succeed(i, answer[second])
    BY <1>4 DEF DoubleReturn
  <2>2. pc'[i] = "ok" /\ answer'[i] = answer[second]
    BY <2>1, <1>4 DEF Succeed, Ends, Running, RInd, Ind, Shape, Ended
  <2>3. first # second
    BY <1>1, <2>1 DEF Inv
  <2>4. Children(i) = {first, second}
    <3>1. Siblings(i, first, second)
      BY <1>2, <2>1, <2>3
    <3>2. \A l \in Inv : parent[l] = i => l \in {first, second}
      BY <1>1, <3>1 DEF RInd, NestingInv
    <3> QED BY <1>1, <2>1, <3>2
  <2>5. pc'[first] = "ok" /\ pc'[second] = "ok" /\ answer'[second] = answer[second]
    BY <1>1, <2>1 DEF EndStable
  <2> QED BY <1>1, <2>1, <2>2, <2>4, <2>5 DEF Result
<1> QED BY <1>3, <1>4 DEF Ends

(* A path that resolves to a tool keeps doing so.                          *)
ToolsStay == \A p \in Path : tools[p] # NoTool => tools'[p] = tools[p]

LEMMA DoubleStable ==
  ASSUME RInd, DoubleInv, UNCHANGED <<parent, tool, payload>>, ToolsStay, EndStable,
         \A i \in Inv : Used(i)' <=> Used(i),
         \A i \in Inv : IsDouble(i) => Result(i)'
  PROVE  DoubleInv'
<1>1. Prefix' /\ Unparented'
  BY DEF DoubleInv, Prefix, Unparented
<1>2. ASSUME NEW i \in Inv, NEW j \in Inv, IsDouble(i)', parent'[j] = i
      PROVE  payload'[i] \in Payload \ {<<>>} /\ SameInput(j, i)'
  <2>1. payload[i] \in Payload \ {<<>>} /\ SameInput(j, i)
    BY <1>2 DEF DoubleInv, IsDouble
  <2>2. Head(payload[i]) \in Path
    BY <2>1, HostAssumption
  <2> QED BY <2>1, <2>2 DEF SameInput, ToolsStay
<1>3. ASSUME NEW i \in Inv, NEW j \in Inv, NEW k \in Inv, IsDouble(i)', Siblings(i, j, k)', j < k
      PROVE  pc'[j] = "ok"
  BY <1>3 DEF DoubleInv, IsDouble, Siblings, EndStable
<1>4. \A i \in Inv : IsDouble(i)' => Result(i)'
  BY DEF IsDouble
<1> QED BY <1>1, <1>2, <1>3, <1>4 DEF DoubleInv

(* An invocation entered is the last of its siblings.                      *)
LEMMA DoubleEnter ==
  ASSUME RInd, Ended, DoubleInv, NEW i \in Inv, NEW c \in Call, NEW par \in Inv \cup {0},
         NEW p \in Path, NEW override \in Override, NEW pay \in Payload, NEW scope,
         Enter(i, c, par, p, override, pay, scope),
         par # 0 => MayNest(par),
         par # 0 /\ IsDouble(par) => /\ payload[par] \in Payload \ {<<>>}
                                     /\ p = Head(payload[par]) /\ pay = Tail(payload[par])
  PROVE  DoubleInv'
<1>0. Entered(i, c, par, p, pay)
  BY EnterFacts DEF DoubleInv
<1>1. ~Used(i) /\ Used(i)' /\ \A j \in Inv \ {i} : Used(j) => j < i
  BY <1>0 DEF Entered
<1>2. /\ \A j \in Inv : parent[j] # i
      /\ parent'[i] = par /\ tool'[i] = tools[p] /\ payload'[i] = pay /\ tools' = tools
  BY <1>0 DEF Entered
<1>3. \A j \in Inv \ {i} : /\ pc'[j] = pc[j] /\ parent'[j] = parent[j]
                           /\ tool'[j] = tool[j] /\ payload'[j] = payload[j]
                           /\ fault'[j] = fault[j] /\ answer'[j] = answer[j]
  BY <1>0 DEF Entered
<1>4. pc'[i] \in {"running", "error"} /\ (pc'[i] = "error" => fault'[i] \in EntryFault)
  BY <1>0 DEF Entered
<1>5. par # i /\ i # 0 /\ (par # 0 => par \in Inv)
  BY <1>1, HostAssumption DEF MayNest, Running, Used, Inv
<1>6. \A j \in Inv : parent'[j] # i
  BY <1>2, <1>3, <1>5
<1>7. EndStable
  BY <1>1, <1>3 DEF EndStable, Used
<1>8. Prefix'
  <2> SUFFICES ASSUME NEW j \in Inv, NEW k \in Inv, k < j, Used(j)' PROVE Used(k)'
    BY DEF Prefix
  <2>1. CASE k = i
    BY <1>1, <2>1
  <2>2. CASE k # i /\ j # i
    BY <1>3, <2>2 DEF DoubleInv, Prefix, Used
  <2>3. CASE k # i /\ j = i
    <3>1. k \in 1..(i - 1)
      BY <2>3 DEF Inv
    <3>2. Used(k)
      BY <3>1 DEF Enter, Fresh, Used
    <3> QED BY <1>3, <2>3, <3>2 DEF Used
  <2> QED BY <2>1, <2>2, <2>3
<1>9. ASSUME NEW a \in Inv, NEW j \in Inv, IsDouble(a)', parent'[j] = a
      PROVE  payload'[a] \in Payload \ {<<>>} /\ SameInput(j, a)'
  <2>1. a # i /\ IsDouble(a) /\ payload'[a] = payload[a] /\ a # 0
    BY <1>3, <1>6, <1>9, HostAssumption DEF IsDouble, Inv
  <2>2. CASE j = i
    BY <1>2, <1>9, <2>1, <2>2 DEF SameInput
  <2>3. CASE j # i
    BY <1>2, <1>3, <1>9, <2>1, <2>3 DEF DoubleInv, SameInput
  <2> QED BY <2>2, <2>3
<1>10. ASSUME NEW a \in Inv, NEW j \in Inv, NEW k \in Inv, IsDouble(a)', Siblings(a, j, k)', j < k
       PROVE  pc'[j] = "ok"
  <2>1. a # i /\ IsDouble(a) /\ a # 0 /\ parent'[j] = a /\ parent'[k] = a /\ j # k
    BY <1>3, <1>6, <1>10, HostAssumption DEF IsDouble, Siblings, Inv
  <2>2. CASE j = i
    <3>1. k # i /\ parent[k] = a
      BY <1>3, <2>1, <2>2
    <3>2. par = a /\ pc[k] = "ok"
      BY <1>2, <1>5, <2>1, <2>2, <3>1 DEF MayNest, Children
    <3>3. k < i
      BY <1>1, <3>1, <3>2 DEF Used
    <3> QED BY <1>10, <2>2, <3>3 DEF Inv
  <2>3. CASE k = i
    <3>1. j # i /\ parent[j] = a /\ par = a
      BY <1>2, <1>3, <2>1, <2>3
    <3>2. pc[j] = "ok"
      BY <1>5, <2>1, <3>1 DEF MayNest, Children
    <3> QED BY <1>3, <3>1, <3>2
  <2>4. CASE j # i /\ k # i
    BY <1>3, <1>10, <2>1, <2>4 DEF DoubleInv, Siblings
  <2> QED BY <2>2, <2>3, <2>4
<1>11. ASSUME NEW a \in Inv, IsDouble(a)' PROVE Result(a)'
  <2>1. CASE a = i
    BY <1>4, <1>6, <2>1 DEF Result, Children
  <2>2. CASE a # i /\ par = a
    <3>1. pc[a] = "running"
      BY <2>2, HostAssumption DEF MayNest, Running, Inv
    <3>2. pc'[a] = "running"
      BY <1>3, <2>2, <3>1
    <3> QED BY <3>2 DEF Result
  <2>3. CASE a # i /\ par # a
    <3>1. IsDouble(a) /\ StillOpen(a)
      BY <1>3, <1>11, <2>3 DEF IsDouble, StillOpen
    <3>2. parent[i] # a
      BY <1>1, HostAssumption DEF Unparented, DoubleInv, Inv
    <3>3. Children(a)' = Children(a)
      BY <1>2, <1>3, <2>3, <3>2 DEF Children
    <3>4. Result(a)
      BY <3>1 DEF DoubleInv
    <3> QED BY <1>7, <3>1, <3>3, <3>4, ResultStable
  <2> QED BY <2>1, <2>2, <2>3
<1>12. Unparented'
  BY <1>1, <1>3 DEF Unparented, DoubleInv, Used
<1> QED BY <1>8, <1>9, <1>10, <1>11, <1>12 DEF DoubleInv

LEMMA DoubleStep ==
  ASSUME RInd, Ended, DoubleInv, [Next]_vars
  PROVE  DoubleInv'
<1>1. ASSUME UNCHANGED <<local>>, ToolsStay, EndStable, \A i \in Inv : Used(i)' <=> Used(i),
             \A i \in Inv : StillOpen(i) \/ (IsDouble(i) => Result(i)')
      PROVE  DoubleInv'
  <2>1. ASSUME NEW i \in Inv, IsDouble(i), StillOpen(i) PROVE Result(i)'
    <3>1. Children(i)' = Children(i) /\ Result(i)
      BY <1>1, <2>1 DEF Children, local, DoubleInv
    <3> QED BY <1>1, <2>1, <3>1, ResultStable
  <2> QED BY <1>1, <2>1, DoubleStable DEF local
<1>2. ASSUME NEW p \in Path, NEW t \in Tool, Register(p, t) PROVE DoubleInv'
  <2>1. UNCHANGED <<pc, local, fault, answer>> /\ ToolsStay
    BY <1>2 DEF Register, ToolsStay, RInd, Ind, Shape
  <2> QED BY <1>1, <2>1 DEF EndStable, Used, StillOpen
<1>3. ASSUME NEW i \in Inv, NEW c \in Call, NEW p \in Path, NEW override \in Override,
             NEW pay \in Payload, Enter(i, c, 0, p, override, pay, {})
      PROVE  DoubleInv'
  BY <1>3, DoubleEnter
<1>4. ASSUME NEW i \in Inv, NEW j \in Inv, NEW p \in Path, NEW override \in Override,
             NEW pay \in Payload, Nests(i, j, p, override, pay)
      PROVE  DoubleInv'
  <2>1. MayNest(i) /\ Running(i) /\ ~Expands(i, override)
    BY <1>4 DEF Nests, MayNest
  <2>2. call[i] \in Call /\ Some(ChildCaps(i, p, override)) \in Override
    BY <2>1, ChildOverride DEF RInd
  <2> QED BY <1>4, <2>1, <2>2, DoubleEnter DEF Nests
<1>5. ASSUME NEW i \in Inv, Ends(i) PROVE DoubleInv'
  <2>1. /\ pc[i] = "running" /\ UNCHANGED <<tools, local>>
        /\ \A j \in Inv \ {i} : pc'[j] = pc[j] /\ fault'[j] = fault[j] /\ answer'[j] = answer[j]
        /\ pc'[i] \in {"ok", "error"}
    BY <1>5 DEF Ends, Running, Fail, Succeed, RInd, Ind, Shape, Ended
  <2>2. EndStable /\ ToolsStay /\ \A j \in Inv : Used(j)' <=> Used(j)
    BY <2>1 DEF EndStable, ToolsStay, Used
  <2>3. IsDouble(i) => Result(i)'
    BY <1>5, <2>2, DoubleResult
  <2>4. \A j \in Inv \ {i} : StillOpen(j)
    BY <2>1 DEF StillOpen
  <2> QED BY <1>1, <2>1, <2>2, <2>3, <2>4
<1>6. ASSUME NEW i \in Inv, Drop(i) PROVE DoubleInv'
  <2>1. /\ UNCHANGED <<tools, local, fault, answer>>
        /\ pc' = [j \in Inv |-> IF j \in {i} \cup Below(i) /\ Running(j) THEN "dropped" ELSE pc[j]]
    BY <1>6 DEF Drop
  <2>2. EndStable /\ ToolsStay /\ \A j \in Inv : (Used(j)' <=> Used(j)) /\ StillOpen(j)
    BY <2>1 DEF EndStable, ToolsStay, Used, StillOpen, Running
  <2> QED BY <1>1, <2>1, <2>2
<1>7. CASE Rests
  <2>1. UNCHANGED <<tools, pc, local, fault, answer>>
    BY <1>7 DEF Rests
  <2>2. EndStable /\ ToolsStay /\ \A j \in Inv : (Used(j)' <=> Used(j)) /\ StillOpen(j)
    BY <2>1 DEF EndStable, ToolsStay, Used, StillOpen
  <2> QED BY <1>1, <2>1, <2>2
<1> QED BY <1>2, <1>3, <1>4, <1>5, <1>6, <1>7, StepKinds

-----------------------------------------------------------------------------
(* What the trail says of the tree                                         *)

OverridesOf(i) == {e \in audit \ Scopes : e.inv = i}

(* The scope event an invocation was entered with. *)
Accounts(e, i) ==
  /\ e.parent = parent[i] /\ ~e.expand
  /\ caps[i] \subseteq e.actual[1] /\ e.actual[1] \subseteq e.held
  /\ e.held = caps[parent[i]]

TrailInv ==
  /\ \A i \in Inv : ~Used(i) => ScopesOf(i) = {} /\ OverridesOf(i) = {}
  /\ \A i \in Inv : Used(i) /\ parent[i] # 0 => \E e : ScopesOf(i) = {e} /\ Accounts(e, i)
  /\ \A i \in Inv : Used(i) /\ tool[i] # NoTool =>
       (~(caps[i] \subseteq Declared[tool[i]]) <=> OverridesOf(i) # {})
  /\ \A e \in ScopesOf(0) : Refusal(e)

LEMMA TrailStable ==
  ASSUME RInd, TrailInv, TreeStable,
         \A i \in Inv : ScopesOf(i)' = ScopesOf(i) /\ OverridesOf(i)' = OverridesOf(i),
         \A e \in ScopesOf(0)' : e \in ScopesOf(0) \/ Refusal(e)
  PROVE  TrailInv'
<1>1. ASSUME NEW i \in Inv, ~Used(i)' PROVE ScopesOf(i)' = {} /\ OverridesOf(i)' = {}
  BY <1>1 DEF TrailInv, TreeStable
<1>2. ASSUME NEW i \in Inv, Used(i)', parent'[i] # 0
      PROVE  \E e : ScopesOf(i)' = {e} /\ Accounts(e, i)'
  <2>1. PICK e : ScopesOf(i) = {e} /\ Accounts(e, i)
    BY <1>2 DEF TrailInv, TreeStable
  <2>2. Accounts(e, i)'
    BY <2>1 DEF Accounts, TreeStable
  <2> QED BY <2>1, <2>2
<1>3. ASSUME NEW i \in Inv, Used(i)', tool'[i] # NoTool
      PROVE  ~(caps'[i] \subseteq Declared[tool'[i]]) <=> OverridesOf(i)' # {}
  BY <1>3 DEF TrailInv, TreeStable
<1>4. \A e \in ScopesOf(0)' : Refusal(e)
  BY DEF TrailInv
<1>5. \A e \in ScopesOf(0)' : Refusal(e)'
  BY <1>4 DEF Refusal
<1> QED BY <1>1, <1>2, <1>3, <1>5 DEF TrailInv

(* Entering adds its own events to the trail and none of another's.        *)
LEMMA TrailEnter ==
  ASSUME RInd, Ended, Trail, Prefix, TrailInv,
         NEW i \in Inv, NEW c \in Call, NEW par \in Inv \cup {0},
         NEW p \in Path, NEW override \in Override, NEW pay \in Payload,
         NEW scope \in SUBSET ScopeEvent,
         Enter(i, c, par, p, override, pay, scope),
         \A e \in scope : e.child = i,
         par # 0 => /\ par \in Inv /\ Used(par) /\ override # None
                    /\ \E e : /\ scope = {e} /\ e.parent = par /\ ~e.expand
                             /\ override[1] \subseteq e.actual[1]
                             /\ e.actual[1] \subseteq e.held /\ e.held = caps[par]
  PROVE  TrailInv'
<1>0. Entered(i, c, par, p, pay)
  BY EnterFacts
<1>1. PICK f \in EntryFaults(p, pay) :
        LET hasContext == f \notin {"unknown_tool", "io"}
            effective == IF hasContext THEN Effective(p, override) ELSE {}
        IN  /\ caps' = [caps EXCEPT ![i] = effective]
            /\ audit' = audit \cup scope \cup
                          (IF hasContext THEN OverrideEvents(i, p, effective) ELSE {})
            /\ pc' = [pc EXCEPT ![i] = IF f = "none" THEN "running" ELSE "error"]
  BY DEF Enter
<1> DEFINE hasContext == f \notin {"unknown_tool", "io"}
           effective == IF hasContext THEN Effective(p, override) ELSE {}
           overrides == IF hasContext THEN OverrideEvents(i, p, effective) ELSE {}
<1>2. audit' = audit \cup scope \cup overrides /\ caps'[i] = effective
  BY <1>1 DEF RInd, Ind, Shape
<1>3. /\ ~Used(i) /\ Used(i)' /\ \A j \in Inv : parent[j] # i
      /\ parent'[i] = par /\ tool'[i] = tools[p]
  BY <1>0 DEF Entered
<1>4. \A j \in Inv \ {i} : /\ Used(j)' <=> Used(j)
                           /\ parent'[j] = parent[j] /\ tool'[j] = tool[j] /\ caps'[j] = caps[j]
  BY <1>0 DEF Entered, Used
<1>5. i # 0
  BY HostAssumption DEF Inv
<1>6. \A e \in scope : e.event = "nested_scope"
  BY DEF ScopeEvent
<1>7. \A e \in overrides : e.event = "capabilities_override" /\ e.inv = i
  BY DEF OverrideEvents
<1>8. overrides = {} <=> effective \subseteq Declared[tools[p]] \/ ~hasContext
  BY DEF OverrideEvents
<1> HIDE DEF hasContext, effective, overrides
<1>9. Scopes' = Scopes \cup scope
  BY <1>2, <1>6, <1>7 DEF Scopes
<1>10. (audit \ Scopes)' = (audit \ Scopes) \cup overrides
  BY <1>2, <1>6, <1>7 DEF Scopes
<1>11. \A j \in (Inv \cup {0}) \ {i} : ScopesOf(j)' = ScopesOf(j)
  BY <1>9 DEF ScopesOf
<1>12. \A j \in Inv \ {i} : OverridesOf(j)' = OverridesOf(j)
  BY <1>7, <1>10 DEF OverridesOf
<1>13. ScopesOf(i) = {} /\ OverridesOf(i) = {}
  BY <1>3 DEF TrailInv
<1>14. ScopesOf(i)' = scope
  BY <1>9, <1>13 DEF ScopesOf
<1>15. OverridesOf(i)' = overrides
  BY <1>7, <1>10, <1>13 DEF OverridesOf
<1>16. ASSUME NEW j \in Inv, ~Used(j)' PROVE ScopesOf(j)' = {} /\ OverridesOf(j)' = {}
  BY <1>3, <1>4, <1>11, <1>12, <1>16 DEF TrailInv
<1>17. ASSUME NEW j \in Inv, Used(j)', parent'[j] # 0
       PROVE  \E e : ScopesOf(j)' = {e} /\ Accounts(e, j)'
  <2>1. CASE j = i
    <3>1. PICK e : /\ scope = {e} /\ e.parent = par /\ ~e.expand
                   /\ override[1] \subseteq e.actual[1]
                   /\ e.actual[1] \subseteq e.held /\ e.held = caps[par]
      BY <1>3, <1>17, <2>1
    <3>2. par \in Inv \ {i} /\ override # None
      BY <1>3, <1>17, <2>1
    <3>3. effective \subseteq override[1]
      BY <3>2 DEF effective, Effective
    <3>4. caps'[i] \subseteq e.actual[1] /\ e.held = caps'[par]
      BY <1>2, <1>4, <3>1, <3>2, <3>3
    <3>5. Accounts(e, i)'
      BY <1>3, <3>1, <3>4 DEF Accounts
    <3> QED BY <1>14, <2>1, <3>1, <3>5
  <2>2. CASE j # i
    <3>1. PICK e : ScopesOf(j) = {e} /\ Accounts(e, j)
      BY <1>4, <1>17, <2>2 DEF TrailInv
    <3>2. parent[j] \in Inv \ {i}
      BY <1>3, <1>4, <1>17, <2>2 DEF RInd, Ind, Shape
    <3>3. Accounts(e, j)'
      BY <1>4, <2>2, <3>1, <3>2 DEF Accounts
    <3> QED BY <1>11, <2>2, <3>1, <3>3
  <2> QED BY <2>1, <2>2
<1>18. ASSUME NEW j \in Inv, Used(j)', tool'[j] # NoTool
       PROVE  ~(caps'[j] \subseteq Declared[tool'[j]]) <=> OverridesOf(j)' # {}
  <2>1. CASE j = i
    <3>1. ~hasContext => effective = {}
      BY DEF effective
    <3> QED BY <1>2, <1>3, <1>8, <1>15, <2>1, <3>1
  <2>2. CASE j # i
    BY <1>4, <1>12, <1>18, <2>2 DEF TrailInv
  <2> QED BY <2>1, <2>2
<1>19. \A e \in ScopesOf(0)' : Refusal(e)'
  BY <1>5, <1>11 DEF TrailInv, Refusal
<1> QED BY <1>16, <1>17, <1>18, <1>19 DEF TrailInv

LEMMA TrailStep ==
  ASSUME RInd, Ended, Trail, Prefix, TrailInv, [Next]_vars
  PROVE  TrailInv'
<1>1. ASSUME UNCHANGED audit, TreeStable PROVE TrailInv'
  BY <1>1, TrailStable DEF ScopesOf, OverridesOf, Scopes
<1>2. ASSUME NEW p \in Path, NEW t \in Tool, Register(p, t) PROVE TrailInv'
  BY <1>1, <1>2 DEF Register, TreeStable, Used, Running, local
<1>3. ASSUME NEW i \in Inv, NEW c \in Call, NEW p \in Path, NEW override \in Override,
             NEW pay \in Payload, Enter(i, c, 0, p, override, pay, {})
      PROVE  TrailInv'
  BY <1>3, TrailEnter
<1>4. ASSUME NEW i \in Inv, NEW j \in Inv, NEW p \in Path, NEW override \in Override,
             NEW pay \in Payload, Nests(i, j, p, override, pay)
      PROVE  TrailInv'
  <2> DEFINE child == ChildCaps(i, p, override)
             e == [event |-> "nested_scope", parent |-> i, child |-> j, held |-> caps[i],
                   requested |-> override, actual |-> Some(child), expand |-> FALSE]
  <2>1. Running(i) /\ ~Expands(i, override)
    BY <1>4 DEF Nests, MayNest
  <2>2. call[i] \in Call /\ Some(child) \in Override /\ child \subseteq caps[i]
    BY <2>1, ChildOverride DEF RInd
  <2>3. Some(child) # None /\ Some(child)[1] = child
    BY DEF Some, None
  <2>4. Scope(i, j, p, override) = {e}
    BY DEF Scope
  <2>5. e \in ScopeEvent
    BY <2>2 DEF ScopeEvent, RInd, Ind, Shape
  <2>6. /\ e.child = j /\ e.parent = i /\ ~e.expand
        /\ Some(child)[1] \subseteq e.actual[1] /\ e.actual[1] \subseteq e.held /\ e.held = caps[i]
    BY <2>2, <2>3
  <2>7. Enter(j, call[i], i, p, Some(child), pay, {e})
    BY <1>4, <2>4 DEF Nests
  <2>8. Used(i)
    BY <2>1 DEF Running, Used
  <2> HIDE DEF e, child
  <2> QED BY <2>2, <2>3, <2>5, <2>6, <2>7, <2>8, TrailEnter
<1>5. ASSUME NEW i \in Inv, Ends(i) PROVE TrailInv'
  <2>1. /\ Running(i) /\ UNCHANGED <<audit, local>>
        /\ pc' = [pc EXCEPT ![i] = "ok"] \/ pc' = [pc EXCEPT ![i] = "error"]
    BY <1>5 DEF Ends, Fail, Succeed
  <2>2. TreeStable
    BY <2>1 DEF TreeStable, Used, Running, local, RInd, Ind, Shape
  <2> QED BY <1>1, <2>1, <2>2
<1>6. ASSUME NEW i \in Inv, Drop(i) PROVE TrailInv'
  <2>1. /\ UNCHANGED <<audit, local>>
        /\ pc' = [j \in Inv |-> IF j \in {i} \cup Below(i) /\ Running(j) THEN "dropped" ELSE pc[j]]
    BY <1>6 DEF Drop
  <2>2. TreeStable
    BY <2>1 DEF TreeStable, Used, Running, local
  <2> QED BY <1>1, <2>1, <2>2
<1>7. CASE Rests
  <2>1. /\ UNCHANGED <<pc, local>>
        /\ \A e \in audit : e \in audit'
        /\ \A e \in audit' : e \in audit \/ Refusal(e)
    BY <1>7 DEF Rests
  <2>2. TreeStable
    BY <2>1 DEF TreeStable, Used, Running, local
  <2>3. \A e : Refusal(e) => e.event = "nested_scope" /\ e.child = 0
    BY DEF Refusal, ScopeEvent
  <2>4. ASSUME NEW i \in Inv
        PROVE  ScopesOf(i)' = ScopesOf(i) /\ OverridesOf(i)' = OverridesOf(i)
    <3>1. i # 0
      BY HostAssumption DEF Inv
    <3> QED BY <2>1, <2>3, <3>1 DEF ScopesOf, OverridesOf, Scopes
  <2>5. \A e \in ScopesOf(0)' : e \in ScopesOf(0) \/ Refusal(e)
    BY <2>1 DEF ScopesOf, Scopes
  <2> QED BY <2>2, <2>4, <2>5, TrailStable
<1> QED BY <1>2, <1>3, <1>4, <1>5, <1>6, <1>7, StepKinds

-----------------------------------------------------------------------------
(* How many invocations a call makes                                       *)

(* A call has one invocation of its own; every other belongs to the call   *)
(* of the one it was made by, has a later id, and that one is a tool's.    *)
CountInv ==
  /\ \A i \in Inv : Running(i) => tool[i] # NoTool
  /\ \A i, j \in Inv : parent[j] = i => tool[i] # NoTool /\ i < j /\ call[j] = call[i]
  /\ \A i, j \in Inv : Used(i) /\ Used(j) /\ parent[i] = 0 /\ parent[j] = 0 /\ call[i] = call[j]
       => i = j

LEMMA CountEnter ==
  ASSUME RInd, Ended, Prefix, CountInv, NEW i \in Inv, NEW c \in Call, NEW par \in Inv \cup {0},
         NEW p \in Path, NEW override \in Override, NEW pay \in Payload, NEW scope,
         Enter(i, c, par, p, override, pay, scope),
         par = 0 => \A j \in Inv : call[j] # c,
         par # 0 => Running(par) /\ call[par] = c
  PROVE  CountInv'
<1>0. Entered(i, c, par, p, pay)
  BY EnterFacts
<1>1. ~Used(i) /\ \A j \in Inv \ {i} : Used(j) => j < i
  BY <1>0 DEF Entered
<1>2. \A j \in Inv : parent[j] # i
  BY <1>0 DEF Entered
<1>3. /\ call'[i] = c /\ parent'[i] = par /\ tool'[i] = tools[p]
      /\ pc'[i] = "running" => tools[p] # NoTool
  BY <1>0 DEF Entered
<1>4. \A j \in Inv \ {i} : /\ pc'[j] = pc[j] /\ parent'[j] = parent[j]
                           /\ call'[j] = call[j] /\ tool'[j] = tool[j]
  BY <1>0 DEF Entered
<1>5. par # 0 => par \in Inv \ {i}
  BY <1>1 DEF Running, Used
<1>6. ASSUME NEW a \in Inv, Running(a)' PROVE tool'[a] # NoTool
  BY <1>3, <1>4, <1>6 DEF CountInv, Running
<1>7. ASSUME NEW a \in Inv, NEW j \in Inv, parent'[j] = a
      PROVE  tool'[a] # NoTool /\ a < j /\ call'[j] = call'[a]
  <2>1. a # 0
    BY HostAssumption DEF Inv
  <2>2. CASE j = i
    <3>1. a = par /\ a \in Inv \ {i} /\ Running(a) /\ call[a] = c
      BY <1>3, <1>5, <1>7, <2>1, <2>2
    <3>2. tool[a] # NoTool /\ a < i
      BY <1>1, <3>1 DEF CountInv, Running, Used
    <3> QED BY <1>3, <1>4, <2>2, <3>1, <3>2
  <2>3. CASE j # i
    <3>1. parent[j] = a /\ a # i
      BY <1>2, <1>4, <1>7, <2>3
    <3>2. tool[a] # NoTool /\ a < j /\ call[j] = call[a]
      BY <3>1 DEF CountInv
    <3> QED BY <1>4, <2>3, <3>1, <3>2
  <2> QED BY <2>2, <2>3
<1>8. ASSUME NEW a \in Inv, NEW b \in Inv, Used(a)', Used(b)',
             parent'[a] = 0, parent'[b] = 0, call'[a] = call'[b]
      PROVE  a = b
  <2>1. ASSUME NEW j \in Inv \ {i}, parent'[i] = 0, call'[j] = call'[i] PROVE FALSE
    BY <1>3, <1>4, <2>1
  <2>2. CASE a # i /\ b # i
    BY <1>4, <1>8, <2>2 DEF CountInv, Used
  <2> QED BY <1>8, <2>1, <2>2
<1> QED BY <1>6, <1>7, <1>8 DEF CountInv

LEMMA CountStep ==
  ASSUME RInd, Ended, Prefix, CountInv, [Next]_vars
  PROVE  CountInv'
<1>1. ASSUME UNCHANGED local, \A i \in Inv : (Used(i)' <=> Used(i)) /\ (Running(i)' => Running(i))
      PROVE  CountInv'
  BY <1>1 DEF CountInv, local
<1>2. CASE \E p \in Path, t \in Tool : Register(p, t)
  BY <1>1, <1>2 DEF Register, Used, Running
<1>3. ASSUME NEW i \in Inv, NEW c \in Call, NEW p \in Path, NEW override \in Override,
             NEW pay \in Payload, Enter(i, c, 0, p, override, pay, {}),
             \A k \in Inv : call[k] # c
      PROVE  CountInv'
  BY <1>3, CountEnter
<1>4. ASSUME NEW i \in Inv, NEW j \in Inv, NEW p \in Path, NEW override \in Override,
             NEW pay \in Payload, Nests(i, j, p, override, pay)
      PROVE  CountInv'
  <2>1. Running(i) /\ ~Expands(i, override) /\ i # 0
    BY <1>4, HostAssumption DEF Nests, MayNest, Inv
  <2>2. call[i] \in Call /\ Some(ChildCaps(i, p, override)) \in Override
    BY <2>1, ChildOverride DEF RInd
  <2>3. Enter(j, call[i], i, p, Some(ChildCaps(i, p, override)), pay, Scope(i, j, p, override))
    BY <1>4 DEF Nests
  <2> QED BY <2>1, <2>2, <2>3, CountEnter
<1>5. ASSUME NEW i \in Inv, Ends(i) PROVE CountInv'
  <2>1. /\ Running(i) /\ UNCHANGED local
        /\ pc' = [pc EXCEPT ![i] = "ok"] \/ pc' = [pc EXCEPT ![i] = "error"]
    BY <1>5 DEF Ends, Fail, Succeed
  <2>2. \A j \in Inv : (Used(j)' <=> Used(j)) /\ (Running(j)' => Running(j))
    BY <2>1 DEF Used, Running, RInd, Ind, Shape
  <2> QED BY <1>1, <2>1, <2>2
<1>6. ASSUME NEW i \in Inv, Drop(i) PROVE CountInv'
  <2>1. /\ UNCHANGED local
        /\ pc' = [j \in Inv |-> IF j \in {i} \cup Below(i) /\ Running(j) THEN "dropped" ELSE pc[j]]
    BY <1>6 DEF Drop
  <2>2. \A j \in Inv : (Used(j)' <=> Used(j)) /\ (Running(j)' => Running(j))
    BY <2>1 DEF Used, Running
  <2> QED BY <1>1, <2>1, <2>2
<1>7. CASE Rests
  BY <1>1, <1>7 DEF Rests, Used, Running
<1> QED BY <1>2, <1>3, <1>4, <1>5, <1>6, <1>7, StepKinds

(* An invocation with all below it: those of its children, and itself.     *)
TreeOf(i) == {i} \cup Below(i)

LEMMA TreeOfChildren ==
  ASSUME RInd, CountInv, NEW i \in Inv, NEW j \in TreeOf(i), j # i
  PROVE  \E k \in Children(i) : j \in TreeOf(k)
<1> DEFINE Bad == {l \in Inv : l \in Below(i) /\ \A k \in Children(i) : l \notin TreeOf(k)}
<1>1. \A l \in Inv : Above[l] = IF parent[l] = 0 THEN {} ELSE {parent[l]} \cup Above[parent[l]]
  BY AboveUnfolds DEF RInd, Ind, Shape
<1>2. ASSUME Bad # {} PROVE FALSE
  <2>1. Bad \in SUBSET Nat
    BY HostAssumption DEF Inv
  <2>2. PICK l \in Bad : \A m \in Bad : l <= m
    BY <1>2, <2>1, LeastNumber
  <2>3. l \in Inv /\ i \in Above[l] /\ \A k \in Children(i) : l \notin TreeOf(k)
    BY <2>2 DEF Below
  <2> DEFINE p == parent[l]
  <2>4. p \in Inv /\ Above[l] = {p} \cup Above[p]
    BY <1>1, <2>3 DEF RInd, Ind, Shape
  <2>5. p # i
    BY <2>3 DEF Children, TreeOf
  <2>6. p \in Below(i) /\ p < l
    BY <2>3, <2>4, <2>5 DEF Below, CountInv
  <2>7. p \notin Bad
    <3>1. p \in Nat /\ l \in Nat
      BY <2>3, <2>4, HostAssumption DEF Inv
    <3> HIDE DEF p, Bad
    <3> QED BY <2>2, <2>6, <3>1
  <2>8. PICK k \in Children(i) : p \in TreeOf(k)
    BY <2>4, <2>6, <2>7
  <2>9. k \in {p} \cup Above[p]
    BY <2>8 DEF TreeOf, Below
  <2>10. l \in TreeOf(k)
    BY <2>3, <2>4, <2>9 DEF TreeOf, Below
  <2> QED BY <2>3, <2>8, <2>10
<1>3. j \in Inv /\ j \in Below(i)
  BY DEF TreeOf, Below
<1> QED BY <1>2, <1>3

(* All a call makes is below the invocation of its own. *)
LEMMA OneTree ==
  ASSUME RInd, CountInv, NEW c \in Call, NEW t \in Top(c), NEW j \in Inv, call[j] = c
  PROVE  j \in TreeOf(t)
<1> DEFINE Bad == {l \in Inv : call[l] = c /\ l \notin TreeOf(t)}
<1>1. \A l \in Inv : Above[l] = IF parent[l] = 0 THEN {} ELSE {parent[l]} \cup Above[parent[l]]
  BY AboveUnfolds DEF RInd, Ind, Shape
<1>2. t \in Inv /\ call[t] = c /\ parent[t] = 0
  BY DEF Top
<1>3. \A l \in Inv : call[l] = c => Used(l)
  BY HostAssumption DEF RInd, Ind, CapsInv
<1>4. ASSUME Bad # {} PROVE FALSE
  <2>1. Bad \in SUBSET Nat
    BY HostAssumption DEF Inv
  <2>2. PICK l \in Bad : \A m \in Bad : l <= m
    BY <1>4, <2>1, LeastNumber
  <2>3. l \in Inv /\ call[l] = c /\ l # t /\ t \notin Above[l]
    BY <2>2 DEF TreeOf, Below
  <2> DEFINE p == parent[l]
  <2>4. p # 0
    BY <1>2, <1>3, <2>3 DEF CountInv
  <2>5. p \in Inv /\ Above[l] = {p} \cup Above[p]
    BY <1>1, <2>3, <2>4 DEF RInd, Ind, Shape
  <2>6. call[p] = c /\ p < l
    BY <2>3, <2>5 DEF CountInv
  <2>7. p \notin TreeOf(t)
    BY <2>3, <2>5 DEF TreeOf, Below
  <2>8. p \in Bad
    BY <2>5, <2>6, <2>7
  <2>9. p \in Nat /\ l \in Nat
    BY <2>3, <2>5, HostAssumption DEF Inv
  <2> HIDE DEF p, Bad
  <2> QED BY <2>2, <2>6, <2>8, <2>9
<1> QED BY <1>4

(* The tree of an invocation, counted: each layer of the payload adds one  *)
(* invocation and at most two trees of what is left of it.                 *)
LEMMA TreeIsSmall ==
  ASSUME RInd, DoubleInv, CountInv, NEW c \in Call, DoublesOnly(c),
         NEW i \in Inv, call[i] = c
  PROVE  /\ IsFiniteSet(TreeOf(i))
         /\ Cardinality(TreeOf(i)) + 1 <= 2^(Len(payload[i]) + 1)
<1> DEFINE Small(j, n) == Cardinality(TreeOf(j)) + 1 <= 2^(n + 1)
           S == {n \in Nat : \A j \in Inv : call[j] = c /\ Len(payload[j]) = n => Small(j, n)}
<1>1. ASSUME NEW j \in Inv
      PROVE  IsFiniteSet(TreeOf(j)) /\ Cardinality(TreeOf(j)) \in Nat
  <2>1. IsFiniteSet(Inv)
    BY HostAssumption, FS_Interval DEF Inv
  <2>2. TreeOf(j) \subseteq Inv
    BY DEF TreeOf, Below
  <2>3. IsFiniteSet(TreeOf(j))
    BY <2>1, <2>2, FS_Subset
  <2> QED BY <2>3, FS_CardinalityType
<1>2. ASSUME NEW j \in Inv, Children(j) = {} PROVE Cardinality(TreeOf(j)) = 1
  <2>1. TreeOf(j) = {j}
    <3>1. \A l \in TreeOf(j) : l = j
      BY <1>2, TreeOfChildren
    <3>2. j \in TreeOf(j)
      BY DEF TreeOf
    <3> QED BY <3>1, <3>2
  <2> QED BY <2>1, FS_Singleton
<1>3. ASSUME NEW j \in Inv, call[j] = c, NEW k \in Children(j)
      PROVE  /\ k \in Inv /\ call[k] = c
             /\ payload[j] \in Seq(Path) /\ payload[j] # <<>> /\ payload[k] = Tail(payload[j])
             /\ IsDouble(j)
  <2>1. k \in Inv /\ parent[k] = j
    BY DEF Children
  <2>2. call[k] = c /\ tool[j] # NoTool
    BY <1>3, <2>1 DEF CountInv
  <2>3. Program[tool[j]] # "custom"
    BY <1>3, <2>2 DEF DoublesOnly
  <2>4. Program[tool[j]] # "access"
    BY <2>1 DEF RInd, NestingInv
  <2>5. Program[tool[j]] \in {"access", "double", "custom"}
    BY <2>2, HostAssumption DEF RInd, Ind, Shape
  <2>6. IsDouble(j)
    BY <2>3, <2>4, <2>5 DEF IsDouble
  <2>7. payload[j] \in Payload \ {<<>>} /\ payload[k] = Tail(payload[j])
    BY <2>1, <2>6 DEF DoubleInv, SameInput
  <2> QED BY <2>1, <2>2, <2>6, <2>7, HostAssumption
<1>4. ASSUME NEW n \in Nat PROVE 2^(n + 1) \in Nat /\ 2^(n + 1) >= 2
  <2>1. 2^n \in Nat /\ 2^n >= 1 /\ 2^(n + 1) = 2^n + 2^n
    BY PowersDouble
  <2> DEFINE a == 2^n
             b == 2^(n + 1)
  <2>2. a \in Nat /\ a >= 1 /\ b = a + a
    BY <2>1
  <2> HIDE DEF a, b
  <2>3. b \in Nat /\ b >= 2
    BY <2>2
  <2> QED BY <2>3 DEF b
<1>5. 0 \in S
  <2> SUFFICES ASSUME NEW j \in Inv, call[j] = c, Len(payload[j]) = 0 PROVE Small(j, 0)
    OBVIOUS
  <2>1. Children(j) = {}
    <3>1. ASSUME NEW k \in Children(j) PROVE FALSE
      BY <1>3, <3>1
    <3> QED BY <3>1
  <2>2. Cardinality(TreeOf(j)) = 1
    BY <1>2, <2>1
  <2>3. 2^(0 + 1) >= 2
    BY <1>4
  <2> QED BY <2>2, <2>3, <1>4
<1>6. ASSUME NEW n \in S PROVE n + 1 \in S
  <2> SUFFICES ASSUME NEW j \in Inv, call[j] = c, Len(payload[j]) = n + 1 PROVE Small(j, n + 1)
    OBVIOUS
  <2>1. n \in Nat /\ \A l \in Inv : call[l] = c /\ Len(payload[l]) = n => Small(l, n)
    OBVIOUS
  <2>2. 2^(n + 1) \in Nat /\ 2^(n + 1) >= 2 /\ 2^(n + 1 + 1) = 2^(n + 1) + 2^(n + 1)
    <3>1. n + 1 \in Nat
      BY <2>1
    <3> QED BY <1>4, <2>1, <3>1, PowersDouble
  <2>3. ASSUME NEW k \in Children(j)
        PROVE  IsFiniteSet(TreeOf(k)) /\ Cardinality(TreeOf(k)) \in Nat /\ Small(k, n)
    <3>1. /\ k \in Inv /\ call[k] = c
          /\ payload[j] \in Seq(Path) /\ payload[j] # <<>> /\ payload[k] = Tail(payload[j])
      BY <1>3
    <3>2. Len(payload[k]) = n
      BY <2>1, <3>1
    <3> QED BY <1>1, <2>1, <3>1, <3>2
  <2>4. CASE Children(j) = {}
    <3> DEFINE b == 2^(n + 1)
               d == 2^(n + 1 + 1)
    <3>1. b \in Nat /\ b >= 2 /\ d = b + b /\ Cardinality(TreeOf(j)) = 1
      BY <1>2, <2>2, <2>4
    <3> HIDE DEF b, d
    <3>2. Cardinality(TreeOf(j)) + 1 <= d
      BY <3>1
    <3> QED BY <3>2 DEF d
  <2>5. CASE Children(j) # {}
    <3>1. PICK k \in Children(j), l \in Children(j) : Children(j) = {k, l}
      <4>1. PICK k \in Children(j) : TRUE
        BY <2>5
      <4>2. IsDouble(j)
        BY <1>3, <4>1
      <4>3. ASSUME NEW l \in Children(j), l # k PROVE Children(j) = {k, l}
        <5>1. k \in Inv /\ l \in Inv /\ Siblings(j, k, l)
          BY <4>1, <4>3 DEF Children, Siblings
        <5>2. \A m \in Inv : parent[m] = j => m \in {k, l}
          BY <4>2, <5>1 DEF RInd, NestingInv
        <5> QED BY <4>1, <5>2 DEF Children
      <4>4. CASE Children(j) = {k}
        BY <4>4
      <4> QED BY <4>1, <4>3, <4>4
    <3> DEFINE both == TreeOf(k) \cup TreeOf(l)
    <3>2. IsFiniteSet(TreeOf(k)) /\ IsFiniteSet(TreeOf(l))
      BY <2>3
    <3>3. /\ IsFiniteSet(both)
          /\ Cardinality(both) <= Cardinality(TreeOf(k)) + Cardinality(TreeOf(l))
      <4>1. IsFiniteSet(TreeOf(k) \cap TreeOf(l))
        BY <3>2, FS_Intersection
      <4>2. Cardinality(TreeOf(k) \cap TreeOf(l)) \in Nat
        BY <4>1, FS_CardinalityType
      <4>3. IsFiniteSet(both) /\ Cardinality(both) = Cardinality(TreeOf(k)) + Cardinality(TreeOf(l))
                                                     - Cardinality(TreeOf(k) \cap TreeOf(l))
        BY <3>2, FS_Union
      <4> HIDE DEF both
      <4>4. Cardinality(TreeOf(k)) \in Nat /\ Cardinality(TreeOf(l)) \in Nat
        BY <2>3
      <4> QED BY <4>2, <4>3, <4>4
    <3>4. TreeOf(j) \subseteq both \cup {j}
      <4>1. \A m \in TreeOf(j) : m # j => \E o \in Children(j) : m \in TreeOf(o)
        BY TreeOfChildren
      <4> QED BY <3>1, <4>1
    <3> HIDE DEF both
    <3>5. Cardinality(both \cup {j}) <= Cardinality(both) + 1 /\ IsFiniteSet(both \cup {j})
      <4>1. Cardinality(both) \in Nat
        BY <3>3, FS_CardinalityType
      <4>2. IsFiniteSet(both \cup {j})
        BY <3>3, FS_AddElement
      <4>3. \/ Cardinality(both \cup {j}) = Cardinality(both)
            \/ Cardinality(both \cup {j}) = Cardinality(both) + 1
        BY <3>3, FS_AddElement
      <4> QED BY <4>1, <4>2, <4>3
    <3>6. Cardinality(TreeOf(j)) <= Cardinality(both \cup {j})
      BY <3>4, <3>5, FS_Subset
    <3> DEFINE b == 2^(n + 1)
               d == 2^(n + 1 + 1)
               x == Cardinality(TreeOf(k))
               y == Cardinality(TreeOf(l))
               z == Cardinality(both)
               w == Cardinality(both \cup {j})
               v == Cardinality(TreeOf(j))
    <3>7. /\ b \in Nat /\ d = b + b /\ x + 1 <= b /\ y + 1 <= b
          /\ x \in Nat /\ y \in Nat /\ z \in Nat /\ w \in Nat /\ v \in Nat
      <4>1. b \in Nat /\ d = b + b
        BY <2>2
      <4>2. x \in Nat /\ x + 1 <= b /\ y \in Nat /\ y + 1 <= b
        BY <2>3
      <4>3. z \in Nat /\ w \in Nat /\ v \in Nat
        BY <1>1, <3>3, <3>5, FS_CardinalityType
      <4> QED BY <4>1, <4>2, <4>3
    <3>8. z <= x + y /\ w <= z + 1 /\ v <= w
      BY <3>3, <3>5, <3>6
    <3> HIDE DEF b, d, x, y, z, w, v
    <3>9. v + 1 <= d
      BY <3>7, <3>8
    <3> QED BY <3>9 DEF v, d
  <2> QED BY <2>4, <2>5
<1>7. Len(payload[i]) \in Nat
  BY HostAssumption DEF RInd, Ind, Shape
<1> HIDE DEF Small
<1>8. Len(payload[i]) \in S
  <2> HIDE DEF S
  <2>1. S \in SUBSET Nat
    BY DEF S
  <2> QED BY <1>5, <1>6, <1>7, <2>1, AllNumbers
<1>9. Small(i, Len(payload[i]))
  BY <1>8
<1> QED BY <1>1, <1>9 DEF Small

-----------------------------------------------------------------------------
TreeInv ==
  RInd /\ Ended /\ Trail /\ NoneOutlivesParent /\ DoubleInv /\ TrailInv /\ CountInv

LEMMA TreeInit == Init => TreeInv
<1> SUFFICES ASSUME Init PROVE TreeInv
  OBVIOUS
<1>1. RInd
  BY CapsInit, RefinementInit DEF RInd
<1>2. Ended /\ Trail
  BY DEF Init, Ended, Trail, Fault
<1>3. \A i \in Inv : pc[i] = "unused" /\ parent[i] = 0 /\ i # 0
  BY HostAssumption DEF Init, Inv
<1>4. NoneOutlivesParent
  BY <1>3 DEF NoneOutlivesParent
<1>5. DoubleInv
  BY <1>3 DEF DoubleInv, Prefix, Unparented, Used, Siblings, Result
<1>6. TrailInv
  BY <1>3 DEF Init, TrailInv, Used, ScopesOf, OverridesOf, Scopes
<1>7. CountInv
  BY <1>3 DEF CountInv, Running, Used
<1> QED BY <1>1, <1>2, <1>4, <1>5, <1>6, <1>7 DEF TreeInv

LEMMA TreeStep == TreeInv /\ [Next]_vars => TreeInv'
<1> SUFFICES ASSUME TreeInv, [Next]_vars PROVE TreeInv'
  OBVIOUS
<1>1. RInd'
  BY CapsStep, RefinementStep DEF TreeInv, RInd
<1>2. Ended' /\ Trail'
  BY TypesStep DEF TreeInv, RInd
<1>3. Prefix
  BY DEF TreeInv, DoubleInv
<1>4. NoneOutlivesParent'
  BY <1>3, OutliveStep DEF TreeInv
<1>5. DoubleInv'
  BY DoubleStep DEF TreeInv
<1>6. TrailInv'
  BY <1>3, TrailStep DEF TreeInv
<1>7. CountInv'
  BY <1>3, CountStep DEF TreeInv
<1> QED BY <1>1, <1>2, <1>4, <1>5, <1>6, <1>7 DEF TreeInv

(* NoneOutlivesParent for a tree of any shape: an invocation ends with     *)
(* none running below it, and a future dropped takes all of them with it   *)
(* (the child futures of app/src/lib.rs invoke_tool are the parent's own). *)
THEOREM NestedEndsFirst == Spec => []NoneOutlivesParent
<1>1. TreeInv => NoneOutlivesParent
  BY DEF TreeInv
<1> QED BY <1>1, TreeInit, TreeStep, PTL DEF Spec, Safety

(* DoubleIsTwice at any depth, whatever the tool under the payload is and  *)
(* however its invocations end (tool-builtin double.rs).                   *)
THEOREM DoubleCallsTwice == Spec => []DoubleIsTwice
<1>1. DoubleInv => DoubleIsTwice
  <2> SUFFICES ASSUME DoubleInv, NEW i \in Inv, Program[tool[i]] = "double"
               PROVE  (\A j \in Children(i) : SameInput(j, i)) /\ Result(i)
    BY DEF DoubleIsTwice, Result
  <2> QED BY DEF DoubleInv, IsDouble, Children
<1>2. TreeInv => DoubleIsTwice
  BY <1>1 DEF TreeInv
<1> QED BY <1>2, TreeInit, TreeStep, PTL DEF Spec, Safety

(* CapabilitiesAudited for any nesting and any overrides: the trail        *)
(* accounts for every capability set in use and for every refusal          *)
(* (app/src/lib.rs AppToolContext::new, invoke_tool).                      *)
THEOREM TrailAccountsForCaps == Spec => []CapabilitiesAudited
<1>1. TrailInv => CapabilitiesAudited
  <2> SUFFICES ASSUME TrailInv PROVE CapabilitiesAudited
    OBVIOUS
  <2>1. ASSUME NEW i \in Inv, pc[i] # "unused", parent[i] # 0
        PROVE  Cardinality(ScopesOf(i)) = 1 /\ \A e \in ScopesOf(i) : Accounts(e, i)
    <3>1. PICK e : ScopesOf(i) = {e} /\ Accounts(e, i)
      BY <2>1 DEF TrailInv, Used
    <3> QED BY <3>1, FS_Singleton
  <2>2. ASSUME NEW i \in Inv, pc[i] # "unused", tool[i] # NoTool
        PROVE  ~(caps[i] \subseteq Declared[tool[i]]) <=> \E e \in audit \ Scopes : e.inv = i
    BY <2>2 DEF TrailInv, Used, OverridesOf
  <2>3. \A e \in ScopesOf(0) : e.expand /\ ~(e.requested[1] \subseteq e.held)
    BY DEF TrailInv, Refusal
  <2> QED BY <2>1, <2>2, <2>3 DEF CapabilitiesAudited, Accounts
<1>2. TreeInv => CapabilitiesAudited
  BY <1>1 DEF TreeInv
<1> QED BY <1>2, TreeInit, TreeStep, PTL DEF Spec, Safety
(* DoublingBound for any payload and any tools of the two kinds: all a     *)
(* call makes is the tree of its own invocation (tool-builtin double.rs).  *)
THEOREM DoublingIsBounded == Spec => []DoublingBound
<1>1. TreeInv => DoublingBound
  <2> SUFFICES ASSUME TreeInv, NEW c \in Call, DoublesOnly(c), NEW t \in Top(c)
               PROVE  Cardinality({i \in Inv : call[i] = c}) <= 2 ^ (Len(payload[t]) + 1) - 1
    BY DEF DoublingBound
  <2> DEFINE made == {i \in Inv : call[i] = c}
  <2>1. t \in Inv /\ call[t] = c
    BY DEF Top
  <2>2. IsFiniteSet(TreeOf(t)) /\ Cardinality(TreeOf(t)) + 1 <= 2^(Len(payload[t]) + 1)
    BY <2>1, TreeIsSmall DEF TreeInv
  <2>3. made \subseteq TreeOf(t)
    BY OneTree DEF TreeInv
  <2>4. IsFiniteSet(made) /\ Cardinality(made) <= Cardinality(TreeOf(t))
    BY <2>2, <2>3, FS_Subset
  <2>5. Cardinality(made) \in Nat /\ Cardinality(TreeOf(t)) \in Nat
    BY <2>2, <2>4, FS_CardinalityType
  <2>6. Len(payload[t]) \in Nat
    BY <2>1, HostAssumption DEF TreeInv, RInd, Ind, Shape
  <2>7. 2^(Len(payload[t]) + 1) \in Nat
    BY <2>6, PowersDouble
  <2> DEFINE x == Cardinality(made)
             y == Cardinality(TreeOf(t))
             z == 2^(Len(payload[t]) + 1)
  <2>8. x \in Nat /\ y \in Nat /\ z \in Nat /\ x <= y /\ y + 1 <= z
    BY <2>2, <2>4, <2>5, <2>7
  <2> HIDE DEF x, y, z
  <2>9. x <= z - 1
    BY <2>8
  <2> QED BY <2>9 DEF x, z
<1> QED BY <1>1, TreeInit, TreeStep, PTL DEF Spec, Safety
=============================================================================
