------------------------ MODULE PolicyPipelineProofs ------------------------
(***************************************************************************)
(* Proofs about PolicyPipeline, for any set of calls, policies, types and  *)
(* capabilities and any bound on the ids, and that it implements           *)
(* Authorizer.                                                             *)
(***************************************************************************)
EXTENDS PolicyPipeline, SequenceTheorems, FiniteSetTheorems, TLAPS

(* A queue with one more registered policy at either end is a queue.       *)
LEMMA EnqueueType ==
  ASSUME NEW p \in Policy, NEW queue \in Seq(Entry), nextPolicyId \in Nat
  PROVE  /\ Front(p, queue) \in Seq(Entry)
         /\ Back(p, queue) \in Seq(Entry)
<1> DEFINE e == [id |-> nextPolicyId, policy |-> p]
<1>1. e \in Entry
  BY DEF Entry
<1>2. <<e>> \in Seq(Entry)
  BY <1>1
<1>3. <<e>> \o queue \in Seq(Entry) /\ Append(queue, e) \in Seq(Entry)
  BY <1>1, <1>2, ConcatProperties, AppendProperties
<1> QED BY <1>3 DEF Front, Back

(* The queue of a stage is one of the registry's, and what a policy of it  *)
(* answers is a decision.                                                  *)
LEMMA QueueType ==
  ASSUME TypeOK, NEW r \in Req, Awaiting(r),
         NEW d \in Verdicts(Queue(stage[r], subject[r])[pos[r]].policy, subject[r])
  PROVE  /\ Queue(stage[r], subject[r]) \in Seq(Entry)
         /\ pos[r] \in 1..Len(Queue(stage[r], subject[r]))
         /\ Queue(stage[r], subject[r])[pos[r]] \in Entry
         /\ d \in PolicyDecision
<1>1. subject[r] \in Subject /\ KindOf[subject[r].action] \in Kind
  BY PipelineAssumption DEF TypeOK, Subject
<1>2. Queue(stage[r], subject[r]) \in Seq(Entry)
  BY <1>1 DEF TypeOK, Queue, Stage
<1>3. pos[r] \in 1..Len(Queue(stage[r], subject[r]))
  BY <1>2 DEF TypeOK, Awaiting
<1>4. Queue(stage[r], subject[r])[pos[r]] \in Entry
  BY <1>2, <1>3
<1>5. d \in PolicyDecision
  BY <1>1, <1>4, PipelineAssumption DEF Verdicts, Entry, PolicyDecision
<1> QED BY <1>2, <1>3, <1>4, <1>5

(* Type correctness: the registry, the calls and the trail keep their      *)
(* shape through every registration and every step of every call.          *)
LEMMA TypeInit == Init => TypeOK
<1> SUFFICES ASSUME Init PROVE TypeOK
  OBVIOUS
<1>1. inbound \in Seq(Entry) /\ outbound \in Seq(Entry) /\ typed \in [Kind -> Seq(Entry)]
  BY DEF Init, Entry
<1>2. evals \in [Req -> Seq(PolicyEvaluation)] /\ outcome \in [Req -> PolicyOutcome]
  BY DEF Init, PolicyOutcome, DenyWithoutMatch, DenyBy, NoMatchingPolicy
<1> QED BY <1>1, <1>2 DEF Init, TypeOK, Stage

LEMMA TypeStep == TypeOK /\ [Next]_vars => TypeOK'
<1> SUFFICES ASSUME TypeOK, [Next]_vars PROVE TypeOK'
  OBVIOUS
<1>1. CASE Register
  <2>1. PICK p \in Policy :
          \/ PrependInbound(p)  \/ AppendInbound(p)
          \/ PrependOutbound(p) \/ AppendOutbound(p)
          \/ \E k \in Kind : PrependAction(k, p) \/ AppendAction(k, p)
    BY <1>1 DEF Register
  <2>2. Registering /\ nextPolicyId' \in Nat
    BY <2>1 DEF PrependInbound, AppendInbound, PrependOutbound, AppendOutbound,
                PrependAction, AppendAction, Registering, AllocatePolicyId, TypeOK
  <2>3. \A queue \in Seq(Entry) : Front(p, queue) \in Seq(Entry) /\ Back(p, queue) \in Seq(Entry)
    BY EnqueueType DEF TypeOK
  <2>4. inbound' \in Seq(Entry) /\ outbound' \in Seq(Entry)
    BY <2>1, <2>3 DEF PrependInbound, AppendInbound, PrependOutbound, AppendOutbound,
                      PrependAction, AppendAction, TypeOK
  <2>5. typed' \in [Kind -> Seq(Entry)]
    <3>1. ASSUME NEW k \in Kind, PrependAction(k, p) \/ AppendAction(k, p)
          PROVE  typed' \in [Kind -> Seq(Entry)]
      <4>1. typed[k] \in Seq(Entry) /\ typed \in [Kind -> Seq(Entry)]
        BY DEF TypeOK
      <4>2. Front(p, typed[k]) \in Seq(Entry) /\ Back(p, typed[k]) \in Seq(Entry)
        BY <2>3, <4>1
      <4>3. \/ typed' = [typed EXCEPT ![k] = Front(p, typed[k])]
            \/ typed' = [typed EXCEPT ![k] = Back(p, typed[k])]
        BY <3>1 DEF PrependAction, AppendAction
      <4> QED BY <4>1, <4>2, <4>3
    <3>2. ASSUME UNCHANGED typed PROVE typed' \in [Kind -> Seq(Entry)]
      BY <3>2 DEF TypeOK
    <3> QED BY <2>1, <3>1, <3>2 DEF PrependInbound, AppendInbound, PrependOutbound, AppendOutbound
  <2> QED BY <2>2, <2>4, <2>5 DEF Registering, TypeOK, progress
<1>2. ASSUME NEW r \in Req, Ask(r) PROVE TypeOK'
  BY <1>2 DEF Ask, TypeOK, registry, progress
<1>3. ASSUME NEW r \in Req, Evaluate(r) PROVE TypeOK'
  <2> DEFINE entry == Queue(stage[r], subject[r])[pos[r]]
  <2>1. PICK d \in Verdicts(entry.policy, subject[r]) :
          /\ evals' = [evals EXCEPT ![r] =
                         Append(@, [id |-> entry.id, stage |-> stage[r], decision |-> d])]
          /\ IF Decisive(stage[r], d)
             THEN /\ pc' = [pc EXCEPT ![r] = "decided"]
                  /\ outcome' = [outcome EXCEPT ![r] = [decision |-> d, source |-> entry.id]]
                  /\ UNCHANGED pos
             ELSE /\ pos' = [pos EXCEPT ![r] = @ + 1]
                  /\ UNCHANGED <<pc, outcome>>
    BY <1>3 DEF Evaluate
  <2>2. entry \in Entry /\ d \in PolicyDecision
    BY <1>3, QueueType DEF Evaluate
  <2>3. [id |-> entry.id, stage |-> stage[r], decision |-> d] \in PolicyEvaluation
    BY <2>2 DEF PolicyEvaluation, Entry, TypeOK
  <2>4. evals' \in [Req -> Seq(PolicyEvaluation)]
    BY <2>1, <2>3 DEF TypeOK
  <2>5. CASE Decisive(stage[r], d)
    <3>1. [decision |-> d, source |-> entry.id] \in PolicyOutcome
      BY <2>2, <2>5 DEF TypeOK, PolicyOutcome, Decisive, PolicyDecision, Entry
    <3>2. outcome' \in [Req -> PolicyOutcome]
      BY <2>1, <2>5, <3>1 DEF TypeOK
    <3> QED BY <1>3, <2>1, <2>4, <2>5, <3>2 DEF Evaluate, TypeOK, registry
  <2>6. CASE ~Decisive(stage[r], d)
    <3>1. pos[r] + 1 \in Nat \ {0}
      BY DEF TypeOK
    <3>2. pos' \in [Req -> Nat \ {0}]
      BY <2>1, <2>6, <3>1 DEF TypeOK
    <3> QED BY <1>3, <2>1, <2>4, <2>6, <3>2 DEF Evaluate, TypeOK, registry
  <2> QED BY <2>5, <2>6
<1>4. ASSUME NEW r \in Req, NextStage(r) PROVE TypeOK'
  BY <1>4 DEF NextStage, TypeOK, registry, Stage
<1>5. ASSUME NEW r \in Req, NoMatch(r) PROVE TypeOK'
  <2>1. outcome' \in [Req -> PolicyOutcome]
    BY <1>5 DEF NoMatch, TypeOK, PolicyOutcome, DenyWithoutMatch, DenyBy, NoMatchingPolicy
  <2> QED BY <1>5, <2>1 DEF NoMatch, TypeOK, registry, progress
<1>6. ASSUME NEW r \in Req, MintGrant(r) PROVE TypeOK'
  BY <1>6 DEF MintGrant, TypeOK, registry, progress
<1>7. ASSUME NEW r \in Req, Deny(r) PROVE TypeOK'
  BY <1>7 DEF Deny, TypeOK, registry, progress
<1>8. ASSUME NEW r \in Req, RecordGrant(r) PROVE TypeOK'
  <2>1. GrantRecord(r, outcome[r], grantId[r])
          \in [req : Req, decision : {"allow", "deny"}, source : Nat, id : Nat]
    BY DEF GrantRecord, TypeOK, PolicyOutcome
  <2>2. audit' \in Seq([req : Req, decision : {"allow", "deny"}, source : Nat, id : Nat])
    BY <1>8, <2>1 DEF RecordGrant, TypeOK
  <2>3. pc' \in [Req -> {"idle", "deciding", "decided", "recording",
                     "granted", "refused", "cancelled"}]
    BY <1>8 DEF RecordGrant, TypeOK
  <2> QED BY <1>8, <2>2, <2>3 DEF RecordGrant, TypeOK, registry, progress
<1>9. ASSUME NEW r \in Req, Cancel(r) PROVE TypeOK'
  BY <1>9 DEF Cancel, TypeOK, registry, progress
<1>10. CASE UNCHANGED vars
  BY <1>10 DEF vars, registry, progress, TypeOK
<1>11. ASSUME NEW r \in Req, Ask(r) \/ Step(r) \/ Cancel(r) PROVE TypeOK'
  BY <1>2, <1>3, <1>4, <1>5, <1>6, <1>7, <1>8, <1>9, <1>11 DEF Step
<1> QED BY <1>1, <1>10, <1>11 DEF Next

THEOREM TypeCorrect == Spec => []TypeOK
<1>1. Init => TypeOK
  BY TypeInit
<1>2. TypeOK /\ [Next]_vars => TypeOK'
  BY TypeStep
<1> QED BY <1>1, <1>2, PTL DEF Spec, Safety

-----------------------------------------------------------------------------
(* The envelope survives registration: at either end of the inbound queue  *)
(* a new policy leaves the others in place.                                *)
LEMMA EnqueueKeepsEnvelope ==
  ASSUME NEW p \in Policy, TypeOK, EnvelopeInstalled,
         inbound' = Front(p, inbound) \/ inbound' = Back(p, inbound)
  PROVE  EnvelopeInstalled'
<1> DEFINE e == [id |-> nextPolicyId, policy |-> p]
<1>1. PICK i \in 1..Len(inbound) : inbound[i].policy = Envelope
  BY DEF EnvelopeInstalled
<1>2. inbound \in Seq(Entry) /\ e \in Entry
  BY DEF TypeOK, Entry
<1>3. CASE inbound' = Front(p, inbound)
  <2>1. <<e>> \in Seq(Entry) /\ Len(<<e>>) = 1
    BY <1>2
  <2>2. Len(inbound') = Len(inbound) + 1 /\ inbound'[i + 1] = inbound[i]
    BY <1>2, <1>3, <2>1, ConcatProperties DEF Front
  <2>3. i + 1 \in 1..Len(inbound')
    BY <1>2, <2>2
  <2> QED BY <1>1, <2>2, <2>3 DEF EnvelopeInstalled
<1>4. CASE inbound' = Back(p, inbound)
  <2>1. Len(inbound') = Len(inbound) + 1 /\ inbound'[i] = inbound[i]
    BY <1>2, <1>4, AppendProperties DEF Back
  <2>2. i \in 1..Len(inbound')
    BY <1>2, <2>1
  <2> QED BY <1>1, <2>1, <2>2 DEF EnvelopeInstalled
<1> QED BY <1>3, <1>4

LEMMA EnvelopeInit == Init => EnvelopeInv
<1> SUFFICES ASSUME Init PROVE EnvelopeInv
  OBVIOUS
<1>1. Len(inbound) = 1 /\ inbound[1].policy = Envelope
  BY DEF Init
<1>2. EnvelopeInstalled
  BY <1>1 DEF EnvelopeInstalled
<1>3. \A r \in Req : pc[r] = "idle" /\ stage[r] = "inbound" /\ pos[r] = 1
  BY DEF Init
<1> QED BY <1>2, <1>3 DEF EnvelopeInv, Allowed

(* A step of a call changes the invariant for that call only: it leaves    *)
(* the queues alone and every other call where it is.                      *)
LEMMA EnvelopeOneCall ==
  ASSUME TypeOK, EnvelopeInv, NEW r \in Req, UNCHANGED <<registry, subject>>,
         \A q \in Req \ {r} : /\ pc'[q] = pc[q] /\ stage'[q] = stage[q]
                               /\ pos'[q] = pos[q] /\ outcome'[q] = outcome[q],
         pc'[r] # "idle",
         pc'[r] = "deciding" /\ PastEnvelope(r)' => Within(subject[r]),
         Allowed(r)' => Within(subject[r])
  PROVE  EnvelopeInv'
<1>1. EnvelopeInstalled'
  BY DEF EnvelopeInv, EnvelopeInstalled, registry
<1>2. ASSUME NEW q \in Req, q # r
      PROVE  /\ pc[q]' = "idle" => stage[q]' = "inbound" /\ pos[q]' = 1
             /\ pc[q]' = "deciding" /\ PastEnvelope(q)' => Within(subject[q])'
             /\ Allowed(q)' => Within(subject[q])'
  BY <1>2 DEF EnvelopeInv, PastEnvelope, Allowed, Within, registry
<1>3. /\ pc[r]' = "idle" => stage[r]' = "inbound" /\ pos[r]' = 1
      /\ pc[r]' = "deciding" /\ PastEnvelope(r)' => Within(subject[r])'
      /\ Allowed(r)' => Within(subject[r])'
  BY DEF Within
<1> QED BY <1>1, <1>2, <1>3 DEF EnvelopeInv

LEMMA EnvelopeStep == TypeOK /\ EnvelopeInv /\ [Next]_vars => EnvelopeInv'
<1> SUFFICES ASSUME TypeOK, EnvelopeInv, [Next]_vars PROVE EnvelopeInv'
  OBVIOUS
<1>1. CASE Register
  <2>1. PICK p \in Policy :
          \/ PrependInbound(p)  \/ AppendInbound(p)
          \/ PrependOutbound(p) \/ AppendOutbound(p)
          \/ \E k \in Kind : PrependAction(k, p) \/ AppendAction(k, p)
    BY <1>1 DEF Register
  <2>2. /\ Exclusive
        /\ UNCHANGED <<subject, pc, stage, pos, outcome>>
    BY <2>1 DEF PrependInbound, AppendInbound, PrependOutbound, AppendOutbound,
                PrependAction, AppendAction, Registering, progress
  <2>3. EnvelopeInstalled'
    <3>1. \/ inbound' = Front(p, inbound) \/ inbound' = Back(p, inbound)
          \/ inbound' = inbound
      BY <2>1 DEF PrependInbound, AppendInbound, PrependOutbound, AppendOutbound,
                  PrependAction, AppendAction
    <3>2. CASE inbound' = inbound
      BY <3>2 DEF EnvelopeInv, EnvelopeInstalled
    <3> QED BY <3>1, <3>2, EnqueueKeepsEnvelope DEF EnvelopeInv
  <2>4. \A r \in Req : pc[r]' # "deciding"
    BY <2>2 DEF Exclusive, InFlight
  <2>5. \A r \in Req : Allowed(r)' => Within(subject[r])'
    BY <2>2 DEF Allowed, EnvelopeInv, Within
  <2>6. \A r \in Req : pc[r]' = "idle" => stage[r]' = "inbound" /\ pos[r]' = 1
    BY <2>2 DEF EnvelopeInv
  <2> QED BY <2>3, <2>4, <2>5, <2>6 DEF EnvelopeInv
<1>2. ASSUME NEW r \in Req, Ask(r) PROVE EnvelopeInv'
  <2>1. pc' = [pc EXCEPT ![r] = "deciding"] /\ UNCHANGED <<registry, subject, stage, pos, outcome>>
    BY <1>2 DEF Ask, progress
  <2>2. stage'[r] = "inbound" /\ pos'[r] = 1
    BY <1>2, <2>1 DEF Ask, EnvelopeInv
  <2>3. ~PastEnvelope(r)'
    BY <2>1, <2>2 DEF PastEnvelope
  <2>4. pc'[r] = "deciding" /\ \A q \in Req \ {r} : pc'[q] = pc[q]
    BY <2>1 DEF TypeOK
  <2> QED BY <2>1, <2>3, <2>4, EnvelopeOneCall DEF Allowed
<1>3. ASSUME NEW r \in Req, Evaluate(r) PROVE EnvelopeInv'
  <2> DEFINE queue == Queue(stage[r], subject[r])
             entry == queue[pos[r]]
  <2>1. PICK d \in Verdicts(entry.policy, subject[r]) :
          IF Decisive(stage[r], d)
          THEN /\ pc' = [pc EXCEPT ![r] = "decided"]
               /\ outcome' = [outcome EXCEPT ![r] = [decision |-> d, source |-> entry.id]]
               /\ UNCHANGED pos
          ELSE /\ pos' = [pos EXCEPT ![r] = @ + 1]
               /\ UNCHANGED <<pc, outcome>>
    BY <1>3 DEF Evaluate
  <2>2. pc[r] = "deciding" /\ UNCHANGED <<registry, subject, stage>>
    BY <1>3 DEF Evaluate, Awaiting
  <2>3. CASE Decisive(stage[r], d)
    <3>1. /\ pc'[r] = "decided" /\ outcome'[r].decision = d
          /\ \A q \in Req \ {r} : pc'[q] = pc[q] /\ outcome'[q] = outcome[q] /\ pos'[q] = pos[q]
      BY <2>1, <2>3 DEF TypeOK
    <3>2. Allowed(r)' => stage[r] # "inbound"
      BY <2>3, <3>1 DEF Allowed, Decisive
    <3>3. Allowed(r)' => Within(subject[r])
      BY <2>2, <3>2 DEF EnvelopeInv, PastEnvelope
    <3> QED BY <2>2, <3>1, <3>3, EnvelopeOneCall
  <2>4. CASE ~Decisive(stage[r], d)
    <3>1. /\ pc'[r] = "deciding" /\ pos'[r] = pos[r] + 1
          /\ \A q \in Req \ {r} : pc'[q] = pc[q] /\ outcome'[q] = outcome[q] /\ pos'[q] = pos[q]
      BY <2>1, <2>2, <2>4 DEF TypeOK
    <3>2. ASSUME PastEnvelope(r)' PROVE Within(subject[r])
      <4>1. CASE PastEnvelope(r)
        BY <2>2, <4>1 DEF EnvelopeInv
      <4>2. CASE ~PastEnvelope(r)
        <5>1. stage[r] = "inbound" /\ queue = inbound
          BY <4>2 DEF PastEnvelope, Queue
        <5>2. PICK i \in 1..Len(inbound) : i < pos[r] + 1 /\ inbound[i].policy = Envelope
          BY <2>2, <3>1, <3>2, <5>1 DEF PastEnvelope, registry
        <5>3. i = pos[r]
          BY <4>2, <5>2 DEF PastEnvelope, TypeOK
        <5>4. entry.policy = Envelope
          BY <5>1, <5>2, <5>3
        <5>5. d # "deny"
          BY <2>4, <5>1 DEF Decisive
        <5> QED BY <5>4, <5>5 DEF Verdicts
      <4> QED BY <4>1, <4>2
    <3> QED BY <2>2, <3>1, <3>2, EnvelopeOneCall DEF Allowed
  <2> QED BY <2>3, <2>4
<1>4. ASSUME NEW r \in Req, NextStage(r) PROVE EnvelopeInv'
  <2>1. /\ pc[r] = "deciding" /\ UNCHANGED <<registry, subject, pc, outcome>>
        /\ stage[r] # "outbound"
        /\ pos[r] > Len(Queue(stage[r], subject[r]))
    BY <1>4 DEF NextStage, Exhausted
  <2>2. \A q \in Req \ {r} : stage'[q] = stage[q] /\ pos'[q] = pos[q]
    BY <1>4 DEF NextStage, TypeOK
  <2>3. PastEnvelope(r)
    <3>1. CASE stage[r] # "inbound"
      BY <3>1 DEF PastEnvelope
    <3>2. CASE stage[r] = "inbound"
      <4>1. pos[r] > Len(inbound)
        BY <2>1, <3>2 DEF Queue
      <4>2. PICK i \in 1..Len(inbound) : inbound[i].policy = Envelope
        BY DEF EnvelopeInv, EnvelopeInstalled
      <4>3. i < pos[r]
        BY <4>1, <4>2 DEF TypeOK
      <4> QED BY <4>2, <4>3 DEF PastEnvelope
    <3> QED BY <3>1, <3>2
  <2>4. Within(subject[r])
    BY <2>1, <2>3 DEF EnvelopeInv
  <2> QED BY <2>1, <2>2, <2>4, EnvelopeOneCall
<1>5. ASSUME NEW r \in Req, NoMatch(r) PROVE EnvelopeInv'
  <2>1. /\ UNCHANGED <<registry, subject, stage, pos>>
        /\ pc'[r] = "decided" /\ outcome'[r].decision = "deny"
        /\ \A q \in Req \ {r} : pc'[q] = pc[q] /\ outcome'[q] = outcome[q]
    BY <1>5 DEF NoMatch, TypeOK, progress, DenyWithoutMatch, DenyBy
  <2> QED BY <2>1, EnvelopeOneCall DEF Allowed
<1>6. ASSUME NEW r \in Req, MintGrant(r) \/ Deny(r) \/ RecordGrant(r) PROVE EnvelopeInv'
  <2>1. /\ UNCHANGED <<registry, subject, stage, pos, outcome>>
        /\ pc[r] \in {"decided", "recording"}
    BY <1>6 DEF MintGrant, Deny, RecordGrant, progress
  <2>2. /\ pc'[r] \in {"recording", "refused", "granted"}
        /\ \A q \in Req \ {r} : pc'[q] = pc[q]
    <3>1. CASE MintGrant(r) \/ Deny(r)
      BY <3>1 DEF MintGrant, Deny, TypeOK
    <3>2. CASE RecordGrant(r)
      BY <3>2 DEF RecordGrant, TypeOK
    <3> QED BY <1>6, <3>1, <3>2
  <2>3. Allowed(r)' => Allowed(r)
    BY <2>1 DEF Allowed
  <2> QED BY <2>1, <2>2, <2>3, EnvelopeOneCall DEF EnvelopeInv
<1>7. ASSUME NEW r \in Req, Cancel(r) PROVE EnvelopeInv'
  <2>1. /\ UNCHANGED <<registry, subject, stage, pos, outcome>>
        /\ pc'[r] = "cancelled" /\ \A q \in Req \ {r} : pc'[q] = pc[q]
    BY <1>7 DEF Cancel, TypeOK, progress
  <2> QED BY <2>1, EnvelopeOneCall DEF Allowed
<1>8. CASE UNCHANGED vars
  BY <1>8 DEF vars, registry, progress, EnvelopeInv, EnvelopeInstalled, PastEnvelope,
              Allowed, Within
<1>9. ASSUME NEW r \in Req, Ask(r) \/ Step(r) \/ Cancel(r) PROVE EnvelopeInv'
  BY <1>2, <1>3, <1>4, <1>5, <1>6, <1>7, <1>9 DEF Step
<1> QED BY <1>1, <1>8, <1>9 DEF Next

(* EnvelopeInv for every registry: the envelope is queued inbound whatever *)
(* is registered around it, and no call gets past it outside the caller's  *)
(* capabilities (kernel KernelRuntime::new, registry.rs, pipeline.rs).     *)
THEOREM EnvelopeStaysInForce == Spec => []EnvelopeInv
<1>1. Init => TypeOK /\ EnvelopeInv
  BY TypeInit, EnvelopeInit
<1>2. TypeOK /\ EnvelopeInv /\ [Next]_vars => (TypeOK /\ EnvelopeInv)'
  BY TypeStep, EnvelopeStep
<1> QED BY <1>1, <1>2, PTL DEF Spec, Safety

(* EnvelopeGate for every registry: no order of registration and no answer *)
(* of any policy lets an action pass that the caller's capabilities do not *)
(* cover (pipeline.rs decide, builtins.rs CapabilityEnvelopePolicy).       *)
THEOREM EnvelopeSound == Spec => []EnvelopeGate
<1>1. EnvelopeInv => EnvelopeGate
  BY DEF EnvelopeInv, EnvelopeGate
<1> QED BY <1>1, EnvelopeStaysInForce, PTL

-----------------------------------------------------------------------------
(* Every id drawn so far lies below the counter.                           *)
IdsBelowCounter == \A r \in Req : grantId[r] < nextGrantId

(* GrantIdsUnique for any number of concurrent calls: the counter passes   *)
(* every id it has handed out (core/src/policy/traits.rs next_grant_id).   *)
THEOREM GrantIdsNeverShared == Spec => []GrantIdsUnique
<1> DEFINE Inv == IdsBelowCounter /\ GrantIdsUnique
<1>1. Init => Inv
  BY DEF Init, IdsBelowCounter, GrantIdsUnique
<1>2. TypeOK /\ Inv /\ [Next]_vars => Inv'
  <2> SUFFICES ASSUME TypeOK, Inv, [Next]_vars PROVE Inv'
    OBVIOUS
  <2>1. ASSUME NEW r \in Req, MintGrant(r) PROVE Inv'
    <3>1. grantId'[r] = nextGrantId /\ \A q \in Req \ {r} : grantId'[q] = grantId[q]
      BY <2>1 DEF MintGrant, TypeOK
    <3>2. nextGrantId' = nextGrantId + 1
      BY <2>1 DEF MintGrant
    <3>3. ASSUME NEW q \in Req PROVE grantId'[q] < nextGrantId'
      <4>1. grantId[q] < nextGrantId /\ grantId[q] \in Nat /\ nextGrantId \in Nat
        BY DEF IdsBelowCounter, TypeOK
      <4> QED BY <3>1, <3>2, <4>1
    <3>4. ASSUME NEW p \in Req, NEW q \in Req, p # q, grantId'[p] # 0
          PROVE  grantId'[p] # grantId'[q]
      <4>1. CASE p = r
        BY <3>1, <3>4, <4>1 DEF IdsBelowCounter, TypeOK
      <4>2. CASE q = r
        BY <3>1, <3>4, <4>2 DEF IdsBelowCounter, TypeOK
      <4>3. CASE p # r /\ q # r
        BY <3>1, <3>4, <4>3 DEF GrantIdsUnique
      <4> QED BY <4>1, <4>2, <4>3
    <3> QED BY <3>3, <3>4 DEF GrantIdsUnique, IdsBelowCounter
  <2>2. CASE UNCHANGED <<grantId, nextGrantId>>
    BY <2>2 DEF IdsBelowCounter, GrantIdsUnique
  <2>3. \/ \E r \in Req : MintGrant(r)
        \/ UNCHANGED <<grantId, nextGrantId>>
    BY DEF Next, Register, PrependInbound, AppendInbound, PrependAction, AppendAction,
           PrependOutbound, AppendOutbound, Registering, Ask, Step, Evaluate, NextStage,
           NoMatch, Deny, RecordGrant, Cancel, vars
  <2> QED BY <2>1, <2>2, <2>3
<1> QED BY <1>1, <1>2, TypeCorrect, PTL DEF Spec, Safety

-----------------------------------------------------------------------------
(* Policy ids                                                              *)

Ids(queue) == {queue[i].id : i \in 1..Len(queue)}

Distinct(queue) == \A i, j \in 1..Len(queue) : i # j => queue[i].id # queue[j].id

Apart(S, T) == \A id \in S : id \notin T

Used == 1..(nextPolicyId - 1)

(* Every id in a queue was handed out, and to this queue only. *)
IdsInv ==
  /\ Distinct(inbound) /\ Distinct(outbound) /\ \A k \in Kind : Distinct(typed[k])
  /\ nextPolicyId \in Nat \ {0}
  /\ Ids(inbound) \subseteq Used /\ Ids(outbound) \subseteq Used
  /\ \A k \in Kind : Ids(typed[k]) \subseteq Used
  /\ Apart(Ids(inbound), Ids(outbound))
  /\ \A k \in Kind : Apart(Ids(typed[k]), Ids(inbound)) /\ Apart(Ids(typed[k]), Ids(outbound))
  /\ \A k, l \in Kind : k # l => Apart(Ids(typed[k]), Ids(typed[l]))

LEMMA EnqueueIds ==
  ASSUME NEW p \in Policy, NEW queue \in Seq(Entry), nextPolicyId \in Nat,
         NEW more, more = Front(p, queue) \/ more = Back(p, queue),
         Distinct(queue), nextPolicyId \notin Ids(queue)
  PROVE  Distinct(more) /\ Ids(more) = Ids(queue) \cup {nextPolicyId}
<1> DEFINE e == [id |-> nextPolicyId, policy |-> p]
           n == Len(queue)
<1>1. e \in Entry /\ <<e>> \in Seq(Entry) /\ Len(<<e>>) = 1 /\ <<e>>[1] = e /\ n \in Nat
  BY DEF Entry
<1>2. \A i \in 1..n : queue[i].id # nextPolicyId
  BY DEF Ids
<1>3. CASE more = Front(p, queue)
  <2>1. more = <<e>> \o queue
    BY <1>3 DEF Front
  <2>2. /\ Len(more) = n + 1 /\ more[1] = e
        /\ \A i \in 2..(n + 1) : more[i] = queue[i - 1]
    BY <1>1, <2>1, ConcatProperties
  <2>3. \A i \in 1..n : i + 1 \in 2..(n + 1) /\ more[i + 1] = queue[i]
    BY <1>1, <2>2
  <2>4. Distinct(more)
    <3> SUFFICES ASSUME NEW i \in 1..Len(more), NEW j \in 1..Len(more), i < j
                 PROVE  more[i].id # more[j].id
      BY <1>1, <2>2 DEF Distinct
    <3>1. j \in 2..(n + 1) /\ j - 1 \in 1..n /\ more[j] = queue[j - 1]
      BY <1>1, <2>2
    <3>2. CASE i = 1
      BY <1>2, <2>2, <3>1, <3>2
    <3>3. CASE i # 1
      <4>1. i - 1 \in 1..n /\ i - 1 # j - 1 /\ more[i] = queue[i - 1]
        BY <1>1, <2>2, <3>3
      <4> QED BY <3>1, <4>1 DEF Distinct
    <3> QED BY <3>2, <3>3
  <2>5. Ids(more) \subseteq Ids(queue) \cup {nextPolicyId}
    <3> SUFFICES ASSUME NEW i \in 1..Len(more)
                 PROVE  more[i].id = nextPolicyId \/ more[i].id \in Ids(queue)
      BY DEF Ids
    <3>1. i = 1 \/ (i - 1 \in 1..n /\ more[i] = queue[i - 1])
      BY <1>1, <2>2
    <3> QED BY <2>2, <3>1 DEF Ids
  <2>6. Ids(queue) \cup {nextPolicyId} \subseteq Ids(more)
    <3>1. nextPolicyId \in Ids(more)
      <4>1. 1 \in 1..Len(more) /\ more[1].id = nextPolicyId
        BY <1>1, <2>2
      <4> QED BY <4>1 DEF Ids
    <3>2. ASSUME NEW i \in 1..n PROVE queue[i].id \in Ids(more)
      <4>1. i + 1 \in 1..Len(more) /\ more[i + 1] = queue[i]
        BY <1>1, <2>2, <2>3
      <4> QED BY <4>1 DEF Ids
    <3> QED BY <3>1, <3>2 DEF Ids
  <2> QED BY <2>4, <2>5, <2>6
<1>4. CASE more = Back(p, queue)
  <2>1. more = Append(queue, e)
    BY <1>4 DEF Back
  <2>2. /\ Len(more) = n + 1 /\ more[n + 1] = e
        /\ \A i \in 1..n : more[i] = queue[i]
    BY <1>1, <2>1, AppendProperties
  <2>3. Distinct(more)
    <3> SUFFICES ASSUME NEW i \in 1..Len(more), NEW j \in 1..Len(more), i < j
                 PROVE  more[i].id # more[j].id
      BY <1>1, <2>2 DEF Distinct
    <3>1. i \in 1..n
      BY <1>1, <2>2
    <3>2. CASE j = n + 1
      BY <1>2, <2>2, <3>1, <3>2
    <3>3. CASE j # n + 1
      <4>1. j \in 1..n /\ i # j
        BY <1>1, <2>2, <3>3
      <4> QED BY <2>2, <3>1, <4>1 DEF Distinct
    <3> QED BY <3>2, <3>3
  <2>4. Ids(more) \subseteq Ids(queue) \cup {nextPolicyId}
    <3> SUFFICES ASSUME NEW i \in 1..Len(more)
                 PROVE  more[i].id = nextPolicyId \/ more[i].id \in Ids(queue)
      BY DEF Ids
    <3>1. i = n + 1 \/ i \in 1..n
      BY <1>1, <2>2
    <3> QED BY <2>2, <3>1 DEF Ids
  <2>5. Ids(queue) \cup {nextPolicyId} \subseteq Ids(more)
    <3>1. 1..n \subseteq 1..Len(more) /\ n + 1 \in 1..Len(more)
      BY <1>1, <2>2
    <3> QED BY <2>2, <3>1 DEF Ids
  <2> QED BY <2>3, <2>4, <2>5
<1> QED BY <1>3, <1>4

LEMMA IdsInit == Init => IdsInv
<1> SUFFICES ASSUME Init PROVE IdsInv
  OBVIOUS
<1>1. Ids(<<>>) = {} /\ Distinct(<<>>)
  BY DEF Ids, Distinct
<1>2. Ids(inbound) = {1} /\ Distinct(inbound)
  BY DEF Init, Ids, Distinct
<1> QED BY <1>1, <1>2 DEF Init, IdsInv, Apart, Used

LEMMA IdsStep == TypeOK /\ IdsInv /\ [Next]_vars => IdsInv'
<1> SUFFICES ASSUME TypeOK, IdsInv, [Next]_vars PROVE IdsInv'
  OBVIOUS
<1>1. CASE UNCHANGED registry
  BY <1>1 DEF registry, IdsInv, Used
<1>2. CASE Register
  <2> DEFINE n == nextPolicyId
  <2>1. PICK p \in Policy :
          \/ PrependInbound(p)  \/ AppendInbound(p)
          \/ PrependOutbound(p) \/ AppendOutbound(p)
          \/ \E k \in Kind : PrependAction(k, p) \/ AppendAction(k, p)
    BY <1>2 DEF Register
  <2>2. nextPolicyId' = n + 1
    BY <2>1 DEF PrependInbound, AppendInbound, PrependOutbound, AppendOutbound,
                PrependAction, AppendAction, Registering, AllocatePolicyId
  <2>3. /\ nextPolicyId' \in Nat \ {0} /\ n \notin Used /\ n \in Used'
        /\ \A id \in Used : id \in Used'
    BY <2>2 DEF IdsInv, Used
  <2>4. n \notin Ids(inbound) /\ n \notin Ids(outbound) /\ \A k \in Kind : n \notin Ids(typed[k])
    BY <2>3 DEF IdsInv
  <2>5. CASE PrependInbound(p) \/ AppendInbound(p)
    <3>1. /\ UNCHANGED <<outbound, typed>>
          /\ (inbound' = Front(p, inbound) \/ inbound' = Back(p, inbound))
      BY <2>5 DEF PrependInbound, AppendInbound
    <3>2. Distinct(inbound') /\ Ids(inbound') = Ids(inbound) \cup {n}
      BY <2>4, <3>1, EnqueueIds DEF TypeOK, IdsInv
    <3> HIDE DEF n
    <3>3. /\ Distinct(outbound') /\ \A k \in Kind : Distinct(typed'[k])
          /\ Ids(inbound') \subseteq Used' /\ Ids(outbound') \subseteq Used'
          /\ \A k \in Kind : Ids(typed'[k]) \subseteq Used'
      BY <2>3, <3>1, <3>2 DEF IdsInv
    <3>4. /\ Apart(Ids(inbound'), Ids(outbound'))
          /\ \A k \in Kind : /\ Apart(Ids(typed'[k]), Ids(inbound'))
                             /\ Apart(Ids(typed'[k]), Ids(outbound'))
      BY <2>4, <3>1, <3>2 DEF IdsInv, Apart
    <3>5. \A k, l \in Kind : k # l => Apart(Ids(typed'[k]), Ids(typed'[l]))
      BY <3>1 DEF IdsInv
    <3> QED BY <2>3, <3>2, <3>3, <3>4, <3>5 DEF IdsInv
  <2>6. CASE PrependOutbound(p) \/ AppendOutbound(p)
    <3>1. /\ UNCHANGED <<inbound, typed>>
          /\ (outbound' = Front(p, outbound) \/ outbound' = Back(p, outbound))
      BY <2>6 DEF PrependOutbound, AppendOutbound
    <3>2. Distinct(outbound') /\ Ids(outbound') = Ids(outbound) \cup {n}
      BY <2>4, <3>1, EnqueueIds DEF TypeOK, IdsInv
    <3> HIDE DEF n
    <3>3. /\ Distinct(inbound') /\ \A k \in Kind : Distinct(typed'[k])
          /\ Ids(inbound') \subseteq Used' /\ Ids(outbound') \subseteq Used'
          /\ \A k \in Kind : Ids(typed'[k]) \subseteq Used'
      BY <2>3, <3>1, <3>2 DEF IdsInv
    <3>4. /\ Apart(Ids(inbound'), Ids(outbound'))
          /\ \A k \in Kind : /\ Apart(Ids(typed'[k]), Ids(inbound'))
                             /\ Apart(Ids(typed'[k]), Ids(outbound'))
      BY <2>4, <3>1, <3>2 DEF IdsInv, Apart
    <3>5. \A k, l \in Kind : k # l => Apart(Ids(typed'[k]), Ids(typed'[l]))
      BY <3>1 DEF IdsInv
    <3> QED BY <2>3, <3>2, <3>3, <3>4, <3>5 DEF IdsInv
  <2>7. ASSUME NEW k \in Kind, PrependAction(k, p) \/ AppendAction(k, p) PROVE IdsInv'
    <3>1. /\ UNCHANGED <<inbound, outbound>>
          /\ typed'[k] = Front(p, typed[k]) \/ typed'[k] = Back(p, typed[k])
          /\ \A l \in Kind \ {k} : typed'[l] = typed[l]
      BY <2>7 DEF PrependAction, AppendAction, TypeOK
    <3>2. Distinct(typed'[k]) /\ Ids(typed'[k]) = Ids(typed[k]) \cup {n}
      BY <2>4, <3>1, EnqueueIds DEF TypeOK, IdsInv
    <3> HIDE DEF n
    <3>3. /\ Distinct(inbound') /\ Distinct(outbound')
          /\ Ids(inbound') \subseteq Used' /\ Ids(outbound') \subseteq Used'
          /\ Apart(Ids(inbound'), Ids(outbound'))
      BY <2>3, <3>1 DEF IdsInv
    <3>4. ASSUME NEW l \in Kind
          PROVE  /\ Distinct(typed'[l]) /\ Ids(typed'[l]) \subseteq Used'
                 /\ Apart(Ids(typed'[l]), Ids(inbound')) /\ Apart(Ids(typed'[l]), Ids(outbound'))
      <4>1. CASE l = k
        BY <2>3, <2>4, <3>1, <3>2, <4>1 DEF IdsInv, Apart
      <4>2. CASE l # k
        BY <2>3, <3>1, <4>2 DEF IdsInv
      <4> QED BY <4>1, <4>2
    <3>5. ASSUME NEW l \in Kind, NEW m \in Kind, l # m PROVE Apart(Ids(typed'[l]), Ids(typed'[m]))
      <4>1. Apart(Ids(typed[l]), Ids(typed[m]))
        BY <3>5 DEF IdsInv
      <4> QED BY <2>4, <3>1, <3>2, <3>5, <4>1 DEF Apart
    <3> QED BY <2>3, <3>3, <3>4, <3>5 DEF IdsInv
  <2> QED BY <2>1, <2>5, <2>6, <2>7
<1>3. Register \/ UNCHANGED registry
  BY DEF Next, Ask, Step, Evaluate, NextStage, NoMatch, MintGrant, Deny, RecordGrant, Cancel, vars
<1> QED BY <1>1, <1>2, <1>3

(* PolicyIdsUnique for any registry: prepending and appending on three     *)
(* kinds of queue, an id names one registered policy for good (kernel      *)
(* registry.rs PolicyRegistry::allocate_policy_id).                        *)
THEOREM PolicyIdsNameOne == Spec => []PolicyIdsUnique
<1>1. IdsInv => PolicyIdsUnique
  <2> SUFFICES ASSUME IdsInv PROVE PolicyIdsUnique
    OBVIOUS
  <2>1. \A queue \in AllQueues : Distinct(queue)
    BY DEF AllQueues, IdsInv
  <2>2. \A i \in 1..Len(inbound), j \in 1..Len(outbound) : inbound[i].id # outbound[j].id
    BY DEF IdsInv, Apart, Ids
  <2>3. \A k \in Kind : \A queue \in {inbound, outbound} \cup {typed[l] : l \in Kind \ {k}} :
          Apart(Ids(typed[k]), Ids(queue))
    BY DEF IdsInv
  <2>4. \A k \in Kind : \A i \in 1..Len(typed[k]) :
          \A queue \in {inbound, outbound} \cup {typed[l] : l \in Kind \ {k}} :
            \A j \in 1..Len(queue) : typed[k][i].id # queue[j].id
    BY <2>3 DEF Apart, Ids
  <2> QED BY <2>1, <2>2, <2>4 DEF PolicyIdsUnique, Distinct
<1>2. Init => TypeOK /\ IdsInv
  BY TypeInit, IdsInit
<1>3. TypeOK /\ IdsInv /\ [Next]_vars => (TypeOK /\ IdsInv)'
  BY TypeStep, IdsStep
<1> QED BY <1>1, <1>2, <1>3, PTL DEF Spec, Safety

-----------------------------------------------------------------------------
(* Reports                                                                 *)

(* The policies asked before a stage is entered. *)
Before(st, s) ==
  CASE st = "inbound"  -> 0
    [] st = "action"   -> Len(inbound)
    [] st = "outbound" -> Len(inbound) + Len(typed[KindOf[s.action]])

(* A report lists the registered policies in order, from the first. *)
Listed(seen, s) ==
  /\ Len(seen) <= Len(EvaluationOrder(s))
  /\ \A i \in 1..Len(seen) :
       EvaluationOrder(s)[i] = [id |-> seen[i].id, stage |-> seen[i].stage]

LeftOpen(seen) == \A i \in 1..Len(seen) : Neutral(seen[i])

Explained(r) ==
  LET seen == evals[r]
      n    == Len(seen)
  IN  /\ Listed(seen, subject[r])
      /\ \A i \in 1..n : i < n => Neutral(seen[i])
      /\ IF outcome[r] = DenyWithoutMatch
         THEN n = Len(EvaluationOrder(subject[r])) /\ (n > 0 => Neutral(seen[n]))
         ELSE /\ n > 0
              /\ ~Neutral(seen[n])
              /\ outcome[r] = [decision |-> seen[n].decision, source |-> seen[n].id]

(* Where a call is in the queues, and what its report lists by then. *)
ReportOf(r) ==
  /\ pc[r] = "idle" => stage[r] = "inbound" /\ pos[r] = 1 /\ evals[r] = <<>>
  /\ pc[r] = "deciding" =>
       /\ pos[r] <= Len(Queue(stage[r], subject[r])) + 1
       /\ Len(evals[r]) = Before(stage[r], subject[r]) + pos[r] - 1
       /\ Listed(evals[r], subject[r])
       /\ LeftOpen(evals[r])
  /\ pc[r] \in {"decided", "recording"} => Explained(r)

ReportInv == \A r \in Req : ReportOf(r)

(* Where the elements of a concatenation come from. *)
LEMMA ConcatAt ==
  ASSUME NEW T, NEW s \in Seq(T), NEW t \in Seq(T)
  PROVE  /\ s \o t \in Seq(T) /\ Len(s \o t) = Len(s) + Len(t)
         /\ \A i \in 1..Len(s) : (s \o t)[i] = s[i]
         /\ \A i \in 1..Len(t) : (s \o t)[Len(s) + i] = t[i]
<1>1. /\ s \o t \in Seq(T) /\ Len(s \o t) = Len(s) + Len(t)
      /\ \A i \in 1..(Len(s) + Len(t)) :
           (s \o t)[i] = IF i <= Len(s) THEN s[i] ELSE t[i - Len(s)]
  BY ConcatProperties
<1>2. Len(s) \in Nat /\ Len(t) \in Nat
  OBVIOUS
<1>3. ASSUME NEW i \in 1..Len(s) PROVE (s \o t)[i] = s[i]
  BY <1>1, <1>2
<1>4. ASSUME NEW i \in 1..Len(t) PROVE (s \o t)[Len(s) + i] = t[i]
  <2>1. /\ Len(s) + i \in 1..(Len(s) + Len(t)) /\ ~(Len(s) + i <= Len(s))
        /\ (Len(s) + i) - Len(s) = i
    BY <1>2
  <2> QED BY <1>1, <2>1
<1> QED BY <1>1, <1>3, <1>4

(* The order of evaluation is the three queues end to end: a stage's       *)
(* policies stand after those asked before it.                             *)
LEMMA OrderAt ==
  ASSUME TypeOK, NEW s \in Subject
  PROVE  /\ EvaluationOrder(s) \in Seq([id : Nat, stage : Stage])
         /\ Len(EvaluationOrder(s)) = Before("outbound", s) + Len(outbound)
         /\ \A st \in Stage : \A i \in 1..Len(Queue(st, s)) :
              /\ Before(st, s) + i \in 1..Len(EvaluationOrder(s))
              /\ EvaluationOrder(s)[Before(st, s) + i] = [id |-> Queue(st, s)[i].id, stage |-> st]
<1> DEFINE T == [id : Nat, stage : Stage]
           own == typed[KindOf[s.action]]
           A == Tagged("inbound", inbound)
           B == Tagged("action", own)
           C == Tagged("outbound", outbound)
<1>1. inbound \in Seq(Entry) /\ own \in Seq(Entry) /\ outbound \in Seq(Entry)
  BY PipelineAssumption DEF TypeOK, Subject
<1>2. ASSUME NEW st \in Stage, NEW queue \in Seq(Entry)
      PROVE  Tagged(st, queue) \in Seq(T) /\ Len(Tagged(st, queue)) = Len(queue)
  <2>1. ASSUME NEW i \in 1..Len(queue) PROVE [id |-> queue[i].id, stage |-> st] \in T
    <3>1. queue[i] \in Entry
      OBVIOUS
    <3> QED BY <3>1 DEF Entry
  <2> HIDE DEF T
  <2>2. Tagged(st, queue) \in [1..Len(queue) -> T] /\ Len(queue) \in Nat
    BY <2>1 DEF Tagged
  <2>3. Tagged(st, queue) \in Seq(T)
    BY <2>2, IsASeq
  <2>4. DOMAIN Tagged(st, queue) = 1..Len(queue)
    BY DEF Tagged
  <2> QED BY <2>2, <2>3, <2>4, LenProperties
<1>3. /\ A \in Seq(T) /\ Len(A) = Len(inbound)
      /\ B \in Seq(T) /\ Len(B) = Len(own)
      /\ C \in Seq(T) /\ Len(C) = Len(outbound)
  BY <1>1, <1>2 DEF Stage
<1>4. /\ \A i \in 1..Len(inbound) : A[i] = [id |-> inbound[i].id, stage |-> "inbound"]
      /\ \A i \in 1..Len(own) : B[i] = [id |-> own[i].id, stage |-> "action"]
      /\ \A i \in 1..Len(outbound) : C[i] = [id |-> outbound[i].id, stage |-> "outbound"]
  BY DEF Tagged
<1>5. EvaluationOrder(s) = (A \o B) \o C
  BY DEF EvaluationOrder
<1>6. /\ Queue("inbound", s) = inbound /\ Queue("action", s) = own
      /\ Queue("outbound", s) = outbound
      /\ Before("inbound", s) = 0 /\ Before("action", s) = Len(inbound)
      /\ Before("outbound", s) = Len(inbound) + Len(own)
  BY DEF Queue, Before
<1> HIDE DEF T, own, A, B, C
<1>7. /\ A \o B \in Seq(T) /\ Len(A \o B) = Len(A) + Len(B)
      /\ \A i \in 1..Len(A) : (A \o B)[i] = A[i]
      /\ \A i \in 1..Len(B) : (A \o B)[Len(A) + i] = B[i]
  <2>1. A \in Seq(T) /\ B \in Seq(T)
    BY <1>3
  <2> QED BY <2>1, ConcatAt
<1>8. /\ (A \o B) \o C \in Seq(T) /\ Len((A \o B) \o C) = Len(A \o B) + Len(C)
      /\ \A i \in 1..Len(A \o B) : ((A \o B) \o C)[i] = (A \o B)[i]
      /\ \A i \in 1..Len(C) : ((A \o B) \o C)[Len(A \o B) + i] = C[i]
  <2> DEFINE D == A \o B
  <2>1. D \in Seq(T) /\ C \in Seq(T)
    BY <1>3, <1>7
  <2> HIDE DEF D
  <2>2. /\ D \o C \in Seq(T) /\ Len(D \o C) = Len(D) + Len(C)
        /\ \A i \in 1..Len(D) : (D \o C)[i] = D[i]
        /\ \A i \in 1..Len(C) : (D \o C)[Len(D) + i] = C[i]
    BY <2>1, ConcatAt
  <2> QED BY <2>2 DEF D
<1>9. Len(inbound) \in Nat /\ Len(own) \in Nat /\ Len(outbound) \in Nat
  BY <1>1
<1>10. /\ EvaluationOrder(s) \in Seq(T)
       /\ Len(EvaluationOrder(s)) = Len(inbound) + Len(own) + Len(outbound)
  BY <1>3, <1>5, <1>7, <1>8
<1>11. \A i \in 1..Len(inbound) :
         /\ i \in 1..Len(EvaluationOrder(s))
         /\ EvaluationOrder(s)[i] = [id |-> inbound[i].id, stage |-> "inbound"]
  BY <1>3, <1>4, <1>5, <1>7, <1>8, <1>9, <1>10
<1>12. \A i \in 1..Len(own) :
         /\ Len(inbound) + i \in 1..Len(EvaluationOrder(s))
         /\ EvaluationOrder(s)[Len(inbound) + i] = [id |-> own[i].id, stage |-> "action"]
  BY <1>3, <1>4, <1>5, <1>7, <1>8, <1>9, <1>10
<1>13. \A i \in 1..Len(outbound) :
         /\ Len(inbound) + Len(own) + i \in 1..Len(EvaluationOrder(s))
         /\ EvaluationOrder(s)[Len(inbound) + Len(own) + i]
              = [id |-> outbound[i].id, stage |-> "outbound"]
  BY <1>3, <1>4, <1>5, <1>7, <1>8, <1>9, <1>10
<1>14. ASSUME NEW st \in Stage, NEW i \in 1..Len(Queue(st, s))
       PROVE  /\ Before(st, s) + i \in 1..Len(EvaluationOrder(s))
              /\ EvaluationOrder(s)[Before(st, s) + i] = [id |-> Queue(st, s)[i].id, stage |-> st]
  <2>1. CASE st = "inbound"
    <3>1. i \in 1..Len(inbound) /\ Before(st, s) + i = i
      BY <1>6, <1>9, <2>1
    <3> QED BY <1>6, <1>11, <2>1, <3>1
  <2>2. CASE st = "action"
    BY <1>6, <1>12, <2>2
  <2>3. CASE st = "outbound"
    BY <1>6, <1>13, <2>3
  <2> QED BY <2>1, <2>2, <2>3 DEF Stage
<1> QED BY <1>6, <1>9, <1>10, <1>14 DEF T

(* A step that leaves the queues, and where a call is, leaves its report.  *)
LEMMA ReportFrame ==
  ASSUME NEW r \in Req, ReportOf(r), UNCHANGED <<registry, subject>>,
         pc'[r] = pc[r], stage'[r] = stage[r], pos'[r] = pos[r],
         evals'[r] = evals[r], outcome'[r] = outcome[r]
  PROVE  ReportOf(r)'
  BY DEF ReportOf, registry, Queue, Before, Listed, EvaluationOrder, LeftOpen, Explained

LEMMA ReportInit == Init => ReportInv
  BY DEF Init, ReportInv, ReportOf

(* A policy's answer extends the report by the entry it stands for, and a  *)
(* decisive one ends it.                                                   *)
LEMMA ReportEvaluate ==
  ASSUME TypeOK, IdsInv, NEW r \in Req, ReportOf(r), Evaluate(r)
  PROVE  ReportOf(r)'
<1> DEFINE s == subject[r]
           st == stage[r]
           queue == Queue(st, s)
           entry == queue[pos[r]]
           seen == evals[r]
           n == Len(seen)
<1>1. PICK d \in Verdicts(entry.policy, s) :
        LET id == entry.id IN
        /\ evals' = [evals EXCEPT ![r] = Append(@, [id |-> id, stage |-> st, decision |-> d])]
        /\ IF Decisive(st, d)
           THEN /\ pc' = [pc EXCEPT ![r] = "decided"]
                /\ outcome' = [outcome EXCEPT ![r] = [decision |-> d, source |-> id]]
                /\ UNCHANGED pos
           ELSE /\ pos' = [pos EXCEPT ![r] = @ + 1]
                /\ UNCHANGED <<pc, outcome>>
  BY DEF Evaluate
<1>2. /\ pc[r] = "deciding" /\ stage' = stage /\ subject' = subject
      /\ inbound' = inbound /\ typed' = typed /\ outbound' = outbound
  BY DEF Evaluate, Awaiting, registry
<1>3. /\ queue \in Seq(Entry) /\ pos[r] \in 1..Len(queue) /\ entry \in Entry
      /\ d \in PolicyDecision /\ s \in Subject /\ st \in Stage
  BY QueueType DEF Evaluate, TypeOK
<1> DEFINE e == [id |-> entry.id, stage |-> st, decision |-> d]
<1>4. /\ seen \in Seq(PolicyEvaluation) /\ e \in PolicyEvaluation /\ n \in Nat
      /\ evals'[r] = Append(seen, e)
  <2>1. evals \in [Req -> Seq(PolicyEvaluation)]
    BY DEF TypeOK
  <2>2. e \in PolicyEvaluation
    BY <1>3 DEF PolicyEvaluation, Entry
  <2>3. evals' = [evals EXCEPT ![r] = Append(@, e)]
    BY <1>1
  <2> HIDE DEF e
  <2>4. seen \in Seq(PolicyEvaluation) /\ n \in Nat
    BY <2>1
  <2> QED BY <2>1, <2>2, <2>3, <2>4
<1>5. /\ n = Before(st, s) + pos[r] - 1 /\ Listed(seen, s) /\ LeftOpen(seen)
  BY <1>2 DEF ReportOf
<1>6. Before(st, s) \in Nat
  BY <1>3, PipelineAssumption DEF Before, TypeOK, Stage, Subject
<1>7. /\ n + 1 \in 1..Len(EvaluationOrder(s))
      /\ EvaluationOrder(s)[n + 1] = [id |-> entry.id, stage |-> st]
  <2>1. n + 1 = Before(st, s) + pos[r]
    BY <1>3, <1>4, <1>5, <1>6
  <2> QED BY <1>3, <2>1, OrderAt
<1>8. entry.id # 0
  <2>1. entry.id \in Ids(queue)
    BY <1>3 DEF Ids
  <2>2. Ids(queue) \subseteq Used
    BY <1>3, PipelineAssumption DEF IdsInv, Queue, Stage, Subject
  <2> QED BY <2>1, <2>2 DEF Used
<1>9. Decisive(st, d) <=> ~Neutral(e)
  BY DEF Decisive, Neutral
<1>10. /\ EvaluationOrder(s)' = EvaluationOrder(s) /\ Queue(st, s)' = queue
       /\ Before(st, s)' = Before(st, s)
  BY <1>2 DEF EvaluationOrder, Queue, Before
<1> DEFINE more == Append(seen, e)
<1>11. /\ Len(more) = n + 1 /\ more[n + 1] = e
       /\ \A i \in 1..n : more[i] = seen[i]
  BY <1>4, AppendProperties
<1>12. EvaluationOrder(s) \in Seq([id : Nat, stage : Stage])
  BY <1>3, OrderAt
<1>13. Listed(more, s)
  <2>1. e.id = entry.id /\ e.stage = st
    OBVIOUS
  <2> HIDE DEF more, e, entry, st
  <2> HIDE DEF n
  <2>2. Len(more) <= Len(EvaluationOrder(s))
    BY <1>7, <1>11
  <2>3. ASSUME NEW i \in 1..Len(more)
        PROVE  EvaluationOrder(s)[i] = [id |-> more[i].id, stage |-> more[i].stage]
    <3>1. CASE i = n + 1
      BY <1>7, <1>11, <2>1, <3>1
    <3>2. CASE i # n + 1
      <4>1. i \in 1..n
        BY <1>4, <1>11, <3>2
      <4> QED BY <1>5, <1>11, <4>1 DEF Listed, n
    <3> QED BY <3>1, <3>2
  <2> QED BY <2>2, <2>3 DEF Listed
<1>14. \A i \in 1..n : Neutral(more[i])
  BY <1>5, <1>11 DEF LeftOpen
<1>15. evals'[r] = more
  BY <1>4
<1> HIDE DEF more
<1>16. Listed(evals[r], subject[r])'
  BY <1>2, <1>10, <1>13, <1>15 DEF Listed
<1>17. CASE Decisive(st, d)
  <2>1. /\ pc'[r] = "decided" /\ outcome'[r] = [decision |-> d, source |-> entry.id]
    BY <1>1, <1>17 DEF TypeOK
  <2>2. outcome'[r] # DenyWithoutMatch
    BY <1>8, <2>1 DEF DenyWithoutMatch, DenyBy, NoMatchingPolicy
  <2>3. \A i \in 1..(n + 1) : i < n + 1 => Neutral(more[i])
    BY <1>4, <1>14
  <2>4. n + 1 > 0 /\ ~Neutral(more[n + 1])
        /\ outcome'[r] = [decision |-> more[n + 1].decision, source |-> more[n + 1].id]
    BY <1>4, <1>9, <1>11, <1>17, <2>1
  <2>5. evals'[r] = more /\ Len(evals'[r]) = n + 1
    BY <1>11, <1>15
  <2> HIDE DEF n
  <2>6. Explained(r)'
    BY <1>16, <2>2, <2>3, <2>4, <2>5 DEF Explained, Neutral
  <2> QED BY <2>1, <2>6 DEF ReportOf
<1>18. CASE ~Decisive(st, d)
  <2>1. pc'[r] = "deciding" /\ pos'[r] = pos[r] + 1
    BY <1>1, <1>2, <1>18 DEF TypeOK
  <2>2. evals'[r] = more /\ Len(evals'[r]) = n + 1
    BY <1>11, <1>15
  <2>3. \A i \in 1..(n + 1) : Neutral(more[i])
    BY <1>4, <1>9, <1>11, <1>14, <1>18
  <2>4. LeftOpen(evals[r])'
    BY <2>2, <2>3 DEF LeftOpen
  <2>5. pos'[r] <= Len(queue) + 1 /\ Len(evals'[r]) = Before(st, s) + pos'[r] - 1
    BY <1>3, <1>4, <1>5, <1>6, <2>1, <2>2
  <2>6. /\ Queue(stage[r], subject[r])' = queue
        /\ Before(stage[r], subject[r])' = Before(st, s)
    BY <1>2 DEF Queue, Before
  <2> HIDE DEF queue, s, st
  <2> QED BY <1>16, <2>1, <2>4, <2>5, <2>6 DEF ReportOf
<1> QED BY <1>17, <1>18

(* Leaving a queue, or the last of them, every policy in it has answered.  *)
LEMMA ExhaustedQueue ==
  ASSUME TypeOK, NEW r \in Req, ReportOf(r), Exhausted(r)
  PROVE  Len(evals[r]) = Before(stage[r], subject[r]) + Len(Queue(stage[r], subject[r]))
<1>1. subject[r] \in Subject /\ stage[r] \in Stage /\ pos[r] \in Nat
  BY DEF TypeOK
<1>2. /\ Queue(stage[r], subject[r]) \in Seq(Entry)
      /\ Before(stage[r], subject[r]) \in Nat
  BY <1>1, PipelineAssumption DEF Queue, Before, Stage, Subject, TypeOK
<1>3. Len(Queue(stage[r], subject[r])) \in Nat
  BY <1>2
<1>4. /\ pos[r] <= Len(Queue(stage[r], subject[r])) + 1
      /\ pos[r] > Len(Queue(stage[r], subject[r]))
      /\ Len(evals[r]) = Before(stage[r], subject[r]) + pos[r] - 1
  BY DEF Exhausted, ReportOf
<1>5. pos[r] = Len(Queue(stage[r], subject[r])) + 1
  BY <1>1, <1>3, <1>4
<1> QED BY <1>2, <1>3, <1>4, <1>5

LEMMA ReportNextStage ==
  ASSUME TypeOK, NEW r \in Req, ReportOf(r), NextStage(r)
  PROVE  ReportOf(r)'
<1>1. /\ pc[r] = "deciding" /\ pc' = pc /\ evals' = evals /\ subject' = subject
      /\ inbound' = inbound /\ typed' = typed /\ outbound' = outbound
      /\ stage[r] # "outbound"
  BY DEF NextStage, Exhausted, registry
<1>2. /\ stage'[r] = IF stage[r] = "inbound" THEN "action" ELSE "outbound"
      /\ pos'[r] = 1 /\ stage[r] \in Stage /\ subject[r] \in Subject
  BY DEF NextStage, TypeOK
<1>3. Len(evals[r]) = Before(stage[r], subject[r]) + Len(Queue(stage[r], subject[r]))
  BY ExhaustedQueue DEF NextStage
<1>4. Len(evals[r]) = Before(stage'[r], subject[r])
  BY <1>1, <1>2, <1>3 DEF Before, Queue, Stage, TypeOK
<1>5. /\ Before(stage'[r], subject[r]) \in Nat
      /\ Len(Queue(stage'[r], subject[r])) \in Nat
  BY <1>2, PipelineAssumption DEF Before, Queue, Stage, Subject, TypeOK
<1>6. pos'[r] <= Len(Queue(stage'[r], subject[r])) + 1
  BY <1>2, <1>5
<1>7. Len(evals[r]) = Before(stage'[r], subject[r]) + pos'[r] - 1
  BY <1>2, <1>4, <1>5
<1>8. /\ Queue(stage[r], subject[r])' = Queue(stage'[r], subject[r])
      /\ Before(stage[r], subject[r])' = Before(stage'[r], subject[r])
  BY <1>1 DEF Queue, Before
<1>9. Listed(evals[r], subject[r])' /\ LeftOpen(evals[r])'
  BY <1>1 DEF ReportOf, Listed, EvaluationOrder, LeftOpen
<1> QED BY <1>1, <1>6, <1>7, <1>8, <1>9 DEF ReportOf

LEMMA ReportNoMatch ==
  ASSUME TypeOK, NEW r \in Req, ReportOf(r), NoMatch(r)
  PROVE  ReportOf(r)'
<1>1. /\ pc[r] = "deciding" /\ evals' = evals /\ subject' = subject
      /\ inbound' = inbound /\ typed' = typed /\ outbound' = outbound
      /\ stage[r] = "outbound"
  BY DEF NoMatch, Exhausted, registry, progress
<1>2. pc'[r] = "decided" /\ outcome'[r] = DenyWithoutMatch /\ subject[r] \in Subject
  BY DEF NoMatch, TypeOK
<1>3. Len(evals[r]) = Before("outbound", subject[r]) + Len(outbound)
  BY <1>1, ExhaustedQueue DEF NoMatch, Queue
<1>4. Len(evals[r]) = Len(EvaluationOrder(subject[r]))
  BY <1>2, <1>3, OrderAt
<1>5. Listed(evals[r], subject[r]) /\ LeftOpen(evals[r]) /\ Len(evals[r]) \in Nat
  BY <1>1 DEF ReportOf, TypeOK
<1>6. Explained(r)'
  <2>1. EvaluationOrder(subject[r])' = EvaluationOrder(subject[r])
    BY <1>1 DEF EvaluationOrder
  <2>2. Listed(evals[r], subject[r])'
    BY <1>1, <1>5, <2>1 DEF Listed
  <2>3. \A i \in 1..Len(evals'[r]) : Neutral(evals'[r][i])
    BY <1>1, <1>5 DEF LeftOpen
  <2>4. Len(evals'[r]) > 0 => Len(evals'[r]) \in 1..Len(evals'[r])
    BY <1>1, <1>5
  <2>5. Len(evals'[r]) = Len(EvaluationOrder(subject[r]))'
    BY <1>1, <1>4, <2>1
  <2> QED BY <1>2, <2>2, <2>3, <2>4, <2>5 DEF Explained, Neutral
<1> QED BY <1>2, <1>6 DEF ReportOf

LEMMA ReportStep == TypeOK /\ IdsInv /\ ReportInv /\ [Next]_vars => ReportInv'
<1> SUFFICES ASSUME TypeOK, IdsInv, ReportInv, [Next]_vars, NEW q \in Req
             PROVE  ReportOf(q)'
  BY DEF ReportInv
<1>1. ReportOf(q)
  BY DEF ReportInv
<1>2. CASE Register
  <2>1. Registering
    BY <1>2 DEF Register, PrependInbound, AppendInbound, PrependOutbound, AppendOutbound,
                PrependAction, AppendAction
  <2>2. ~InFlight(q) /\ UNCHANGED <<pc, stage, pos, evals>>
    BY <2>1 DEF Registering, Exclusive, progress
  <2> QED BY <1>1, <2>2 DEF InFlight, ReportOf
<1>3. ASSUME NEW r \in Req, r # q, Ask(r) \/ Step(r) \/ Cancel(r) PROVE ReportOf(q)'
  <2>1. UNCHANGED <<registry, subject>>
    BY <1>3 DEF Ask, Step, Evaluate, NextStage, NoMatch, MintGrant, Deny, RecordGrant, Cancel
  <2>2. /\ pc'[q] = pc[q] /\ stage'[q] = stage[q] /\ pos'[q] = pos[q]
        /\ evals'[q] = evals[q] /\ outcome'[q] = outcome[q]
    <3>1. CASE Ask(r) \/ NextStage(r) \/ NoMatch(r) \/ Cancel(r)
      BY <1>3, <3>1 DEF Ask, NextStage, NoMatch, Cancel, progress, TypeOK
    <3>2. CASE MintGrant(r) \/ Deny(r)
      BY <1>3, <3>2 DEF MintGrant, Deny, progress, TypeOK
    <3>3. CASE RecordGrant(r)
      BY <1>3, <3>3 DEF RecordGrant, progress, TypeOK
    <3>4. CASE Evaluate(r)
      BY <1>3, <3>4, Zenon DEF Evaluate, TypeOK
    <3> QED BY <1>3, <3>1, <3>2, <3>3, <3>4 DEF Step
  <2> QED BY <1>1, <2>1, <2>2, ReportFrame
<1>4. CASE Ask(q)
  <2>1. /\ pc'[q] = "deciding" /\ stage'[q] = "inbound" /\ pos'[q] = 1 /\ evals'[q] = <<>>
        /\ inbound' = inbound /\ typed' = typed /\ outbound' = outbound /\ subject' = subject
    BY <1>1, <1>4 DEF Ask, ReportOf, TypeOK, progress, registry
  <2>2. Len(inbound) \in Nat /\ subject[q] \in Subject
    BY DEF TypeOK
  <2>3. EvaluationOrder(subject[q]) \in Seq([id : Nat, stage : Stage])
    BY <2>2, OrderAt
  <2>4. Listed(<<>>, subject[q]) /\ LeftOpen(<<>>)
    BY <2>3 DEF Listed, LeftOpen
  <2>5. Listed(evals[q], subject[q])' /\ LeftOpen(evals[q])'
    BY <2>1, <2>4 DEF Listed, EvaluationOrder, LeftOpen
  <2> QED BY <2>1, <2>2, <2>5 DEF ReportOf, Before, Queue
<1>5. CASE Evaluate(q)
  BY <1>1, <1>5, ReportEvaluate
<1>6. CASE NextStage(q)
  BY <1>1, <1>6, ReportNextStage
<1>7. CASE NoMatch(q)
  BY <1>1, <1>7, ReportNoMatch
<1>8. CASE MintGrant(q) \/ Deny(q)
  <2>1. /\ pc[q] = "decided" /\ pc'[q] = "recording"
        /\ UNCHANGED <<inbound, typed, outbound, subject, evals, outcome>>
    BY <1>8 DEF MintGrant, Deny, TypeOK, registry, progress
  <2>2. Explained(q)'
    BY <1>1, <2>1 DEF ReportOf, Explained, Listed, EvaluationOrder
  <2> QED BY <2>1, <2>2 DEF ReportOf
<1>9. CASE RecordGrant(q) \/ Cancel(q)
  <2>1. pc'[q] \in {"granted", "refused", "cancelled"}
    <3>1. CASE RecordGrant(q)
      BY <3>1 DEF RecordGrant, TypeOK
    <3>2. CASE Cancel(q)
      BY <3>2 DEF Cancel, TypeOK
    <3> QED BY <1>9, <3>1, <3>2
  <2> QED BY <2>1 DEF ReportOf
<1>10. CASE UNCHANGED vars
  BY <1>1, <1>10, ReportFrame DEF vars, progress
<1> QED BY <1>2, <1>3, <1>4, <1>5, <1>6, <1>7, <1>8, <1>9, <1>10 DEF Next, Step

(* ReportExplainsOutcome for any registry, any answers and any number of   *)
(* calls at once: a report lists every policy asked, in the order promised,*)
(* and its last answer is the outcome (kernel pipeline.rs decide).  Ids    *)
(* from 1 keep a policy's denial apart from the default one.               *)
THEOREM ReportsExplain == Spec => []ReportExplainsOutcome
<1> DEFINE Inv == TypeOK /\ IdsInv /\ ReportInv
<1>1. Init => Inv
  BY TypeInit, IdsInit, ReportInit
<1>2. Inv /\ [Next]_vars => Inv'
  BY TypeStep, IdsStep, ReportStep
<1>3. ReportInv => ReportExplainsOutcome
  <2> SUFFICES ASSUME ReportInv, NEW r \in Req, pc[r] \in {"decided", "recording"}
               PROVE  Explained(r)
    BY Zenon DEF ReportExplainsOutcome, Explained, Listed
  <2> QED BY DEF ReportInv, ReportOf
<1> QED BY <1>1, <1>2, <1>3, PTL DEF Spec, Safety

-----------------------------------------------------------------------------
(* The audit trail is exact, and the pipeline implements the safety part   *)
(* of Authorizer.                                                          *)

(* A call has an id from the moment it draws one, and never for a denial.  *)
Drawn(r) ==
  /\ pc[r] \in {"idle", "deciding", "decided", "cancelled"} => grantId[r] = 0
  /\ pc[r] \in {"recording", "granted", "refused"} =>
       (outcome[r].decision = "allow" <=> grantId[r] # 0)
  /\ pc[r] = "granted" => outcome[r].decision = "allow"
  /\ pc[r] = "refused" => outcome[r].decision = "deny"

GrantState ==
  /\ IdsBelowCounter
  /\ GrantIdsUnique
  /\ \A r \in Req : Drawn(r)

LEMMA GrantStateInit == Init => GrantState
  BY DEF Init, GrantState, IdsBelowCounter, GrantIdsUnique, Drawn

(* What each step does to the fields the answer is made of.                *)
OnlyCall(r) ==
  /\ \A q \in Req \ {r} : pc'[q] = pc[q] /\ outcome'[q] = outcome[q] /\ grantId'[q] = grantId[q]
  /\ UNCHANGED subject

Undecided == {"idle", "deciding", "decided", "cancelled"}

(* A step of a call up to its decision, which draws no id and records      *)
(* nothing.                                                                *)
Quiet(r) ==
  /\ OnlyCall(r)
  /\ pc[r] \in Undecided /\ pc'[r] \in Undecided
  /\ UNCHANGED <<grantId, nextGrantId, audit>>

LEMMA QuietSteps ==
  ASSUME TypeOK, NEW r \in Req,
         Ask(r) \/ Evaluate(r) \/ NextStage(r) \/ NoMatch(r) \/ Cancel(r)
  PROVE  Quiet(r)
<1>1. CASE Ask(r)
  BY <1>1 DEF Ask, Quiet, OnlyCall, Undecided, TypeOK
<1>2. CASE Evaluate(r)
  <2>1. PICK d, id :
          IF Decisive(stage[r], d)
          THEN /\ pc' = [pc EXCEPT ![r] = "decided"]
               /\ outcome' = [outcome EXCEPT ![r] = [decision |-> d, source |-> id]]
          ELSE UNCHANGED <<pc, outcome>>
    BY <1>2 DEF Evaluate
  <2> QED BY <1>2, <2>1 DEF Evaluate, Awaiting, Quiet, OnlyCall, Undecided, TypeOK
<1>3. CASE NextStage(r)
  BY <1>3 DEF NextStage, Exhausted, Quiet, OnlyCall, Undecided
<1>4. CASE NoMatch(r)
  BY <1>4 DEF NoMatch, Exhausted, Quiet, OnlyCall, Undecided, TypeOK
<1>5. CASE Cancel(r)
  BY <1>5 DEF Cancel, Awaiting, Quiet, OnlyCall, Undecided, TypeOK
<1> QED BY <1>1, <1>2, <1>3, <1>4, <1>5

(* Registration touches no call.                                           *)
LEMMA RegisterQuiet ==
  Register => UNCHANGED <<subject, pc, outcome, grantId, nextGrantId, audit>>
  BY DEF Register, PrependInbound, AppendInbound, PrependAction, AppendAction,
         PrependOutbound, AppendOutbound, Registering

LEMMA GrantStateStep == TypeOK /\ GrantState /\ [Next]_vars => GrantState'
<1> SUFFICES ASSUME TypeOK, GrantState, [Next]_vars PROVE GrantState'
  OBVIOUS
<1>1. CASE UNCHANGED <<pc, outcome, grantId, nextGrantId>>
  BY <1>1 DEF GrantState, IdsBelowCounter, GrantIdsUnique, Drawn
<1>2. ASSUME NEW r \in Req, Quiet(r) PROVE GrantState'
  BY <1>2 DEF Quiet, OnlyCall, Undecided, GrantState, IdsBelowCounter, GrantIdsUnique, Drawn
<1>3. ASSUME NEW r \in Req, MintGrant(r) PROVE GrantState'
  <2>1. /\ pc'[r] = "recording" /\ outcome' = outcome /\ outcome[r].decision = "allow"
        /\ grantId'[r] = nextGrantId /\ nextGrantId' = nextGrantId + 1
        /\ \A q \in Req \ {r} : pc'[q] = pc[q] /\ grantId'[q] = grantId[q]
    BY <1>3 DEF MintGrant, TypeOK
  <2>2. nextGrantId \in Nat \ {0} /\ \A q \in Req : grantId[q] \in Nat
    BY DEF TypeOK
  <2>3. IdsBelowCounter'
    BY <2>1, <2>2 DEF GrantState, IdsBelowCounter
  <2>4. \A q \in Req \ {r} : grantId[q] # nextGrantId
    BY <2>2 DEF GrantState, IdsBelowCounter
  <2>5. GrantIdsUnique'
    BY <2>1, <2>4 DEF GrantState, GrantIdsUnique
  <2>6. \A q \in Req : Drawn(q)'
    BY <2>1, <2>2 DEF GrantState, Drawn
  <2> QED BY <2>3, <2>5, <2>6 DEF GrantState
<1>4. ASSUME NEW r \in Req, Deny(r) PROVE GrantState'
  BY <1>4 DEF Deny, TypeOK, GrantState, IdsBelowCounter, GrantIdsUnique, Drawn
<1>5. ASSUME NEW r \in Req, RecordGrant(r) PROVE GrantState'
  <2>1. outcome[r].decision \in {"allow", "deny"}
    BY DEF TypeOK, PolicyOutcome
  <2>2. /\ pc[r] = "recording" /\ UNCHANGED <<outcome, grantId, nextGrantId>>
        /\ pc'[r] = IF outcome[r].decision = "allow" THEN "granted" ELSE "refused"
        /\ \A q \in Req \ {r} : pc'[q] = pc[q]
    BY <1>5 DEF RecordGrant, TypeOK
  <2>3. \A q \in Req : Drawn(q)'
    BY <2>1, <2>2 DEF GrantState, Drawn
  <2> QED BY <2>2, <2>3 DEF GrantState, IdsBelowCounter, GrantIdsUnique
<1>6. CASE Register
  BY <1>1, <1>6, RegisterQuiet
<1>7. CASE UNCHANGED vars
  BY <1>1, <1>7 DEF vars
<1> QED BY <1>2, <1>3, <1>4, <1>5, <1>6, <1>7, QuietSteps DEF Next, Step

-----------------------------------------------------------------------------
(* The trail *)

Answered(r) == pc[r] \in {"granted", "refused"}

(* AuditFaithful for one call. *)
Faithful(r) ==
  IF Answered(r)
  THEN /\ Cardinality(Records(r)) = 1
       /\ \A i \in Records(r) : /\ audit[i] = GrantRecord(r, outcome[r], grantId[r])
                                /\ pc[r] = "granted" <=> audit[i].id # 0
  ELSE Records(r) = {}

LEMMA FaithfulInit == Init => \A r \in Req : Faithful(r)
  BY DEF Init, Faithful, Answered, Records

(* One record more is one element more, for its call alone.                *)
LEMMA AppendRecords ==
  ASSUME TypeOK, NEW r \in Req, RecordGrant(r)
  PROVE  /\ Records(r)' = Records(r) \cup {Len(audit) + 1}
         /\ \A q \in Req \ {r} : Records(q)' = Records(q)
         /\ Len(audit) \in Nat /\ Len(audit') = Len(audit) + 1
         /\ audit'[Len(audit) + 1] = GrantRecord(r, outcome[r], grantId[r])
         /\ \A i \in 1..Len(audit) : audit'[i] = audit[i]
<1> DEFINE e == GrantRecord(r, outcome[r], grantId[r])
           Rec == [req : Req, decision : {"allow", "deny"}, source : Nat, id : Nat]
<1>1. e \in Rec /\ e.req = r
  BY DEF GrantRecord, TypeOK, PolicyOutcome
<1>2. audit \in Seq(Rec) /\ audit' = Append(audit, e)
  BY DEF RecordGrant, TypeOK
<1>3. /\ Len(audit) \in Nat /\ Len(audit') = Len(audit) + 1
      /\ audit'[Len(audit) + 1] = e
      /\ \A i \in 1..Len(audit) : audit'[i] = audit[i]
  BY <1>1, <1>2, AppendProperties
<1>4. \A q \in Req : Records(q)' = {i \in 1..(Len(audit) + 1) : audit'[i].req = q}
  BY <1>3 DEF Records
<1>5. Records(r)' = Records(r) \cup {Len(audit) + 1}
  BY <1>1, <1>3, <1>4 DEF Records
<1>6. \A q \in Req \ {r} : Records(q)' = Records(q)
  BY <1>1, <1>3, <1>4 DEF Records
<1> QED BY <1>3, <1>5, <1>6

LEMMA FaithfulStep ==
  TypeOK /\ GrantState /\ (\A r \in Req : Faithful(r)) /\ [Next]_vars
    => \A r \in Req : Faithful(r)'
<1> SUFFICES ASSUME TypeOK, GrantState, \A r \in Req : Faithful(r), [Next]_vars
             PROVE  \A r \in Req : Faithful(r)'
  OBVIOUS
<1>1. CASE UNCHANGED <<pc, outcome, grantId, audit>>
  BY <1>1 DEF Faithful, Answered, Records
<1>2. ASSUME NEW r \in Req, Quiet(r) PROVE \A q \in Req : Faithful(q)'
  BY <1>2 DEF Quiet, OnlyCall, Undecided, Faithful, Answered, Records
<1>3. ASSUME NEW r \in Req, MintGrant(r) \/ Deny(r) PROVE \A q \in Req : Faithful(q)'
  <2>1. /\ ~Answered(r) /\ ~Answered(r)' /\ UNCHANGED <<outcome, audit>>
        /\ \A q \in Req \ {r} : pc'[q] = pc[q] /\ grantId'[q] = grantId[q]
    BY <1>3 DEF MintGrant, Deny, Answered, TypeOK
  <2>2. Faithful(r)'
    BY <2>1 DEF Faithful, Records
  <2>3. \A q \in Req \ {r} : Faithful(q)'
    BY <2>1 DEF Faithful, Answered, Records
  <2> QED BY <2>2, <2>3
<1>4. ASSUME NEW r \in Req, RecordGrant(r) PROVE \A q \in Req : Faithful(q)'
  <2> DEFINE n == Len(audit) + 1
  <2>1. /\ pc[r] = "recording" /\ UNCHANGED <<outcome, grantId>>
        /\ pc'[r] = IF outcome[r].decision = "allow" THEN "granted" ELSE "refused"
        /\ \A q \in Req \ {r} : pc'[q] = pc[q]
    BY <1>4 DEF RecordGrant, TypeOK
  <2>2. Faithful(r)'
    <3>1. Records(r) = {}
      BY <2>1 DEF Faithful, Answered
    <3>2. Records(r)' = {n} /\ audit'[n] = GrantRecord(r, outcome[r], grantId[r])
      BY <1>4, <3>1, AppendRecords
    <3>3. Cardinality(Records(r)') = 1
      BY <3>2, FS_Singleton
    <3>4. pc'[r] = "granted" <=> audit'[n].id # 0
      BY <2>1, <3>2 DEF GrantRecord, GrantState, Drawn
    <3>5. Answered(r)'
      BY <2>1 DEF Answered
    <3> QED BY <2>1, <3>2, <3>3, <3>4, <3>5 DEF Faithful
  <2>3. ASSUME NEW q \in Req \ {r} PROVE Faithful(q)'
    <3>1. Records(q)' = Records(q) /\ \A i \in Records(q) : audit'[i] = audit[i]
      BY <1>4, AppendRecords DEF Records
    <3>2. /\ Answered(q)' <=> Answered(q)
          /\ pc'[q] = pc[q] /\ outcome'[q] = outcome[q] /\ grantId'[q] = grantId[q]
      BY <2>1 DEF Answered
    <3> QED BY <3>1, <3>2 DEF Faithful
  <2> QED BY <2>2, <2>3
<1>5. CASE Register
  BY <1>1, <1>5, RegisterQuiet
<1>6. CASE UNCHANGED vars
  BY <1>1, <1>6 DEF vars
<1> QED BY <1>2, <1>3, <1>4, <1>5, <1>6, QuietSteps DEF Next, Step

(* AuditFaithful for any number of calls, however they interleave and are  *)
(* dropped: an answer has one record, a true one (pipeline.rs grant,       *)
(* core/src/policy/traits.rs grant_with_engine).                           *)
THEOREM TrailIsFaithful == Spec => []AuditFaithful
<1>1. (\A r \in Req : Faithful(r)) => AuditFaithful
  BY DEF Faithful, Answered, AuditFaithful
<1>2. Init => GrantState /\ \A r \in Req : Faithful(r)
  BY GrantStateInit, FaithfulInit
<1>3. /\ TypeOK /\ GrantState /\ (\A r \in Req : Faithful(r)) /\ [Next]_vars
      => GrantState' /\ (\A r \in Req : Faithful(r))'
  BY GrantStateStep, FaithfulStep
<1> QED BY <1>1, <1>2, <1>3, TypeCorrect, PTL DEF Spec, Safety

-----------------------------------------------------------------------------
(* The refinement *)

LEMMA AbstractInit == Init => Abstract!Init
  BY DEF Init, Abstract!Init, Status, InFlight

(* Steps before the answer: the call is asked, dropped, or still asked.    *)
LEMMA AbstractQuiet ==
  ASSUME TypeOK, GrantState, NEW r \in Req,
         Ask(r) \/ Evaluate(r) \/ NextStage(r) \/ NoMatch(r) \/ Cancel(r)
  PROVE  [Abstract!Next]_(Abstract!vars)
<1> DEFINE status == [q \in Req |-> Status(q)]
<1>1. Quiet(r)
  BY QuietSteps
<1>2. /\ UNCHANGED {q \in Req : Within(subject[q])}
      /\ UNCHANGED {[req |-> audit[i].req, decision |-> audit[i].decision, id |-> audit[i].id] :
                      i \in 1..Len(audit)}
      /\ UNCHANGED [q \in Req |-> IF pc[q] = "granted" THEN grantId[q] ELSE 0]
  BY <1>1 DEF Quiet, OnlyCall, Undecided, Within
<1>3. \A q \in Req \ {r} : Status(q)' = Status(q)
  BY <1>1 DEF Quiet, OnlyCall, Status, InFlight
<1>4. status' = [status EXCEPT ![r] = Status(r)']
  BY <1>3
<1>5. CASE Ask(r)
  <2>1. Status(r) = "idle" /\ Status(r)' = "asked"
    BY <1>5 DEF Ask, Status, InFlight, TypeOK
  <2> QED BY <1>2, <1>4, <2>1 DEF Abstract!Next, Abstract!Ask
<1>6. CASE Cancel(r)
  <2>1. Status(r) = "asked" /\ Status(r)' = "cancelled"
    BY <1>6 DEF Cancel, Awaiting, Status, InFlight, TypeOK
  <2> QED BY <1>2, <1>4, <2>1 DEF Abstract!Next, Abstract!Cancel
<1>7. CASE Evaluate(r) \/ NextStage(r) \/ NoMatch(r)
  <2>1. pc[r] = "deciding" /\ pc'[r] \in {"deciding", "decided"}
    BY <1>7 DEF Evaluate, NextStage, NoMatch, Awaiting, Exhausted, TypeOK
  <2>2. Status(r)' = Status(r)
    BY <2>1 DEF Status, InFlight
  <2>3. status' = status
    BY <1>3, <2>2
  <2> QED BY <1>2, <2>3 DEF Abstract!vars
<1> QED BY <1>5, <1>6, <1>7

LEMMA AbstractAnswer ==
  ASSUME TypeOK, GrantState, EnvelopeInv, NEW r \in Req, RecordGrant(r)
  PROVE  Abstract!Next
<1> DEFINE status == [q \in Req |-> Status(q)]
           ids == [q \in Req |-> IF pc[q] = "granted" THEN grantId[q] ELSE 0]
           Shown(i) == [req |-> audit[i].req, decision |-> audit[i].decision, id |-> audit[i].id]
           trail == {Shown(i) : i \in 1..Len(audit)}
           e == GrantRecord(r, outcome[r], grantId[r])
<1>1. /\ pc[r] = "recording" /\ UNCHANGED <<subject, outcome, grantId>>
      /\ pc'[r] = IF outcome[r].decision = "allow" THEN "granted" ELSE "refused"
      /\ \A q \in Req \ {r} : pc'[q] = pc[q]
  BY DEF RecordGrant, TypeOK
<1>2. UNCHANGED {q \in Req : Within(subject[q])}
  BY <1>1 DEF Within
<1>3. Status(r) = "asked" /\ \A q \in Req \ {r} : Status(q)' = Status(q)
  BY <1>1 DEF Status, InFlight
<1>4. status' = [status EXCEPT ![r] = Status(r)']
  BY <1>3
<1>5. trail' = trail \cup {[req |-> e.req, decision |-> e.decision, id |-> e.id]}
  BY AppendRecords
<1>6. e.req = r /\ e.decision = outcome[r].decision /\ e.id = grantId[r]
  BY DEF GrantRecord
<1>7. CASE outcome[r].decision = "allow"
  <2>1. Within(subject[r])
    BY <1>1, <1>7 DEF EnvelopeInv, Allowed
  <2>2. Status(r)' = "granted"
    BY <1>1, <1>7 DEF Status, InFlight
  <2>3. grantId[r] # 0 /\ \A q \in Req \ {r} : grantId[q] # grantId[r]
    BY <1>1, <1>7 DEF GrantState, Drawn, GrantIdsUnique
  <2>4. ids[r] = 0
    BY <1>1
  <2>5. ids'[r] = grantId[r] /\ \A q \in Req \ {r} : ids'[q] = ids[q]
    BY <1>1, <1>7
  <2>6. ids' = [ids EXCEPT ![r] = ids'[r]]
    BY <2>5
  <2>7. ids'[r] \notin {ids[q] : q \in Req} \cup {0}
    BY <2>3, <2>4, <2>5
  <2>8. Abstract!Grant(r)
    BY <1>2, <1>3, <1>4, <1>5, <1>6, <1>7, <2>1, <2>2, <2>5, <2>6, <2>7
       DEF Abstract!Grant, Abstract!UsedIds
  <2> QED BY <2>8 DEF Abstract!Next, Abstract!Answer
<1>8. CASE outcome[r].decision # "allow"
  <2>1. outcome[r].decision = "deny" /\ grantId[r] = 0
    BY <1>1, <1>8 DEF TypeOK, PolicyOutcome, GrantState, Drawn
  <2>2. Status(r)' = "refused"
    BY <1>1, <1>8 DEF Status, InFlight
  <2>3. ids' = ids
    BY <1>1, <1>8
  <2>4. Abstract!Refuse(r)
    BY <1>2, <1>3, <1>4, <1>5, <1>6, <2>1, <2>2, <2>3 DEF Abstract!Refuse
  <2> QED BY <2>4 DEF Abstract!Next, Abstract!Answer
<1> QED BY <1>7, <1>8

(* Drawing an id, refusing to, and registering are nothing to Authorizer.  *)
LEMMA AbstractStutter ==
  ASSUME TypeOK,
         \/ \E r \in Req : MintGrant(r) \/ Deny(r)
         \/ Register
         \/ UNCHANGED vars
  PROVE  UNCHANGED Abstract!vars
<1>1. CASE \E r \in Req : MintGrant(r) \/ Deny(r)
  <2>1. PICK r \in Req : MintGrant(r) \/ Deny(r)
    BY <1>1
  <2>2. /\ pc[r] = "decided" /\ pc'[r] = "recording" /\ UNCHANGED <<subject, audit>>
        /\ \A q \in Req \ {r} : pc'[q] = pc[q] /\ grantId'[q] = grantId[q]
    BY <2>1 DEF MintGrant, Deny, TypeOK
  <2> QED BY <2>2 DEF Abstract!vars, Status, InFlight, Within
<1>2. CASE UNCHANGED <<subject, pc, grantId, audit>>
  BY <1>2 DEF Abstract!vars, Status, InFlight, Within
<1>3. CASE Register
  BY <1>2, <1>3, RegisterQuiet
<1>4. CASE UNCHANGED vars
  BY <1>2, <1>4 DEF vars
<1> QED BY <1>1, <1>3, <1>4

(* The pipeline is an Authorizer: whatever is registered, a call is        *)
(* answered once and for all, granted only within the caller's             *)
(* capabilities under an id of its own, and recorded as it is answered.    *)
THEOREM PipelineIsAuthorizer == Spec => Abstract!Safety
<1> DEFINE Inv == TypeOK /\ EnvelopeInv /\ GrantState
<1>1. Init => Inv /\ Abstract!Init
  BY TypeInit, EnvelopeInit, GrantStateInit, AbstractInit
<1>2. Inv /\ [Next]_vars => Inv'
  BY TypeStep, EnvelopeStep, GrantStateStep
<1>3. Inv /\ [Next]_vars => [Abstract!Next]_(Abstract!vars)
  BY AbstractQuiet, AbstractAnswer, AbstractStutter DEF Next, Step
<1> QED BY <1>1, <1>2, <1>3, PTL DEF Spec, Safety, Abstract!Safety
=============================================================================
