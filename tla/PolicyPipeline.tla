--------------------------- MODULE PolicyPipeline ---------------------------
(***************************************************************************)
(* The kernel's policy pipeline (crates/kernel/src/policy) under           *)
(* concurrent grant calls (PolicyEngine::grant, crates/core/src/policy).   *)
(*                                                                         *)
(* The registry holds three kinds of queue: inbound and outbound policies  *)
(* see every action, a typed queue per action type sees that type.  A call *)
(* awaits its policies one at a time, so calls interleave between any two  *)
(* policies; it can be dropped only at such an await.  Registration takes  *)
(* the pipeline by &mut and so never overlaps a call.                      *)
(***************************************************************************)
EXTENDS PolicyContract, Sequences, FiniteSets

CONSTANTS
  Capability,  \* the effects an action may need
  Kind,        \* the action types
  Action,      \* actions
  KindOf,      \* the type of each action
  CapsOf,      \* the capabilities each action declares
  Policy,      \* policies a host may install
  Scope,       \* the types a policy applies to: all, or one for a wrapped typed policy
  Answers,     \* what a policy may answer on an action in its scope
  Envelope,    \* CapabilityEnvelopePolicy
  Req,         \* calls to grant
  MaxPolicyId  \* bound on the ids handed out by the registry

ASSUME PipelineAssumption ==
  /\ KindOf \in [Action -> Kind]
  /\ CapsOf \in [Action -> SUBSET Capability]
  /\ Scope \in [Policy -> SUBSET Kind]
  /\ Answers \in [Policy -> SUBSET PolicyDecision]
  /\ Envelope \notin Policy
  /\ MaxPolicyId \in Nat

VARIABLES
  inbound, outbound, \* queues of registered policies: [id, policy]
  typed,             \* one queue per action type
  nextPolicyId,      \* PolicyRegistry.next_policy_id
  subject,           \* what each call asks for, and the capabilities it asks with
  pc,                \* where each call is
  stage, pos,        \* the queue and the place a call has reached in it
  evals,             \* PolicyReport.evaluations of each call
  outcome,           \* PolicyReport.outcome of each call, once decided
  grantId,           \* GrantRecord.grant_id of each call, 0 before and for a denial
  nextGrantId,       \* NEXT_GRANT_ID
  audit              \* the grant records in the order they were audited

registry == <<inbound, typed, outbound, nextPolicyId>>
progress == <<stage, pos, evals>>
vars == <<registry, subject, pc, progress, outcome, grantId, nextGrantId, audit>>

Entry == [id : Nat, policy : Policy \cup {Envelope}]
Subject == [action : Action, caps : SUBSET Capability]

TypeOK ==
  /\ inbound \in Seq(Entry)
  /\ outbound \in Seq(Entry)
  /\ typed \in [Kind -> Seq(Entry)]
  /\ nextPolicyId \in Nat
  /\ subject \in [Req -> Subject]
  /\ pc \in [Req -> {"idle", "deciding", "decided", "recording",
                     "granted", "refused", "cancelled"}]
  /\ stage \in [Req -> Stage]
  /\ pos \in [Req -> Nat \ {0}]
  /\ evals \in [Req -> Seq(PolicyEvaluation)]
  /\ outcome \in [Req -> PolicyOutcome]
  /\ grantId \in [Req -> Nat]
  /\ nextGrantId \in Nat \ {0}
  /\ audit \in Seq([req : Req, decision : {"allow", "deny"}, source : Nat, id : Nat])

-----------------------------------------------------------------------------
(* Capabilities::contains: the caller's capabilities cover the action's. *)
Within(s) == CapsOf[s.action] \subseteq s.caps

(* KernelRuntime::new installs the envelope before any other policy. *)
Init ==
  /\ inbound = <<[id |-> 1, policy |-> Envelope]>>
  /\ outbound = <<>>
  /\ typed = [k \in Kind |-> <<>>]
  /\ nextPolicyId = 2
  /\ subject \in [Req -> Subject]
  /\ pc = [r \in Req |-> "idle"]
  /\ stage = [r \in Req |-> "inbound"]
  /\ pos = [r \in Req |-> 1]
  /\ evals = [r \in Req |-> <<>>]
  /\ outcome = [r \in Req |-> DenyWithoutMatch]
  /\ grantId = [r \in Req |-> 0]
  /\ nextGrantId = 1
  /\ audit = <<>>

-----------------------------------------------------------------------------
(* Registration *)

InFlight(r) == pc[r] \in {"deciding", "decided", "recording"}

(* &mut self: no call borrows the pipeline. *)
Exclusive == \A r \in Req : ~InFlight(r)

AllocatePolicyId ==
  /\ nextPolicyId <= MaxPolicyId
  /\ nextPolicyId' = nextPolicyId + 1

Registering ==
  /\ Exclusive
  /\ AllocatePolicyId
  /\ UNCHANGED <<subject, pc, progress, outcome, grantId, nextGrantId, audit>>

(* Slip: ids counted per queue instead of per registry. *)
FrontCountingQueue(p, queue) == <<[id |-> Len(queue) + 2, policy |-> p]>> \o queue

Front(p, queue) == <<[id |-> nextPolicyId, policy |-> p]>> \o queue
Back(p, queue)  == Append(queue, [id |-> nextPolicyId, policy |-> p])

PrependInbound(p) ==
  /\ Registering
  /\ inbound' = Front(p, inbound)
  /\ UNCHANGED <<typed, outbound>>

AppendInbound(p) ==
  /\ Registering
  /\ inbound' = Back(p, inbound)
  /\ UNCHANGED <<typed, outbound>>

(* Policy<F, A>: a typed policy is queued under a type it applies to. *)
PrependAction(k, p) ==
  /\ k \in Scope[p]
  /\ Registering
  /\ typed' = [typed EXCEPT ![k] = Front(p, @)]
  /\ UNCHANGED <<inbound, outbound>>

AppendAction(k, p) ==
  /\ k \in Scope[p]
  /\ Registering
  /\ typed' = [typed EXCEPT ![k] = Back(p, @)]
  /\ UNCHANGED <<inbound, outbound>>

PrependOutbound(p) ==
  /\ Registering
  /\ outbound' = Front(p, outbound)
  /\ UNCHANGED <<inbound, typed>>

AppendOutbound(p) ==
  /\ Registering
  /\ outbound' = Back(p, outbound)
  /\ UNCHANGED <<inbound, typed>>

Register ==
  \E p \in Policy :
    \/ PrependInbound(p)  \/ AppendInbound(p)
    \/ PrependOutbound(p) \/ AppendOutbound(p)
    \/ \E k \in Kind : PrependAction(k, p) \/ AppendAction(k, p)

-----------------------------------------------------------------------------
(* A grant call *)

(* What a policy may answer: the envelope denies what is outside it and    *)
(* abstains otherwise; a wrapped typed policy abstains on other types.     *)
Verdicts(p, s) ==
  IF p = Envelope
  THEN IF Within(s) THEN {"abstain"} ELSE {"deny"}
  ELSE IF KindOf[s.action] \in Scope[p] THEN Answers[p] ELSE {"abstain"}

(* The queue a call goes through in a stage. *)
Queue(st, s) ==
  CASE st = "inbound"  -> inbound
    [] st = "action"   -> typed[KindOf[s.action]]
    [] st = "outbound" -> outbound

(* Slip: an inbound allow ends the decision like any other allow. *)
DecisiveInboundAllow(st, d) == d # "abstain"

(* An inbound allow does not end the decision: only a denial does. *)
Decisive(st, d) ==
  IF st = "inbound" THEN d = "deny" ELSE d # "abstain"

Awaiting(r) == pc[r] = "deciding" /\ pos[r] <= Len(Queue(stage[r], subject[r]))
Exhausted(r) == pc[r] = "deciding" /\ pos[r] > Len(Queue(stage[r], subject[r]))

Ask(r) ==
  /\ pc[r] = "idle"
  /\ pc' = [pc EXCEPT ![r] = "deciding"]
  /\ UNCHANGED <<registry, subject, progress, outcome, grantId, nextGrantId, audit>>

(* One policy answers; the answer is reported, and may decide the call. *)
Evaluate(r) ==
  /\ Awaiting(r)
  /\ \E d \in Verdicts(Queue(stage[r], subject[r])[pos[r]].policy, subject[r]) :
       LET id == Queue(stage[r], subject[r])[pos[r]].id IN
       /\ evals' = [evals EXCEPT ![r] =
                      Append(@, [id |-> id, stage |-> stage[r], decision |-> d])]
       /\ IF Decisive(stage[r], d)
          THEN /\ pc' = [pc EXCEPT ![r] = "decided"]
               /\ outcome' = [outcome EXCEPT ![r] = [decision |-> d, source |-> id]]
               /\ UNCHANGED pos
          ELSE /\ pos' = [pos EXCEPT ![r] = @ + 1]
               /\ UNCHANGED <<pc, outcome>>
  /\ UNCHANGED <<registry, subject, stage, grantId, nextGrantId, audit>>

(* Slips: the next queue is entered at index 0; outbound is never reached; *)
(* the typed queue is skipped.                                             *)
NextStageAtZero(r) ==
  /\ Exhausted(r)
  /\ stage[r] # "outbound"
  /\ stage' = [stage EXCEPT ![r] = IF @ = "inbound" THEN "action" ELSE "outbound"]
  /\ pos' = [pos EXCEPT ![r] = 0]
  /\ UNCHANGED <<registry, subject, pc, evals, outcome, grantId, nextGrantId, audit>>

NextStageLooping(r) ==
  /\ Exhausted(r)
  /\ stage[r] # "outbound"
  /\ stage' = [stage EXCEPT ![r] = "action"]
  /\ pos' = [pos EXCEPT ![r] = 1]
  /\ UNCHANGED <<registry, subject, pc, evals, outcome, grantId, nextGrantId, audit>>

NextStageSkipping(r) ==
  /\ Exhausted(r)
  /\ stage[r] # "outbound"
  /\ stage' = [stage EXCEPT ![r] = "outbound"]
  /\ pos' = [pos EXCEPT ![r] = 1]
  /\ UNCHANGED <<registry, subject, pc, evals, outcome, grantId, nextGrantId, audit>>

NextStage(r) ==
  /\ Exhausted(r)
  /\ stage[r] # "outbound"
  /\ stage' = [stage EXCEPT ![r] = IF @ = "inbound" THEN "action" ELSE "outbound"]
  /\ pos' = [pos EXCEPT ![r] = 1]
  /\ UNCHANGED <<registry, subject, pc, evals, outcome, grantId, nextGrantId, audit>>

NoMatch(r) ==
  /\ Exhausted(r)
  /\ stage[r] = "outbound"
  /\ pc' = [pc EXCEPT ![r] = "decided"]
  /\ outcome' = [outcome EXCEPT ![r] = DenyWithoutMatch]
  /\ UNCHANGED <<registry, subject, progress, grantId, nextGrantId, audit>>

(* Slip: the next id is read off the audit trail, which lags behind. *)
MintFromTrail(r) ==
  /\ pc[r] = "decided"
  /\ outcome[r].decision = "allow"
  /\ grantId' = [grantId EXCEPT ![r] = Len(audit) + 1]
  /\ pc' = [pc EXCEPT ![r] = "recording"]
  /\ UNCHANGED <<registry, subject, progress, outcome, nextGrantId, audit>>

(* grant_with_engine: an allow draws an id from NEXT_GRANT_ID ... *)
MintGrant(r) ==
  /\ pc[r] = "decided"
  /\ outcome[r].decision = "allow"
  /\ grantId' = [grantId EXCEPT ![r] = nextGrantId]
  /\ nextGrantId' = nextGrantId + 1
  /\ pc' = [pc EXCEPT ![r] = "recording"]
  /\ UNCHANGED <<registry, subject, progress, outcome, audit>>

(* ... a denial does not. *)
Deny(r) ==
  /\ pc[r] = "decided"
  /\ outcome[r].decision = "deny"
  /\ pc' = [pc EXCEPT ![r] = "recording"]
  /\ UNCHANGED <<registry, subject, progress, outcome, grantId, nextGrantId, audit>>

(* Slip: a denial no policy is responsible for leaves no record. *)
RecordPolicyAnswers(r) ==
  /\ pc[r] = "recording"
  /\ audit' = IF outcome[r].source = NoMatchingPolicy THEN audit
              ELSE Append(audit, GrantRecord(r, outcome[r], grantId[r]))
  /\ pc' = [pc EXCEPT ![r] = IF outcome[r].decision = "allow" THEN "granted" ELSE "refused"]
  /\ UNCHANGED <<registry, subject, progress, outcome, grantId, nextGrantId>>

(* audit::record_grant, then the answer goes to the caller. *)
RecordGrant(r) ==
  /\ pc[r] = "recording"
  /\ audit' = Append(audit, GrantRecord(r, outcome[r], grantId[r]))
  /\ pc' = [pc EXCEPT ![r] = IF outcome[r].decision = "allow" THEN "granted" ELSE "refused"]
  /\ UNCHANGED <<registry, subject, progress, outcome, grantId, nextGrantId>>

(* The caller drops the future while a policy is awaited. *)
Cancel(r) ==
  /\ Awaiting(r)
  /\ pc' = [pc EXCEPT ![r] = "cancelled"]
  /\ UNCHANGED <<registry, subject, progress, outcome, grantId, nextGrantId, audit>>

Step(r) ==
  Evaluate(r) \/ NextStage(r) \/ NoMatch(r) \/ MintGrant(r) \/ Deny(r) \/ RecordGrant(r)

Next == Register \/ \E r \in Req : Ask(r) \/ Step(r) \/ Cancel(r)

Safety == Init /\ [][Next]_vars

(* Policies answer and the executor polls every call it has started. *)
Spec == Safety /\ \A r \in Req : WF_vars(Step(r))

-----------------------------------------------------------------------------
(* Properties *)

Allowed(r) == pc[r] \in {"decided", "recording", "granted"} /\ outcome[r].decision = "allow"

(* Whatever a host registers, before or after the envelope, and whatever   *)
(* those policies answer, an action outside the caller's capabilities is   *)
(* never allowed (pipeline.rs: an inbound allow does not end the decision).*)
EnvelopeGate == \A r \in Req : Allowed(r) => Within(subject[r])

(* Why the gate holds, as an invariant every step preserves: the envelope  *)
(* stays queued inbound, and a call is past it only if it let the call by. *)
EnvelopeInstalled == \E i \in 1..Len(inbound) : inbound[i].policy = Envelope

PastEnvelope(r) ==
  \/ stage[r] # "inbound"
  \/ \E i \in 1..Len(inbound) : i < pos[r] /\ inbound[i].policy = Envelope

EnvelopeInv ==
  /\ EnvelopeInstalled
  /\ \A r \in Req :
       /\ pc[r] = "idle" => stage[r] = "inbound" /\ pos[r] = 1
       /\ pc[r] = "deciding" /\ PastEnvelope(r) => Within(subject[r])
       /\ Allowed(r) => Within(subject[r])

(* The order of evaluation that decide promises for a call: inbound, then  *)
(* the queue of the action's own type, then outbound.                      *)
Tagged(st, queue) == [i \in 1..Len(queue) |-> [id |-> queue[i].id, stage |-> st]]

EvaluationOrder(s) ==
  Tagged("inbound", inbound) \o Tagged("action", typed[KindOf[s.action]])
    \o Tagged("outbound", outbound)

Neutral(e) == IF e.stage = "inbound" THEN e.decision # "deny" ELSE e.decision = "abstain"

(* The report explains the decision: it lists the registered policies in   *)
(* order without a gap, all but the last left the question open, and the   *)
(* outcome is the last one's answer, or the default denial once every      *)
(* policy has been asked.  Registration must not overlap a call for this.  *)
ReportExplainsOutcome ==
  \A r \in Req : pc[r] \in {"decided", "recording"} =>
    LET seen  == evals[r]
        n     == Len(seen)
        order == EvaluationOrder(subject[r])
    IN  /\ n <= Len(order)
        /\ \A i \in 1..n : /\ order[i] = [id |-> seen[i].id, stage |-> seen[i].stage]
                           /\ i < n => Neutral(seen[i])
        /\ IF outcome[r] = DenyWithoutMatch
           THEN n = Len(order) /\ (n > 0 => Neutral(seen[n]))
           ELSE /\ n > 0
                /\ ~Neutral(seen[n])
                /\ outcome[r] = [decision |-> seen[n].decision, source |-> seen[n].id]

(* A grant id names one grant: concurrent calls never share one.           *)
GrantIdsUnique ==
  \A q, r \in Req : q # r /\ grantId[q] # 0 => grantId[q] # grantId[r]

(* The trail is complete and exact: an answered call has one record, which *)
(* agrees with its outcome and its grant, and any other call has none.     *)
Records(r) == {i \in 1..Len(audit) : audit[i].req = r}

AuditFaithful ==
  \A r \in Req :
    IF pc[r] \in {"granted", "refused"}
    THEN /\ Cardinality(Records(r)) = 1
         /\ \A i \in Records(r) :
              /\ audit[i] = GrantRecord(r, outcome[r], grantId[r])
              /\ pc[r] = "granted" <=> audit[i].id # 0
    ELSE Records(r) = {}

(* The policy id in a report or a record identifies one registered policy. *)
AllQueues == {inbound, outbound} \cup {typed[k] : k \in Kind}

PolicyIdsUnique ==
  /\ \A queue \in AllQueues : \A i, j \in 1..Len(queue) :
       i # j => queue[i].id # queue[j].id
  /\ \A i \in 1..Len(inbound), j \in 1..Len(outbound) : inbound[i].id # outbound[j].id
  /\ \A k \in Kind : \A i \in 1..Len(typed[k]) :
       /\ \A queue \in {inbound, outbound} \cup {typed[l] : l \in Kind \ {k}} :
            \A j \in 1..Len(queue) : typed[k][i].id # queue[j].id

(* A call that is neither dropped nor stuck in a policy gets its answer.   *)
CallsAnswered ==
  \A r \in Req : pc[r] = "deciding" ~> pc[r] \in {"granted", "refused", "cancelled"}

(* The pipeline implements Authorizer. *)
Status(r) == IF InFlight(r) THEN "asked" ELSE pc[r]

Abstract == INSTANCE Authorizer WITH
  permitted <- {r \in Req : Within(subject[r])},
  status  <- [r \in Req |-> Status(r)],
  grantId <- [r \in Req |-> IF pc[r] = "granted" THEN grantId[r] ELSE 0],
  audited <- {[req |-> audit[i].req, decision |-> audit[i].decision, id |-> audit[i].id] :
                i \in 1..Len(audit)}

ImplementsAuthorizer == Abstract!Spec
=============================================================================
