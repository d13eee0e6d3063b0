--------------------------- MODULE PolicyContract ---------------------------
(***************************************************************************)
(* The vocabulary that policies, the pipeline and the hosts share          *)
(* (crates/contract): what a policy may answer, what one evaluation of a   *)
(* policy leaves in the report, and the outcome of a whole decision.       *)
(* Names and reasons are left out: the policy id identifies the policy.    *)
(***************************************************************************)
EXTENDS Naturals

PolicyDecision == {"allow", "deny", "abstain"}

Stage == {"inbound", "action", "outbound"}

(* The ids PolicyRegistry hands out start at 1; 0 is GrantSource::NoMatchingPolicy. *)
NoMatchingPolicy == 0

PolicyEvaluation == [id : Nat, stage : Stage, decision : PolicyDecision]

PolicyOutcome == [decision : {"allow", "deny"}, source : Nat]

DenyBy(id) == [decision |-> "deny", source |-> id]
DenyWithoutMatch == DenyBy(NoMatchingPolicy)

(* An allow carries the id of the grant, a denial carries none (0). *)
GrantRecord(req, outcome, id) ==
  [req |-> req, decision |-> outcome.decision, source |-> outcome.source, id |-> id]
=============================================================================
