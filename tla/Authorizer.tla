----------------------------- MODULE Authorizer -----------------------------
(***************************************************************************)
(* What the rest of the host may rely on when it asks for a grant:         *)
(*   - a request is answered once, with a grant or a refusal, or it is     *)
(*     dropped by its caller before it is answered;                        *)
(*   - a grant is given only to an action within the caller's capability   *)
(*     envelope, and carries an id no other grant has;                     *)
(*   - the answer and its audit record appear together.                    *)
(* Nothing is said here of policies, stages or registries.                 *)
(***************************************************************************)
EXTENDS Naturals

CONSTANT
  Req        \* the calls to PolicyEngine::grant

VARIABLES
  permitted, \* the calls whose action needs no capability the caller lacks
  status,    \* where each call is
  grantId,   \* the id of the grant a call obtained, 0 if none
  audited    \* the audited answers: records of a call, a decision and an id

vars == <<permitted, status, grantId, audited>>

Init ==
  /\ permitted \in SUBSET Req
  /\ status = [r \in Req |-> "idle"]
  /\ grantId = [r \in Req |-> 0]
  /\ audited = {}

Ask(r) ==
  /\ status[r] = "idle"
  /\ status' = [status EXCEPT ![r] = "asked"]
  /\ UNCHANGED <<permitted, grantId, audited>>

UsedIds == {grantId[q] : q \in Req}

Grant(r) ==
  /\ status[r] = "asked"
  /\ r \in permitted
  /\ status' = [status EXCEPT ![r] = "granted"]
  /\ grantId'[r] \notin UsedIds \cup {0}
  /\ grantId' = [grantId EXCEPT ![r] = grantId'[r]]
  /\ audited' = audited \cup {[req |-> r, decision |-> "allow", id |-> grantId'[r]]}
  /\ UNCHANGED permitted

Refuse(r) ==
  /\ status[r] = "asked"
  /\ status' = [status EXCEPT ![r] = "refused"]
  /\ audited' = audited \cup {[req |-> r, decision |-> "deny", id |-> 0]}
  /\ UNCHANGED <<permitted, grantId>>

Cancel(r) ==
  /\ status[r] = "asked"
  /\ status' = [status EXCEPT ![r] = "cancelled"]
  /\ UNCHANGED <<permitted, grantId, audited>>

Answer(r) == Grant(r) \/ Refuse(r)

Next == \E r \in Req : Ask(r) \/ Answer(r) \/ Cancel(r)

Safety == Init /\ [][Next]_vars

(* A call that was asked is answered or cancelled. *)
Answered == \A r \in Req : status[r] = "asked" ~> status[r] # "asked"

Spec == Safety /\ Answered
=============================================================================
