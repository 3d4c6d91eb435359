------------------------------ MODULE Approval ------------------------------
(***************************************************************************)
(* A plan's approval: the records plans/, plan-decisions/ and plan-runs/   *)
(* in the compliance bucket, written by the UI server's approve and cancel *)
(* handlers and by the runtime's claim.                                    *)
(*                                                                         *)
(* The UI server runs each handler in a worker thread and the runtime runs *)
(* each run_plan in one; they meet only in the bucket.  A handler's steps  *)
(* are its S3 calls, so a clock read, a check or a record read in one step *)
(* may be out of date in the next.  What the runtime checks besides the    *)
(* approval (calendar, start lock, run guard; see RunStart) appears here   *)
(* as a refusal that may always happen.                                    *)
(***************************************************************************)
EXTENDS Integers, FiniteSets

CONSTANTS
    Plan,
    Session,            \* conversations
    User,
    Operator,           \* users with the operator role
    Request,            \* approve and cancel requests the UI server handles at once
    Attempt,            \* run_plan invocations the runtime handles at once
    PlanTTL,            \* PLAN_TTL_MIN
    ApprovalTTL,        \* APPROVAL_TTL_MIN
    SeparateApprover,   \* REQUIRE_SEPARATE_APPROVER
    MaxTime,            \* bound of the clock
    None

Time == 0..MaxTime

\* The records of the bucket; a cancellation names no approver and no session.
PlanRecord == [session : Session, requestedBy : User, expiresAt : 0..(MaxTime + PlanTTL)]
DecisionRecord == [approver : User \union {None}, session : Session \union {None}, at : Time]
ClaimRecord == [at : Time]

ASSUME ApprovalAssumption ==
    /\ Operator \subseteq User
    /\ PlanTTL \in Nat
    /\ ApprovalTTL \in Nat
    /\ MaxTime \in Nat
    /\ SeparateApprover \in BOOLEAN
    /\ None \notin User \union PlanRecord \union DecisionRecord \union ClaimRecord

VARIABLES
    now,        \* minutes
    plans,      \* plans/<id>.json
    decisions,  \* plan-decisions/<id>.json
    claims,     \* plan-runs/<id>.json
    executed,   \* how often each plan's executor has been called
    requests,   \* the UI server's handlers
    attempts    \* the runtime's handlers

vars == <<now, plans, decisions, claims, executed, requests, attempts>>

Idle == [step |-> "idle"]

Init ==
    /\ now = 0
    /\ plans = [p \in Plan |-> None]
    /\ decisions = [p \in Plan |-> None]
    /\ claims = [p \in Plan |-> None]
    /\ executed = [p \in Plan |-> 0]
    /\ requests = [r \in Request |-> Idle]
    /\ attempts = [a \in Attempt |-> Idle]

Tick ==
    /\ now < MaxTime
    /\ now' = now + 1
    /\ UNCHANGED <<plans, decisions, claims, executed, requests, attempts>>

\* Mutant: the plan's record has no expiry.
CreateLastingPlan(p, s, u) ==
    /\ plans[p] = None
    /\ plans' = [plans EXCEPT ![p] = [session |-> s, requestedBy |-> u]]
    /\ UNCHANGED <<now, decisions, claims, executed, requests, attempts>>

\* create_plan, by a write tool in conversation s.
CreatePlan(p, s, u) ==
    /\ plans[p] = None
    /\ plans' = [plans EXCEPT ![p] =
                    [session |-> s, requestedBy |-> u, expiresAt |-> now + PlanTTL]]
    /\ UNCHANGED <<now, decisions, claims, executed, requests, attempts>>

Cancelled(p) == decisions[p] # None /\ decisions[p].approver = None
Approved(p) == decisions[p] # None /\ decisions[p].approver # None

-----------------------------------------------------------------------------
(* The UI server *)

SetRequest(r, rec) == requests' = [requests EXCEPT ![r] = rec]

\* _checked_plan: what approve and cancel refuse alike.
CheckedPlan(p, s, u) ==
    /\ u \in Operator
    /\ plans[p] # None
    /\ plans[p].session = s
    /\ now <= plans[p].expiresAt

\* _approve_plan up to its decision.  A plan's contents are written once, so the
\* hash on the operator's card, in the plan and in the decision is always the
\* plan's own, and its comparisons are left out.
ReceiveApprove(r, p, s, u) ==
    /\ requests[r] = Idle
    /\ CheckedPlan(p, s, u)
    /\ SeparateApprover => plans[p].requestedBy # u
    /\ SetRequest(r, [step |-> "approve", plan |-> p, user |-> u, at |-> now])
    /\ UNCHANGED <<now, plans, decisions, claims, executed, attempts>>

ReceiveCancel(r, p, s, u) ==
    /\ requests[r] = Idle
    /\ CheckedPlan(p, s, u)
    /\ SetRequest(r, [step |-> "cancel", plan |-> p, user |-> u, at |-> now])
    /\ UNCHANGED <<now, plans, decisions, claims, executed, attempts>>

\* Mutant: the put is unconditional.
RecordApprovalAgain(r) ==
    LET q == requests[r] IN
    /\ q.step = "approve"
    /\ \E at \in q.at..now :
          decisions' = [decisions EXCEPT ![q.plan] =
              [approver |-> q.user, session |-> plans[q.plan].session, at |-> at]]
    /\ SetRequest(r, [q EXCEPT !.step = "invoke"])
    /\ UNCHANGED <<now, plans, claims, executed, attempts>>

\* _put_once of the approval.  approved_at is read after the checks and before
\* the write, which may land any time later.
RecordApproval(r) ==
    LET q == requests[r] IN
    /\ q.step = "approve"
    /\ decisions[q.plan] = None
    /\ \E at \in q.at..now :
          decisions' = [decisions EXCEPT ![q.plan] =
              [approver |-> q.user, session |-> plans[q.plan].session, at |-> at]]
    /\ SetRequest(r, [q EXCEPT !.step = "invoke"])
    /\ UNCHANGED <<now, plans, claims, executed, attempts>>

\* A decision exists.  Only the approver on record may start the plan again.
ApprovalConflict(r) ==
    LET q == requests[r] IN
    /\ q.step = "approve"
    /\ decisions[q.plan] # None
    /\ SetRequest(r, IF decisions[q.plan].approver = q.user
                     THEN [q EXCEPT !.step = "retry"] ELSE Idle)
    /\ UNCHANGED <<now, plans, decisions, claims, executed, attempts>>

\* ... and only while the plan has not been claimed.
RetryApproval(r) ==
    LET q == requests[r] IN
    /\ q.step = "retry"
    /\ SetRequest(r, IF claims[q.plan] = None THEN [q EXCEPT !.step = "invoke"] ELSE Idle)
    /\ UNCHANGED <<now, plans, decisions, claims, executed, attempts>>

\* Mutant: the put is unconditional.
RecordCancelAgain(r) ==
    LET q == requests[r] IN
    /\ q.step = "cancel"
    /\ decisions' = [decisions EXCEPT ![q.plan] =
           [approver |-> None, session |-> None, at |-> now]]
    /\ SetRequest(r, Idle)
    /\ UNCHANGED <<now, plans, claims, executed, attempts>>

\* _put_once of the cancellation, or its 409.
RecordCancel(r) ==
    LET q == requests[r] IN
    /\ q.step = "cancel"
    /\ decisions' = [decisions EXCEPT ![q.plan] =
           IF @ = None THEN [approver |-> None, session |-> None, at |-> now] ELSE @]
    /\ SetRequest(r, Idle)
    /\ UNCHANGED <<now, plans, claims, executed, attempts>>

\* invoke_agent_runtime with run_plan.  The SDK sends it again when the reply
\* is late, so one request may reach the runtime more than once.
InvokeRuntime(r, a) ==
    LET q == requests[r] IN
    /\ q.step = "invoke"
    /\ attempts[a] = Idle
    /\ attempts' = [attempts EXCEPT ![a] =
           [step |-> "invoked", plan |-> q.plan, session |-> plans[q.plan].session]]
    /\ \/ SetRequest(r, Idle)
       \/ UNCHANGED requests
    /\ UNCHANGED <<now, plans, decisions, claims, executed>>

\* The call fails, the server restarts, or the request is refused for what is
\* not modelled (rate limit, missing access token).
DropRequest(r) ==
    /\ requests[r] # Idle
    /\ SetRequest(r, Idle)
    /\ UNCHANGED <<now, plans, decisions, claims, executed, attempts>>

-----------------------------------------------------------------------------
(* The runtime *)

SetAttempt(a, rec) == attempts' = [attempts EXCEPT ![a] = rec]

\* run_plan sent to the runtime by another caller, for any plan and conversation.
InvokeDirectly(a, p, s) ==
    /\ attempts[a] = Idle
    /\ SetAttempt(a, [step |-> "invoked", plan |-> p, session |-> s])
    /\ UNCHANGED <<now, plans, decisions, claims, executed, requests>>

\* Mutant: an approval never runs out.
ClaimableForLong(p, s) ==
    /\ plans[p] # None
    /\ plans[p].session = s
    /\ Approved(p)
    /\ decisions[p].session = plans[p].session
    /\ decisions[p].at <= plans[p].expiresAt
    /\ now <= plans[p].expiresAt

\* claim_plan's checks.
Claimable(p, s) ==
    /\ plans[p] # None
    /\ plans[p].session = s
    /\ Approved(p)
    /\ decisions[p].session = plans[p].session
    /\ decisions[p].at <= plans[p].expiresAt
    /\ now <= plans[p].expiresAt
    /\ now - decisions[p].at <= ApprovalTTL

CheckApproval(a) ==
    LET t == attempts[a] IN
    /\ t.step = "invoked"
    /\ Claimable(t.plan, t.session)
    /\ SetAttempt(a, [step |-> "claiming", plan |-> t.plan, at |-> now])
    /\ UNCHANGED <<now, plans, decisions, claims, executed, requests>>

\* Mutant: the put is unconditional.
ClaimAgain(a) ==
    LET t == attempts[a] IN
    /\ t.step = "claiming"
    /\ claims' = [claims EXCEPT ![t.plan] = [at |-> t.at]]
    /\ SetAttempt(a, [step |-> "executing", plan |-> t.plan])
    /\ UNCHANGED <<now, plans, decisions, executed, requests>>

\* claim_plan's put of plan-runs/<id>.json, with IfNoneMatch.
ClaimPlan(a) ==
    LET t == attempts[a] IN
    /\ t.step = "claiming"
    /\ IF claims[t.plan] = None
       THEN /\ claims' = [claims EXCEPT ![t.plan] = [at |-> t.at]]
            /\ SetAttempt(a, [step |-> "executing", plan |-> t.plan])
       ELSE /\ SetAttempt(a, Idle)
            /\ UNCHANGED claims
    /\ UNCHANGED <<now, plans, decisions, executed, requests>>

Execute(a) ==
    LET t == attempts[a] IN
    /\ t.step = "executing"
    /\ executed' = [executed EXCEPT ![t.plan] = @ + 1]
    /\ SetAttempt(a, Idle)
    /\ UNCHANGED <<now, plans, decisions, claims, requests>>

\* Refused before the claim, or the runtime died; after the claim a crash
\* leaves it spent.
DropAttempt(a) ==
    /\ attempts[a] # Idle
    /\ SetAttempt(a, Idle)
    /\ UNCHANGED <<now, plans, decisions, claims, executed, requests>>

-----------------------------------------------------------------------------
Server(r) ==
    \/ \E p \in Plan, s \in Session, u \in User :
          ReceiveApprove(r, p, s, u) \/ ReceiveCancel(r, p, s, u)
    \/ RecordApproval(r) \/ ApprovalConflict(r) \/ RetryApproval(r) \/ RecordCancel(r)
    \/ DropRequest(r)
    \/ \E a \in Attempt : InvokeRuntime(r, a)

Runtime(a) ==
    \/ \E p \in Plan, s \in Session : InvokeDirectly(a, p, s)
    \/ CheckApproval(a) \/ ClaimPlan(a) \/ Execute(a) \/ DropAttempt(a)

Next ==
    \/ Tick
    \/ \E p \in Plan, s \in Session, u \in User : CreatePlan(p, s, u)
    \/ \E r \in Request : Server(r)
    \/ \E a \in Attempt : Runtime(a)

Spec == Init /\ [][Next]_vars

-----------------------------------------------------------------------------
(* Properties *)

RequestState ==
    {Idle} \union [step : {"approve", "cancel", "retry", "invoke"},
                   plan : Plan, user : User, at : Time]

AttemptState ==
    {Idle} \union [step : {"invoked"}, plan : Plan, session : Session]
           \union [step : {"claiming"}, plan : Plan, at : Time]
           \union [step : {"executing"}, plan : Plan]

\* Every record and every handler's state has its type.
TypeOK ==
    /\ now \in Time
    /\ plans \in [Plan -> PlanRecord \union {None}]
    /\ decisions \in [Plan -> DecisionRecord \union {None}]
    /\ claims \in [Plan -> ClaimRecord \union {None}]
    /\ executed \in [Plan -> Nat]
    /\ requests \in [Request -> RequestState]
    /\ attempts \in [Attempt -> AttemptState]

\* A plan's executor is called at most once, however many approvals, retries,
\* resent calls and direct run_plan calls there are.
RunsOnce == \A p \in Plan : executed[p] <= 1

\* A claimed plan was approved, in its own conversation, by an operator, who is
\* not the requester where that is required; and when the claim was checked
\* neither the plan nor the approval had run out.
ClaimIsApproved ==
    \A p \in Plan : claims[p] # None =>
        /\ Approved(p)
        /\ decisions[p].approver \in Operator
        /\ SeparateApprover => decisions[p].approver # plans[p].requestedBy
        /\ claims[p].at <= plans[p].expiresAt
        /\ claims[p].at - decisions[p].at <= ApprovalTTL

\* A cancelled plan never runs: once the cancellation is on record no claim is,
\* and none is on its way.
CancelIsFinal ==
    \A p \in Plan : Cancelled(p) =>
        /\ claims[p] = None
        /\ executed[p] = 0
        /\ \A a \in Attempt : attempts[a].step \in {"claiming", "executing"}
                                  => attempts[a].plan # p

\* Each plan as the abstract change: the decision record settles its status.
Change == INSTANCE ChangeApproval WITH
    status <- [p \in Plan |-> IF plans[p] = None THEN "absent"
                              ELSE IF decisions[p] = None THEN "proposed"
                              ELSE IF decisions[p].approver = None THEN "cancelled"
                              ELSE "approved"],
    approver <- [p \in Plan |-> IF Approved(p) THEN {decisions[p].approver} ELSE {}],
    runs <- executed

\* The records and handlers implement the abstract approval of a change.
ImplementsChangeApproval == Change!Spec

=============================================================================
