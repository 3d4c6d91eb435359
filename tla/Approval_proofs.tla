--------------------------- MODULE Approval_proofs ---------------------------
(***************************************************************************)
(* Proofs about Approval for every set of plans, conversations, users,     *)
(* requests and runtime calls, and every time limit: a plan runs at most   *)
(* once, only with a fresh approval of an operator, and never once it is   *)
(* cancelled; and Approval implements ChangeApproval.  And for every set   *)
(* of targets and schedules (Schedule): a plan waits for a schedule only   *)
(* when each of its targets will be patched in time.                       *)
(***************************************************************************)
EXTENDS Approval, Integers, FiniteSets, FiniteSetTheorems, NaturalsInduction, WellFoundedInduction, TLAPS

-----------------------------------------------------------------------------
(* Type correctness *)

\* A busy request handler's fields.
LEMMA RequestFields ==
    ASSUME NEW q \in RequestState, q.step # "idle"
    PROVE  /\ q # Idle
           /\ q \in [step : {"approve", "cancel", "retry", "invoke"},
                     plan : Plan, user : User, at : Time]
           /\ q.plan \in Plan /\ q.user \in User /\ q.at \in Time
  BY DEF RequestState, Idle

\* A busy attempt's fields, by its step.
LEMMA AttemptFields ==
    ASSUME NEW t \in AttemptState
    PROVE  /\ t.step = "invoked" => t # Idle /\ t.plan \in Plan /\ t.session \in Session
           /\ t.step = "claiming" => t # Idle /\ t.plan \in Plan /\ t.at \in Time
           /\ t.step = "executing" => t # Idle /\ t.plan \in Plan
           /\ t.step \in {"idle", "invoked", "claiming", "executing"}
  BY DEF AttemptState, Idle

\* What a write to one handler's state leaves and makes.
LEMMA RequestsStay ==
    ASSUME requests \in [Request -> RequestState], NEW r \in Request,
           NEW rec \in RequestState, SetRequest(r, rec)
    PROVE  /\ requests' \in [Request -> RequestState]
           /\ \A x \in Request : requests'[x] = IF x = r THEN rec ELSE requests[x]
  BY DEF SetRequest

\* The same of one attempt's state.
LEMMA AttemptsStay ==
    ASSUME attempts \in [Attempt -> AttemptState], NEW a \in Attempt,
           NEW rec \in AttemptState, attempts' = [attempts EXCEPT ![a] = rec]
    PROVE  /\ attempts' \in [Attempt -> AttemptState]
           /\ \A x \in Attempt : attempts'[x] = IF x = a THEN rec ELSE attempts[x]
  OBVIOUS

\* Counting one more execution of a plan.
LEMMA CountUp ==
    ASSUME executed \in [Plan -> Nat], NEW p \in Plan,
           executed' = [executed EXCEPT ![p] = executed[p] + 1]
    PROVE  /\ executed' \in [Plan -> Nat]
           /\ \A x \in Plan : executed'[x] = IF x = p THEN executed[p] + 1 ELSE executed[x]
<1> DEFINE n == executed[p] + 1
<1>1. n \in Nat
  OBVIOUS
<1> HIDE DEF n
<1>2. executed' = [executed EXCEPT ![p] = n]
  BY DEF n
<1>3. QED
  BY <1>1, <1>2 DEF n

\* A request being handled is for a plan that exists; one about to record an
\* approval has passed what approve refuses.
RequestsChecked ==
    \A r \in Request : requests[r].step # "idle" =>
        LET q == requests[r] IN
        /\ plans[q.plan] # None
        /\ q.step = "approve" =>
              /\ q.user \in Operator
              /\ SeparateApprover => plans[q.plan].requestedBy # q.user

WellFormed == TypeOK /\ RequestsChecked

\* Every action keeps the types and what approve and cancel have checked.
LEMMA WellFormedStep == WellFormed /\ [Next]_vars => WellFormed'
<1> SUFFICES ASSUME WellFormed, [Next]_vars PROVE WellFormed'
    OBVIOUS
<1> USE ApprovalAssumption DEF WellFormed, TypeOK, RequestsChecked
<1>1. ASSUME Tick PROVE WellFormed'
  BY <1>1 DEF Tick, Time
<1>2. ASSUME NEW p \in Plan, NEW s \in Session, NEW u \in User, CreatePlan(p, s, u) PROVE WellFormed'
  <2> DEFINE rec == [session |-> s, requestedBy |-> u, expiresAt |-> now + PlanTTL]
  <2>1. rec \in PlanRecord
    BY DEF PlanRecord, Time
  <2>2. plans[p] = None /\ plans' = [plans EXCEPT ![p] = rec]
    BY <1>2 DEF CreatePlan
  <2> HIDE DEF rec
  <2>3. TypeOK'
    BY <1>2, <2>1, <2>2 DEF CreatePlan
  <2>4. \A r \in Request : requests[r].step # "idle" => plans'[requests[r].plan] = plans[requests[r].plan]
    BY <2>2, RequestFields
  <2>5. RequestsChecked'
    BY <1>2, <2>4 DEF CreatePlan
  <2>6. QED
    BY <2>3, <2>5
<1>3. ASSUME NEW r \in Request, NEW p \in Plan, NEW s \in Session, NEW u \in User,
             ReceiveApprove(r, p, s, u)
      PROVE WellFormed'
  <2> DEFINE rec == [step |-> "approve", plan |-> p, user |-> u, at |-> now]
  <2>1. rec \in RequestState /\ rec.step = "approve" /\ rec.plan = p /\ rec.user = u
    BY DEF RequestState
  <2>2. SetRequest(r, rec) /\ plans[p] # None /\ u \in Operator
            /\ (SeparateApprover => plans[p].requestedBy # u)
    BY <1>3 DEF ReceiveApprove, CheckedPlan
  <2> HIDE DEF rec
  <2>3. QED
    BY <1>3, <2>1, <2>2, RequestsStay DEF ReceiveApprove
<1>4. ASSUME NEW r \in Request, NEW p \in Plan, NEW s \in Session, NEW u \in User,
             ReceiveCancel(r, p, s, u)
      PROVE WellFormed'
  <2> DEFINE rec == [step |-> "cancel", plan |-> p, user |-> u, at |-> now]
  <2>1. rec \in RequestState /\ rec.step = "cancel" /\ rec.plan = p
    BY DEF RequestState
  <2>2. SetRequest(r, rec) /\ plans[p] # None
    BY <1>4 DEF ReceiveCancel, CheckedPlan
  <2> HIDE DEF rec
  <2>3. QED
    BY <1>4, <2>1, <2>2, RequestsStay DEF ReceiveCancel
\* A request that goes on to another step, or ends.
<1>5. ASSUME NEW r \in Request, NEW rec \in RequestState, SetRequest(r, rec), UNCHANGED plans,
             \/ rec = Idle
             \/ /\ requests[r].step # "idle"
                /\ \E s \in {"retry", "invoke"} : rec = [requests[r] EXCEPT !.step = s]
      PROVE /\ requests' \in [Request -> RequestState]
            /\ RequestsChecked'
  <2>1. rec.step # "idle" => requests[r].step # "idle" /\ rec.plan = requests[r].plan /\ rec.step # "approve"
    BY <1>5, RequestFields DEF Idle
  <2>2. QED
    BY <1>5, <2>1, RequestsStay
<1>6. ASSUME NEW r \in Request, requests[r].step # "idle", NEW s \in {"retry", "invoke"}
      PROVE [requests[r] EXCEPT !.step = s] \in RequestState
  BY <1>6, RequestFields DEF RequestState
<1>7. Idle \in RequestState /\ Idle \in AttemptState
  BY DEF RequestState, AttemptState
<1>8. ASSUME NEW r \in Request, RecordApproval(r) PROVE WellFormed'
  <2> DEFINE q == requests[r]
  <2>1. q.step # "idle" /\ q.plan \in Plan /\ q.user \in User /\ q.at \in Time /\ plans[q.plan] \in PlanRecord
    BY <1>8, RequestFields DEF RecordApproval
  <2>2. PICK at \in q.at..now : decisions' = [decisions EXCEPT ![q.plan] =
              [approver |-> q.user, session |-> plans[q.plan].session, at |-> at]]
    BY <1>8 DEF RecordApproval
  <2>3. at \in Time
    BY <2>1, <2>2 DEF Time
  <2>4. [approver |-> q.user, session |-> plans[q.plan].session, at |-> at] \in DecisionRecord
    BY <2>1, <2>3 DEF DecisionRecord, PlanRecord
  <2>5. decisions' \in [Plan -> DecisionRecord \union {None}]
    BY <2>2, <2>4
  <2>6. SetRequest(r, [q EXCEPT !.step = "invoke"]) /\ UNCHANGED <<now, plans, claims, executed, attempts>>
    BY <1>8 DEF RecordApproval
  <2>7. QED
    BY <2>1, <2>5, <2>6, <1>5, <1>6
<1>9. ASSUME NEW r \in Request, ApprovalConflict(r) PROVE WellFormed'
  BY <1>9, <1>5, <1>6, <1>7 DEF ApprovalConflict
<1>10. ASSUME NEW r \in Request, RetryApproval(r) PROVE WellFormed'
  BY <1>10, <1>5, <1>6, <1>7 DEF RetryApproval
<1>11. ASSUME NEW r \in Request, RecordCancel(r) PROVE WellFormed'
  <2>1. [approver |-> None, session |-> None, at |-> now] \in DecisionRecord
    BY DEF DecisionRecord
  <2>2. decisions' \in [Plan -> DecisionRecord \union {None}]
    BY <1>11, <2>1 DEF RecordCancel
  <2>3. QED
    BY <1>11, <2>2, <1>5, <1>7 DEF RecordCancel
<1>12. ASSUME NEW r \in Request, DropRequest(r) PROVE WellFormed'
  BY <1>12, <1>5, <1>7 DEF DropRequest
<1>13. ASSUME NEW r \in Request, NEW a \in Attempt, InvokeRuntime(r, a) PROVE WellFormed'
  <2> DEFINE q == requests[r]
             rec == [step |-> "invoked", plan |-> q.plan, session |-> plans[q.plan].session]
  <2>1. q.step # "idle" /\ q.plan \in Plan /\ plans[q.plan] \in PlanRecord
    BY <1>13, RequestFields DEF InvokeRuntime
  <2>2. rec \in AttemptState
    BY <2>1 DEF AttemptState, PlanRecord
  <2>3. attempts' = [attempts EXCEPT ![a] = rec] /\ UNCHANGED <<now, plans, decisions, claims, executed>>
            /\ (SetRequest(r, Idle) \/ UNCHANGED requests)
    BY <1>13 DEF InvokeRuntime
  <2> HIDE DEF rec
  <2>4. attempts' \in [Attempt -> AttemptState]
    BY <2>2, <2>3
  <2>5. requests' \in [Request -> RequestState] /\ RequestsChecked'
    BY <2>3, <1>5, <1>7
  <2>6. QED
    BY <2>3, <2>4, <2>5
<1>14. ASSUME NEW a \in Attempt, NEW p \in Plan, NEW s \in Session, InvokeDirectly(a, p, s) PROVE WellFormed'
  <2>1. [step |-> "invoked", plan |-> p, session |-> s] \in AttemptState
    BY DEF AttemptState
  <2>2. QED
    BY <1>14, <2>1, AttemptsStay DEF InvokeDirectly, SetAttempt
<1>15. ASSUME NEW a \in Attempt, CheckApproval(a) PROVE WellFormed'
  <2>1. [step |-> "claiming", plan |-> attempts[a].plan, at |-> now] \in AttemptState
    BY <1>15, AttemptFields DEF CheckApproval, AttemptState
  <2>2. QED
    BY <1>15, <2>1, AttemptsStay DEF CheckApproval, SetAttempt
<1>16. ASSUME NEW a \in Attempt, ClaimPlan(a) PROVE WellFormed'
  <2>1. attempts[a].plan \in Plan /\ attempts[a].at \in Time
    BY <1>16, AttemptFields DEF ClaimPlan
  <2>2. [step |-> "executing", plan |-> attempts[a].plan] \in AttemptState
    BY <2>1 DEF AttemptState
  <2>3. [at |-> attempts[a].at] \in ClaimRecord
    BY <2>1 DEF ClaimRecord
  <2>4. attempts' \in [Attempt -> AttemptState]
    BY <1>16, <2>2, <1>7 DEF ClaimPlan, SetAttempt
  <2>5. claims' \in [Plan -> ClaimRecord \union {None}]
    BY <1>16, <2>3 DEF ClaimPlan
  <2>6. QED
    BY <1>16, <2>4, <2>5 DEF ClaimPlan
<1>17. ASSUME NEW a \in Attempt, Execute(a) PROVE WellFormed'
  <2>1. attempts[a].plan \in Plan
    BY <1>17, AttemptFields DEF Execute
  <2>2. executed' \in [Plan -> Nat]
    BY <1>17, <2>1, CountUp DEF Execute
  <2>3. QED
    BY <1>17, <2>2, <1>7, AttemptsStay DEF Execute, SetAttempt
<1>18. ASSUME NEW a \in Attempt, DropAttempt(a) PROVE WellFormed'
  BY <1>18, <1>7, AttemptsStay DEF DropAttempt, SetAttempt
<1>19. CASE UNCHANGED vars
  BY <1>19 DEF vars
<1>20. QED
  BY <1>1, <1>2, <1>3, <1>4, <1>8, <1>9, <1>10, <1>11, <1>12, <1>13, <1>14, <1>15, <1>16,
     <1>17, <1>18, <1>19 DEF Next, Server, Runtime

\* Every record and every handler's state has its type, for every value of the constants.
THEOREM ApprovalTypeCorrect == Spec => []TypeOK
<1>1. Init => WellFormed
  BY ApprovalAssumption DEF Init, WellFormed, TypeOK, RequestsChecked, Time, Idle, RequestState, AttemptState
<1>2. QED
  BY <1>1, WellFormedStep, PTL DEF Spec, WellFormed

-----------------------------------------------------------------------------
(* Approved, claimed, executed *)

\* What makes plan p's approval one that its claim may rest on.
Granted(p) ==
    /\ plans[p] # None
    /\ decisions[p] # None
    /\ decisions[p].approver \in Operator
    /\ SeparateApprover => decisions[p].approver # plans[p].requestedBy

\* At time at, plan may run on decision, as their records say.
Runnable(plan, decision, at) ==
    /\ decision # None
    /\ decision.approver # None
    /\ at <= plan.expiresAt
    /\ at - decision.at <= ApprovalTTL

\* Every approval on record was an operator's, made as it should be.
DecisionsGranted == \A p \in Plan : Approved(p) => Granted(p)

\* An attempt past the checks, or a claim it has made, rests on an approval that
\* was fresh when it was checked.
ClaimsGranted ==
    /\ \A a \in Attempt : attempts[a].step = "claiming" =>
           Runnable(plans[attempts[a].plan], decisions[attempts[a].plan], attempts[a].at)
    /\ \A p \in Plan : claims[p] # None => Runnable(plans[p], decisions[p], claims[p].at)

\* An attempt that executes a plan holds its claim, alone, and a plan is executed
\* only by the holder of its claim.
ClaimIsHeldOnce ==
    /\ \A a \in Attempt : attempts[a].step = "executing" =>
           claims[attempts[a].plan] # None /\ executed[attempts[a].plan] = 0
    /\ \A a, b \in Attempt :
           attempts[a].step = "executing" /\ attempts[b].step = "executing"
               /\ attempts[a].plan = attempts[b].plan => a = b
    /\ \A p \in Plan : executed[p] = 0 \/ (executed[p] = 1 /\ claims[p] # None)

ApprovalInv == WellFormed /\ DecisionsGranted /\ ClaimsGranted /\ ClaimIsHeldOnce

\* A plan's record, decision and claim are each written once.
LEMMA RecordsStand ==
    ASSUME WellFormed, [Next]_vars, NEW p \in Plan
    PROVE  /\ plans[p] # None => plans'[p] = plans[p]
           /\ decisions[p] # None => decisions'[p] = decisions[p]
           /\ claims[p] # None => claims'[p] = claims[p]
<1> USE DEF WellFormed, TypeOK
<1>1. ASSUME NEW q \in Plan, NEW s \in Session, NEW u \in User, CreatePlan(q, s, u)
      PROVE  UNCHANGED <<decisions, claims>> /\ (plans[p] # None => plans'[p] = plans[p])
  BY <1>1 DEF CreatePlan
<1>2. ASSUME NEW r \in Request, RecordApproval(r)
      PROVE  UNCHANGED <<plans, claims>> /\ (decisions[p] # None => decisions'[p] = decisions[p])
  BY <1>2 DEF RecordApproval
<1>3. ASSUME NEW r \in Request, RecordCancel(r)
      PROVE  UNCHANGED <<plans, claims>> /\ (decisions[p] # None => decisions'[p] = decisions[p])
  BY <1>3 DEF RecordCancel
<1>4. ASSUME NEW a \in Attempt, ClaimPlan(a)
      PROVE  UNCHANGED <<plans, decisions>> /\ (claims[p] # None => claims'[p] = claims[p])
  BY <1>4 DEF ClaimPlan
<1>5. ASSUME NEW r \in Request, NEW q \in Plan, NEW s \in Session, NEW u \in User, NEW a \in Attempt,
             \/ ReceiveApprove(r, q, s, u) \/ ReceiveCancel(r, q, s, u)
             \/ InvokeRuntime(r, a) \/ InvokeDirectly(a, q, s)
      PROVE  UNCHANGED <<plans, decisions, claims>>
  BY <1>5 DEF ReceiveApprove, ReceiveCancel, InvokeRuntime, InvokeDirectly
<1>6. ASSUME NEW r \in Request, ApprovalConflict(r) \/ RetryApproval(r) \/ DropRequest(r)
      PROVE  UNCHANGED <<plans, decisions, claims>>
  BY <1>6 DEF ApprovalConflict, RetryApproval, DropRequest
<1>7. ASSUME NEW a \in Attempt, CheckApproval(a) \/ Execute(a) \/ DropAttempt(a)
      PROVE  UNCHANGED <<plans, decisions, claims>>
  BY <1>7 DEF CheckApproval, Execute, DropAttempt
<1>8. ASSUME Tick \/ UNCHANGED vars PROVE UNCHANGED <<plans, decisions, claims>>
  BY <1>8 DEF Tick, vars
<1>9. CASE \E r \in Request : Server(r)
  <2>1. PICK r \in Request : Server(r)
    BY <1>9
  <2>2. CASE \E q \in Plan, s \in Session, u \in User : ReceiveApprove(r, q, s, u) \/ ReceiveCancel(r, q, s, u)
    BY <2>2 DEF ReceiveApprove, ReceiveCancel
  <2>3. CASE \E a \in Attempt : InvokeRuntime(r, a)
    BY <2>3 DEF InvokeRuntime
  <2>4. QED
    BY <2>1, <2>2, <2>3, <1>2, <1>3, <1>6 DEF Server
<1>10. CASE \E a \in Attempt : Runtime(a)
  <2>1. PICK a \in Attempt : Runtime(a)
    BY <1>10
  <2>2. CASE \E q \in Plan, s \in Session : InvokeDirectly(a, q, s)
    BY <2>2 DEF InvokeDirectly
  <2>3. QED
    BY <2>1, <2>2, <1>4, <1>7 DEF Runtime
<1>11. QED
  BY <1>1, <1>8, <1>9, <1>10 DEF Next

\* A step of no attempt, or one that only invokes or drops attempts.
Quiet ==
    /\ UNCHANGED <<claims, executed>>
    /\ \A a \in Attempt :
          attempts'[a] = attempts[a] \/ attempts'[a].step \in {"idle", "invoked"}

\* Only the checks, the claim and the execution of an attempt are not quiet.
LEMMA StepKinds ==
    ASSUME WellFormed, [Next]_vars
    PROVE  Quiet \/ \E a \in Attempt : CheckApproval(a) \/ ClaimPlan(a) \/ Execute(a)
<1> USE DEF WellFormed, TypeOK
<1>1. ASSUME NEW a \in Attempt, NEW rec \in AttemptState, rec.step \in {"idle", "invoked"},
             attempts' = [attempts EXCEPT ![a] = rec], UNCHANGED <<claims, executed>>
      PROVE  Quiet
  BY <1>1, AttemptsStay DEF Quiet
<1>2. Idle \in AttemptState /\ Idle.step = "idle"
  BY DEF Idle, AttemptState
<1>3. ASSUME NEW r \in Request, NEW a \in Attempt, InvokeRuntime(r, a) PROVE Quiet
  <2> DEFINE q == requests[r]
             rec == [step |-> "invoked", plan |-> q.plan, session |-> plans[q.plan].session]
  <2>1. q.step # "idle"
    BY <1>3 DEF InvokeRuntime
  <2>2. q.plan \in Plan /\ plans[q.plan] \in PlanRecord
    BY <2>1, RequestFields DEF RequestsChecked
  <2>3. rec \in AttemptState /\ rec.step = "invoked"
    BY <2>2 DEF AttemptState, PlanRecord
  <2>4. attempts' = [attempts EXCEPT ![a] = rec] /\ UNCHANGED <<claims, executed>>
    BY <1>3 DEF InvokeRuntime
  <2> HIDE DEF rec
  <2>5. QED
    BY <2>3, <2>4, <1>1
<1>4. ASSUME NEW a \in Attempt, NEW p \in Plan, NEW s \in Session, InvokeDirectly(a, p, s) PROVE Quiet
  <2> DEFINE rec == [step |-> "invoked", plan |-> p, session |-> s]
  <2>1. rec \in AttemptState /\ rec.step = "invoked"
    BY DEF AttemptState
  <2>2. attempts' = [attempts EXCEPT ![a] = rec] /\ UNCHANGED <<claims, executed>>
    BY <1>4 DEF InvokeDirectly, SetAttempt
  <2> HIDE DEF rec
  <2>3. QED
    BY <2>1, <2>2, <1>1
<1>5. ASSUME NEW a \in Attempt, DropAttempt(a) PROVE Quiet
  BY <1>5, <1>1, <1>2 DEF DropAttempt, SetAttempt
<1>6. ASSUME UNCHANGED <<claims, executed, attempts>> PROVE Quiet
  BY <1>6 DEF Quiet
<1>7. ASSUME NEW r \in Request, NEW p \in Plan, NEW s \in Session, NEW u \in User,
             ReceiveApprove(r, p, s, u) \/ ReceiveCancel(r, p, s, u)
      PROVE  Quiet
  BY <1>7, <1>6 DEF ReceiveApprove, ReceiveCancel
<1>8. ASSUME NEW r \in Request,
             \/ RecordApproval(r) \/ ApprovalConflict(r) \/ RetryApproval(r)
             \/ RecordCancel(r) \/ DropRequest(r)
      PROVE  Quiet
  BY <1>8, <1>6 DEF RecordApproval, ApprovalConflict, RetryApproval, RecordCancel, DropRequest
<1>9. ASSUME NEW p \in Plan, NEW s \in Session, NEW u \in User, CreatePlan(p, s, u) PROVE Quiet
  BY <1>9, <1>6 DEF CreatePlan
<1>10. ASSUME Tick \/ UNCHANGED vars PROVE Quiet
  BY <1>10, <1>6 DEF Tick, vars
<1> HIDE DEF WellFormed, TypeOK
<1>11. QED
  BY <1>3, <1>4, <1>5, <1>7, <1>8, <1>9, <1>10 DEF Next, Server, Runtime

\* An approval that a step records was made as it should be.
LEMMA DecisionStep ==
    ASSUME WellFormed, [Next]_vars, NEW p \in Plan, decisions'[p] # decisions[p], Approved(p)'
    PROVE  Granted(p)'
<1> USE DEF WellFormed, TypeOK
<1>1. ASSUME NEW r \in Request, RecordApproval(r) PROVE Granted(p)'
  <2> DEFINE q == requests[r]
  <2>1. /\ q.plan \in Plan /\ q.user \in User /\ q.at \in Time
        /\ plans[q.plan] # None /\ q.user \in Operator
        /\ SeparateApprover => plans[q.plan].requestedBy # q.user
    BY <1>1, RequestFields DEF RecordApproval, RequestsChecked
  <2>2. PICK at \in q.at..now : decisions' = [decisions EXCEPT ![q.plan] =
              [approver |-> q.user, session |-> plans[q.plan].session, at |-> at]]
    BY <1>1 DEF RecordApproval
  <2>3. q.plan = p
    BY <2>1, <2>2
  <2>4. decisions'[p].approver = q.user /\ decisions'[p] # None /\ plans' = plans
    BY <1>1, <2>1, <2>2, <2>3 DEF RecordApproval, Approved
  <2>5. QED
    BY <2>1, <2>3, <2>4 DEF Granted
<1>2. ASSUME NEW r \in Request, RecordCancel(r) PROVE FALSE
  <2>1. requests[r].plan \in Plan
    BY <1>2, RequestFields DEF RecordCancel
  <2>2. decisions'[p] = [approver |-> None, session |-> None, at |-> now]
    BY <1>2, <2>1 DEF RecordCancel
  <2>3. QED
    BY <2>2 DEF Approved
<1>3. ASSUME UNCHANGED decisions PROVE FALSE
  BY <1>3
<1> HIDE DEF WellFormed, TypeOK
<1>4. ASSUME NEW a \in Attempt, Runtime(a) PROVE UNCHANGED decisions
  BY <1>4 DEF Runtime, InvokeDirectly, CheckApproval, ClaimPlan, Execute, DropAttempt
<1>5. ASSUME NEW r \in Request, Server(r) PROVE UNCHANGED decisions \/ RecordApproval(r) \/ RecordCancel(r)
  BY <1>5 DEF Server, ReceiveApprove, ReceiveCancel, ApprovalConflict, RetryApproval, DropRequest, InvokeRuntime
<1>6. QED
  BY <1>1, <1>2, <1>3, <1>4, <1>5 DEF Next, Tick, CreatePlan, vars

\* Every step keeps the invariant: only an attempt's check, its claim and its
\* execution touch what it says of attempts and claims.
LEMMA ApprovalInvStep == ApprovalInv /\ [Next]_vars => ApprovalInv'
<1> SUFFICES ASSUME ApprovalInv, [Next]_vars PROVE ApprovalInv'
    OBVIOUS
<1>1. WellFormed /\ WellFormed'
  BY WellFormedStep DEF ApprovalInv
<1>2. DecisionsGranted'
  <2> SUFFICES ASSUME NEW p \in Plan, Approved(p)' PROVE Granted(p)'
    BY DEF DecisionsGranted
  <2>1. CASE decisions'[p] = decisions[p]
    BY <1>1, <2>1, RecordsStand DEF ApprovalInv, DecisionsGranted, Granted, Approved
  <2>2. QED
    BY <1>1, <2>1, DecisionStep
\* An approval that was fresh at some time stays so.
<1>3. ASSUME NEW p \in Plan, NEW at \in Time, Runnable(plans[p], decisions[p], at)
      PROVE  Runnable(plans'[p], decisions'[p], at)
  BY <1>1, <1>3, RecordsStand DEF ApprovalInv, DecisionsGranted, Granted, Approved, Runnable
<1>4. /\ \A x \in Attempt : attempts[x] \in AttemptState /\ attempts'[x] \in AttemptState
      /\ \A p \in Plan : claims[p] # None => claims[p] \in ClaimRecord /\ claims[p].at \in Time
  BY <1>1 DEF WellFormed, TypeOK, ClaimRecord
\* What the invariant says of the attempts the step leaves as they are.
<1>5. ASSUME NEW x \in Attempt, attempts'[x] = attempts[x], attempts[x].step = "claiming"
      PROVE  Runnable(plans'[attempts'[x].plan], decisions'[attempts'[x].plan], attempts'[x].at)
  BY <1>3, <1>4, <1>5, AttemptFields DEF ApprovalInv, ClaimsGranted
<1>6. ASSUME NEW p \in Plan, claims[p] # None
      PROVE  claims'[p] = claims[p] /\ Runnable(plans'[p], decisions'[p], claims'[p].at)
  BY <1>1, <1>3, <1>4, <1>6, RecordsStand DEF ApprovalInv, ClaimsGranted
<1>7. CASE Quiet
  <2>1. ClaimsGranted'
    BY <1>5, <1>6, <1>7 DEF Quiet, ClaimsGranted
  <2>2. ClaimIsHeldOnce'
    BY <1>4, <1>7, AttemptFields DEF Quiet, ClaimIsHeldOnce, ApprovalInv
  <2>3. QED
    BY <1>1, <1>2, <2>1, <2>2 DEF ApprovalInv
<1>8. ASSUME NEW a \in Attempt, CheckApproval(a) PROVE ApprovalInv'
  <2> DEFINE rec == [step |-> "claiming", plan |-> attempts[a].plan, at |-> now]
  <2>1. attempts[a].plan \in Plan /\ now \in Time
    BY <1>4, <1>8, <1>1, AttemptFields DEF CheckApproval, WellFormed, TypeOK
  <2>2. rec \in AttemptState /\ rec.step = "claiming" /\ rec.plan = attempts[a].plan /\ rec.at = now
    BY <2>1 DEF AttemptState
  <2>3. attempts' = [attempts EXCEPT ![a] = rec] /\ UNCHANGED <<plans, decisions, claims, executed>>
    BY <1>8 DEF CheckApproval, SetAttempt
  <2> HIDE DEF rec
  <2>4. \A x \in Attempt : attempts'[x] = IF x = a THEN rec ELSE attempts[x]
    BY <1>1, <2>2, <2>3, AttemptsStay DEF WellFormed, TypeOK
  <2>5. Runnable(plans[rec.plan], decisions[rec.plan], now)
    BY <1>8, <2>2 DEF CheckApproval, Claimable, Approved, Runnable
  <2>6. Runnable(plans'[rec.plan], decisions'[rec.plan], rec.at)
    BY <2>2, <2>3, <2>5
  <2>7. ClaimsGranted'
    <3>1. ASSUME NEW x \in Attempt, attempts'[x].step = "claiming"
          PROVE  Runnable(plans'[attempts'[x].plan], decisions'[attempts'[x].plan], attempts'[x].at)
      BY <1>5, <2>4, <2>6, <3>1
    <3>2. ASSUME NEW p \in Plan, claims'[p] # None
          PROVE  Runnable(plans'[p], decisions'[p], claims'[p].at)
      BY <1>6, <2>3, <3>2
    <3>3. QED
      BY <3>1, <3>2 DEF ClaimsGranted
  <2>8. ClaimIsHeldOnce'
    BY <2>2, <2>3, <2>4 DEF ApprovalInv, ClaimIsHeldOnce
  <2>9. QED
    BY <1>1, <1>2, <2>7, <2>8 DEF ApprovalInv
<1>9. ASSUME NEW a \in Attempt, ClaimPlan(a) PROVE ApprovalInv'
  <2> DEFINE p == attempts[a].plan
             at == attempts[a].at
  <2>1. /\ attempts[a].step = "claiming" /\ p \in Plan /\ at \in Time
        /\ Runnable(plans[p], decisions[p], at)
    BY <1>4, <1>9, AttemptFields DEF ClaimPlan, ApprovalInv, ClaimsGranted
  <2>2. UNCHANGED <<plans, decisions, executed>>
    BY <1>9 DEF ClaimPlan
  <2>3. CASE claims[p] # None
    <3>1. attempts' = [attempts EXCEPT ![a] = Idle] /\ UNCHANGED claims
      BY <1>9, <2>3 DEF ClaimPlan, SetAttempt
    <3>2. Quiet
      BY <1>1, <2>2, <3>1 DEF Quiet, Idle, WellFormed, TypeOK
    <3>3. QED
      BY <1>7, <3>2
  <2>4. CASE claims[p] = None
    <3> DEFINE rec == [step |-> "executing", plan |-> p]
               claim == [at |-> at]
    <3>1. rec \in AttemptState /\ rec.step = "executing" /\ rec.plan = p
      BY <2>1 DEF AttemptState
    <3>2. claim \in ClaimRecord /\ claim # None /\ claim.at = at
      BY <2>1, ApprovalAssumption DEF ClaimRecord
    <3>3. attempts' = [attempts EXCEPT ![a] = rec] /\ claims' = [claims EXCEPT ![p] = claim]
      BY <1>9, <2>4 DEF ClaimPlan, SetAttempt
    <3> HIDE DEF rec, claim
    <3>4. \A x \in Attempt : attempts'[x] = IF x = a THEN rec ELSE attempts[x]
      BY <1>1, <3>1, <3>3, AttemptsStay DEF WellFormed, TypeOK
    <3>5. \A x \in Plan : claims'[x] = IF x = p THEN claim ELSE claims[x]
      BY <1>1, <2>1, <3>3 DEF WellFormed, TypeOK
    <3>6. Runnable(plans'[p], decisions'[p], claim.at)
      BY <2>1, <2>2, <3>2
    <3>7. ClaimsGranted'
      <4>1. ASSUME NEW x \in Attempt, attempts'[x].step = "claiming"
            PROVE  Runnable(plans'[attempts'[x].plan], decisions'[attempts'[x].plan], attempts'[x].at)
        BY <1>5, <3>1, <3>4, <4>1
      <4>2. ASSUME NEW x \in Plan, claims'[x] # None
            PROVE  Runnable(plans'[x], decisions'[x], claims'[x].at)
        BY <1>6, <3>5, <3>6, <4>2
      <4>3. QED
        BY <4>1, <4>2 DEF ClaimsGranted
    <3>8. executed[p] = 0 /\ \A x \in Attempt : attempts[x].step = "executing" => attempts[x].plan # p
      BY <2>1, <2>4 DEF ApprovalInv, ClaimIsHeldOnce
    <3>9. ClaimIsHeldOnce'
      <4>1. ASSUME NEW x \in Attempt, attempts'[x].step = "executing"
            PROVE  claims'[attempts'[x].plan] # None /\ executed'[attempts'[x].plan] = 0
        <5>1. CASE x = a
          BY <2>1, <2>2, <3>1, <3>2, <3>4, <3>5, <3>8, <5>1
        <5>2. CASE x # a
          <6>1. attempts'[x] = attempts[x] /\ attempts[x].plan \in Plan
            BY <1>4, <3>4, <4>1, <5>2, AttemptFields
          <6>2. QED
            BY <2>2, <3>5, <3>2, <4>1, <6>1 DEF ApprovalInv, ClaimIsHeldOnce
        <5>3. QED
          BY <5>1, <5>2
      <4>2. ASSUME NEW x \in Attempt, NEW y \in Attempt, attempts'[x].step = "executing",
                   attempts'[y].step = "executing", attempts'[x].plan = attempts'[y].plan
            PROVE  x = y
        BY <3>1, <3>4, <3>8, <4>2 DEF ApprovalInv, ClaimIsHeldOnce
      <4>3. ASSUME NEW x \in Plan
            PROVE  executed'[x] = 0 \/ (executed'[x] = 1 /\ claims'[x] # None)
        BY <2>2, <3>2, <3>5 DEF ApprovalInv, ClaimIsHeldOnce
      <4>4. QED
        BY <4>1, <4>2, <4>3 DEF ClaimIsHeldOnce
    <3>10. QED
      BY <1>1, <1>2, <3>7, <3>9 DEF ApprovalInv
  <2>5. QED
    BY <2>3, <2>4
<1>10. ASSUME NEW a \in Attempt, Execute(a) PROVE ApprovalInv'
  <2> DEFINE p == attempts[a].plan
  <2>1. attempts[a].step = "executing" /\ p \in Plan /\ claims[p] # None /\ executed[p] = 0
    BY <1>4, <1>10, AttemptFields DEF Execute, ApprovalInv, ClaimIsHeldOnce
  <2>2. attempts' = [attempts EXCEPT ![a] = Idle] /\ UNCHANGED <<plans, decisions, claims>>
    BY <1>10 DEF Execute, SetAttempt
  <2>3. \A x \in Plan : executed'[x] = IF x = p THEN 1 ELSE executed[x]
    <3>1. executed' = [executed EXCEPT ![p] = executed[p] + 1]
      BY <1>10 DEF Execute
    <3>2. \A x \in Plan : executed'[x] = IF x = p THEN executed[p] + 1 ELSE executed[x]
      BY <1>1, <2>1, <3>1, CountUp DEF WellFormed, TypeOK
    <3>3. QED
      BY <2>1, <3>2
  <2>4. \A x \in Attempt : attempts'[x] = IF x = a THEN Idle ELSE attempts[x]
    BY <1>1, <2>2 DEF WellFormed, TypeOK
  <2>5. ClaimsGranted'
    BY <1>5, <1>6, <2>2, <2>4 DEF ClaimsGranted, Idle
  <2>6. \A x \in Attempt : attempts'[x].step = "executing" => attempts'[x] = attempts[x] /\ attempts[x].plan # p
    BY <2>1, <2>4 DEF ApprovalInv, ClaimIsHeldOnce, Idle
  <2>7. ClaimIsHeldOnce'
    BY <1>4, <2>1, <2>2, <2>3, <2>6, AttemptFields DEF ApprovalInv, ClaimIsHeldOnce
  <2>8. QED
    BY <1>1, <1>2, <2>5, <2>7 DEF ApprovalInv
<1>11. QED
  BY <1>1, <1>7, <1>8, <1>9, <1>10, StepKinds

\* Init and every step keep the invariant.
LEMMA ApprovalInvariant == Spec => []ApprovalInv
<1>1. Init => ApprovalInv
  <2>1. Init => WellFormed
    BY ApprovalAssumption DEF Init, WellFormed, TypeOK, RequestsChecked, Time, Idle, RequestState, AttemptState
  <2>2. QED
    BY <2>1 DEF Init, ApprovalInv, DecisionsGranted, Approved, ClaimsGranted, ClaimIsHeldOnce, Idle
<1>2. QED
  BY <1>1, ApprovalInvStep, PTL DEF Spec

\* A plan's executor is called at most once, however many approvals, retries,
\* resent invocations and direct calls of run_plan there are.
THEOREM RunAtMostOnce == Spec => []RunsOnce
<1>1. ApprovalInv => RunsOnce
  BY DEF ApprovalInv, ClaimIsHeldOnce, RunsOnce
<1>2. QED
  BY <1>1, ApprovalInvariant, PTL

\* Every claim rests on an operator's approval that was fresh, for a plan that
\* had not run out, when the claim was checked.
THEOREM OnlyApprovedPlansRun == Spec => []ClaimIsApproved
<1>1. ApprovalInv => ClaimIsApproved
  BY DEF ApprovalInv, DecisionsGranted, Granted, ClaimsGranted, Runnable, Approved, ClaimIsApproved
<1>2. QED
  BY <1>1, ApprovalInvariant, PTL

\* Once its cancellation is on record a plan is neither claimed nor executed, and
\* no attempt at it has got past the checks.
THEOREM CancelledPlansNeverRun == Spec => []CancelIsFinal
<1>1. ApprovalInv => CancelIsFinal
  <2> SUFFICES ASSUME ApprovalInv, NEW p \in Plan, Cancelled(p)
               PROVE  /\ claims[p] = None
                      /\ executed[p] = 0
                      /\ \A a \in Attempt : attempts[a].step \in {"claiming", "executing"}
                                                => attempts[a].plan # p
    BY DEF CancelIsFinal
  <2>1. ~Approved(p)
    BY DEF Cancelled, Approved
  <2>2. claims[p] = None
    BY <2>1 DEF ApprovalInv, ClaimsGranted, Runnable, Approved
  <2>3. executed[p] = 0
    BY <2>2 DEF ApprovalInv, ClaimIsHeldOnce
  <2>4. ASSUME NEW a \in Attempt, attempts[a].step \in {"claiming", "executing"}, attempts[a].plan = p
        PROVE  FALSE
    BY <2>1, <2>2, <2>4 DEF ApprovalInv, ClaimsGranted, ClaimIsHeldOnce, Runnable, Approved
  <2>5. QED
    BY <2>2, <2>3, <2>4
<1>2. QED
  BY <1>1, ApprovalInvariant, PTL

-----------------------------------------------------------------------------
(* Approval implements ChangeApproval *)

\* A decision is recorded only for a plan that is stored: a change cannot be
\* born approved or cancelled.
Decided == \A p \in Plan : decisions[p] # None => plans[p] # None

\* Every step keeps it.
LEMMA DecidedStep == ASSUME WellFormed, Decided, [Next]_vars PROVE Decided'
<1> USE DEF Decided
<1>1. ASSUME NEW p \in Plan PROVE plans[p] # None => plans'[p] # None
  BY RecordsStand
<1>2. ASSUME NEW r \in Request, RecordApproval(r) \/ RecordCancel(r) PROVE Decided'
  <2> DEFINE q == requests[r]
  <2>1. q.plan \in Plan /\ plans[q.plan] # None
    BY <1>2, RequestFields DEF RecordApproval, RecordCancel, WellFormed, TypeOK, RequestsChecked
  <2>2. ASSUME NEW p \in Plan, p # q.plan PROVE decisions'[p] = decisions[p]
    BY <1>2, <2>2 DEF RecordApproval, RecordCancel, WellFormed, TypeOK
  <2>3. UNCHANGED plans
    BY <1>2 DEF RecordApproval, RecordCancel
  <2>4. QED
    BY <2>1, <2>2, <2>3
<1>3. ASSUME UNCHANGED decisions PROVE Decided'
  BY <1>1, <1>3
<1>4. ASSUME NEW a \in Attempt, Runtime(a) PROVE UNCHANGED decisions
  BY <1>4 DEF Runtime, InvokeDirectly, CheckApproval, ClaimPlan, Execute, DropAttempt
<1>5. ASSUME NEW r \in Request, Server(r) PROVE UNCHANGED decisions \/ RecordApproval(r) \/ RecordCancel(r)
  BY <1>5 DEF Server, ReceiveApprove, ReceiveCancel, ApprovalConflict, RetryApproval, DropRequest, InvokeRuntime
<1>6. QED
  BY <1>2, <1>3, <1>4, <1>5 DEF Next, Tick, CreatePlan, vars

\* Every step is a step of the plan's abstract change, or none.
LEMMA ChangeStep ==
    ASSUME ApprovalInv, Decided, [Next]_vars
    PROVE  [Change!Next]_(Change!vars)
<1> USE ApprovalAssumption
<1>1. WellFormed /\ TypeOK
  BY DEF ApprovalInv, WellFormed
<1>2. ASSUME NEW p \in Plan, NEW s \in Session, NEW u \in User, CreatePlan(p, s, u)
      PROVE  Change!Propose(p)
  <2> DEFINE rec == [session |-> s, requestedBy |-> u, expiresAt |-> now + PlanTTL]
  <2>1. rec # None
    BY <1>1 DEF PlanRecord, TypeOK, Time
  <2>2. plans[p] = None /\ plans' = [plans EXCEPT ![p] = rec] /\ UNCHANGED <<decisions, executed>>
    BY <1>2 DEF CreatePlan
  <2> HIDE DEF rec
  <2>3. decisions[p] = None
    BY <2>2 DEF Decided
  <2>4. \A x \in Plan : plans'[x] = IF x = p THEN rec ELSE plans[x]
    BY <1>1, <2>2 DEF TypeOK
  <2>5. QED
    BY <2>1, <2>2, <2>3, <2>4 DEF Change!Propose, Approved
<1>3. ASSUME NEW r \in Request, RecordApproval(r) PROVE \E p \in Plan, u \in User : Change!Approve(p, u)
  <2>1. /\ requests[r].plan \in Plan /\ requests[r].user \in User /\ requests[r].at \in Time
        /\ plans[requests[r].plan] # None /\ requests[r].user \in Operator
    BY <1>1, <1>3, RequestFields DEF RecordApproval, WellFormed, TypeOK, RequestsChecked
  <2>2. PICK p \in Plan, u \in User : p = requests[r].plan /\ u = requests[r].user
    BY <2>1
  <2>3. PICK at \in requests[r].at..now :
            decisions' = [decisions EXCEPT ![p] = [approver |-> u, session |-> plans[p].session, at |-> at]]
    BY <1>3, <2>2 DEF RecordApproval
  <2>4. PICK d : d = [approver |-> u, session |-> plans[p].session, at |-> at]
    OBVIOUS
  <2>5. d # None /\ d.approver = u /\ u # None
    <3>1. at \in Time
      BY <1>1, <2>1, <2>3 DEF Time, TypeOK
    <3>2. plans[p].session \in Session
      BY <1>1, <2>1, <2>2 DEF TypeOK, PlanRecord
    <3>3. QED
      BY <2>4, <3>1, <3>2 DEF DecisionRecord
  <2>6. \A x \in Plan : decisions'[x] = IF x = p THEN d ELSE decisions[x]
    BY <1>1, <2>3, <2>4 DEF TypeOK
  <2>7. decisions[p] = None /\ plans[p] # None /\ u \in Operator /\ UNCHANGED <<plans, executed>>
    BY <1>3, <2>1, <2>2 DEF RecordApproval
  <2>8. Change!Approve(p, u)
    BY <2>5, <2>6, <2>7 DEF Change!Approve, Approved
  <2>9. QED
    BY <2>8
<1>4. ASSUME NEW r \in Request, RecordCancel(r)
      PROVE  UNCHANGED <<plans, decisions, executed>> \/ \E p \in Plan : Change!Cancel(p)
  <2>1. requests[r].plan \in Plan /\ plans[requests[r].plan] # None
    BY <1>1, <1>4, RequestFields DEF RecordCancel, WellFormed, TypeOK, RequestsChecked
  <2>2. PICK p \in Plan : p = requests[r].plan
    BY <2>1
  <2>3. PICK d : d = [approver |-> None, session |-> None, at |-> now]
    OBVIOUS
  <2>4. d # None /\ d.approver = None
    BY <1>1, <2>3 DEF DecisionRecord, TypeOK
  <2>5. \A x \in Plan : decisions'[x] = IF x = p /\ decisions[p] = None THEN d ELSE decisions[x]
    BY <1>1, <1>4, <2>2, <2>3 DEF RecordCancel, TypeOK
  <2>6. UNCHANGED <<plans, executed>>
    BY <1>4 DEF RecordCancel
  <2>7. CASE decisions[p] = None
    <3>1. Change!Cancel(p)
      BY <2>1, <2>2, <2>4, <2>5, <2>6, <2>7 DEF Change!Cancel, Approved
    <3>2. QED
      BY <3>1
  <2>8. CASE decisions[p] # None
    <3>1. decisions' = decisions
      BY <1>1, <1>4, <2>2, <2>8 DEF RecordCancel, TypeOK
    <3>2. QED
      BY <2>6, <3>1
  <2>9. QED
    BY <2>7, <2>8
<1>5. ASSUME NEW a \in Attempt, Execute(a) PROVE \E p \in Plan : Change!Run(p)
  <2>1. attempts[a].step = "executing" /\ attempts[a].plan \in Plan
    BY <1>1, <1>5, AttemptFields DEF Execute, TypeOK
  <2>2. PICK p \in Plan : p = attempts[a].plan
    BY <2>1
  <2>3. claims[p] # None /\ executed[p] = 0
    BY <2>1, <2>2 DEF ApprovalInv, ClaimIsHeldOnce
  <2>4. Approved(p) /\ plans[p] # None
    BY <2>3 DEF ApprovalInv, ClaimsGranted, DecisionsGranted, Granted, Runnable, Approved
  <2>5. executed' = [executed EXCEPT ![p] = 1] /\ UNCHANGED <<plans, decisions>>
    BY <1>5, <2>2, <2>3 DEF Execute
  <2>6. Change!Run(p)
    BY <2>3, <2>4, <2>5 DEF Change!Run, Approved
  <2>7. QED
    BY <2>6
<1>6. ASSUME UNCHANGED <<plans, decisions, executed>> PROVE UNCHANGED Change!vars
  BY <1>6 DEF Change!vars, Approved
<1>7. ASSUME NEW a \in Attempt, Runtime(a) PROVE UNCHANGED <<plans, decisions, executed>> \/ Execute(a)
  BY <1>7 DEF Runtime, InvokeDirectly, CheckApproval, ClaimPlan, DropAttempt
<1>8. ASSUME NEW r \in Request, Server(r)
      PROVE  UNCHANGED <<plans, decisions, executed>> \/ RecordApproval(r) \/ RecordCancel(r)
  BY <1>8 DEF Server, ReceiveApprove, ReceiveCancel, ApprovalConflict, RetryApproval, DropRequest, InvokeRuntime
<1>9. Tick \/ UNCHANGED vars => UNCHANGED <<plans, decisions, executed>>
  BY DEF Tick, vars
<1>10. UNCHANGED Change!vars \/ \E p \in Plan :
           Change!Propose(p) \/ Change!Cancel(p) \/ Change!Run(p) \/ \E u \in User : Change!Approve(p, u)
  BY <1>2, <1>3, <1>4, <1>5, <1>6, <1>7, <1>8, <1>9 DEF Next
<1>11. QED
  BY <1>10 DEF Change!Next

\* Through the records and their handlers each plan lives the life of an abstract
\* change: proposed, then approved by an operator or cancelled, once, and after an
\* approval run at most once.
THEOREM RecordsImplementChange == Spec => ImplementsChangeApproval
<1>1. Init => Decided /\ Change!Init
  BY DEF Init, Decided, Change!Init, Approved
<1>2. Spec => []Decided
  <2>1. ApprovalInv /\ Decided /\ [Next]_vars => Decided'
    BY DecidedStep DEF ApprovalInv
  <2>2. QED
    BY <1>1, <2>1, ApprovalInvariant, PTL DEF Spec
<1>3. ApprovalInv /\ Decided /\ [Next]_vars => [Change!Next]_(Change!vars)
  BY ChangeStep
<1>4. QED
  BY <1>1, <1>2, <1>3, ApprovalInvariant, PTL DEF Spec, ImplementsChangeApproval, Change!Spec

-----------------------------------------------------------------------------
(* Whether a plan waits for a schedule (Schedule), or is put up for approval now    *)
(* and why.                                                                      *)

CONSTANTS Targets, Home, Schedules, Cves, TagHours, TagReads, Sightings, Fixes, DefaultSla, LocationsAllowed
VARIABLES asked, answer

Calendar == INSTANCE Schedule

(* The plan has finitely many targets, sightings are not in the future, Never is  *)
(* after every deadline, and schedules are what AWS may return.                  *)
CalendarConstants ==
    /\ IsFiniteSet(Targets)
    /\ DefaultSla \in Nat /\ DefaultSla < Calendar!Never
    /\ \A hours \in TagHours, i \in Targets : hours[i] \in Nat /\ hours[i] < Calendar!Never
    /\ \A tags \in TagReads, i \in Targets : tags[i] \in {"read", "unreadable"}
    /\ \A seen \in Sightings, i \in Targets : seen[i] = Calendar!NotSeen \/ (seen[i] \in Int /\ seen[i] <= Calendar!Now)
    /\ \A s \in Schedules :
          /\ \A w \in s.windows : w.installs \in {"nothing", "NoReboot", "RebootIfNeeded"} /\ w.end \in Int
          /\ \A p \in s.policies : p.reboot \in {"NoReboot", "RebootIfNeeded"} /\ p.end \in Int

(* A window's filters match instances of the window's account and Region only.   *)
WindowsMatchAtHome ==
    \A s \in Schedules : \A w \in s.windows : \A i \in Calendar!InstancesCovered(w) : w.home = Home[i]

(* A plan names at most one CVE.                                                 *)
OneCve == \A c, d \in Cves : c = d

-----------------------------------------------------------------------------
(* Least elements. *)

(* Some element of a finite set has the least number.                            *)
LEMMA LeastExists ==
    ASSUME NEW S, IsFiniteSet(S), S # {}, NEW f, \A x \in S : f[x] \in Int
    PROVE  \E x \in S : \A y \in S : f[x] <= f[y]
<1> DEFINE HasLeast(T) == \E x \in T : \A y \in T : f[x] <= f[y]
           Bad == {n \in Nat : \E T \in SUBSET S : T # {} /\ IsFiniteSet(T) /\ Cardinality(T) = n /\ ~HasLeast(T)}
           R == OpToRel(<, Nat)
<1>1. SUFFICES ASSUME ~HasLeast(S) PROVE FALSE
    OBVIOUS
<1>2. Bad # {} /\ Bad \subseteq Nat
    BY <1>1, FS_CardinalityType
<1>3. PICK n \in Bad : \A m \in Bad : ~(<<m, n>> \in R)
  <2> HIDE DEF Bad, R
  <2>1. IsWellFoundedOn(R, Nat)
    BY NatLessThanWellFounded DEF R
  <2> QED
    BY <1>2, <2>1, WFMin
<1>4. PICK T \in SUBSET S : T # {} /\ IsFiniteSet(T) /\ Cardinality(T) = n /\ ~HasLeast(T)
    BY <1>3
<1>5. PICK x \in T : TRUE
    BY <1>4
<1> DEFINE U == T \ {x}
<1>6. IsFiniteSet(U) /\ Cardinality(U) = n - 1 /\ n \in Nat /\ Cardinality(U) \in Nat
    BY <1>4, <1>5, FS_RemoveElement, FS_CardinalityType
<1>7. U \notin {V \in SUBSET S : V # {} /\ IsFiniteSet(V) /\ Cardinality(V) = n - 1 /\ ~HasLeast(V)}
  <2>1. n - 1 \notin Bad
    <3>1. n - 1 \in Bad => <<n - 1, n>> \in R
        BY <1>2, <1>6 DEF OpToRel
    <3> QED
        BY <3>1, <1>3
  <2> QED
    BY <2>1, <1>6
<1>8. CASE U = {}
  <2>1. \A y \in T : y = x
    BY <1>8
  <2>2. f[x] <= f[x]
    BY <1>5
  <2> QED
    BY <1>4, <1>5, <2>1, <2>2
<1>9. CASE HasLeast(U)
  <2>1. PICK z \in U : \A y \in U : f[z] <= f[y]
    BY <1>9
  <2>2. f[x] \in Int /\ f[z] \in Int /\ (\A y \in T : f[y] \in Int) /\ \A y \in T : y = x \/ y \in U
    BY <1>4, <1>5
  <2>3. CASE f[x] <= f[z]
    <3>1. \A y \in T : f[x] <= f[y]
        BY <2>1, <2>2, <2>3
    <3> QED
        BY <1>4, <1>5, <3>1
  <2>4. CASE f[z] <= f[x]
    <3>1. \A y \in T : f[z] <= f[y]
        BY <2>1, <2>2, <2>4
    <3> QED
        BY <1>4, <2>1, <3>1
  <2> QED
    BY <2>2, <2>3, <2>4
<1> QED
    BY <1>4, <1>6, <1>7, <1>8, <1>9

(* The least number is one of them, and none is less.                            *)
LEMMA MinIsLeast ==
    ASSUME NEW S, IsFiniteSet(S), S # {}, NEW f, \A x \in S : f[x] \in Int
    PROVE  LET least == Calendar!Min({f[x] : x \in S})
           IN  (\E x \in S : least = f[x]) /\ least \in Int /\ \A x \in S : least <= f[x]
<1> DEFINE values == {f[x] : x \in S}
<1>1. \E v \in values : \A u \in values : v <= u
    BY LeastExists
<1>2. Calendar!Min(values) \in values /\ \A u \in values : Calendar!Min(values) <= u
    BY <1>1 DEF Calendar!Min
<1> QED
    BY <1>2

-----------------------------------------------------------------------------
(* The deadline of a plan. *)

(* When no tag was unreadable, the plan's hours are within each target's.        *)
LEMMA StrictestHours ==
    ASSUME CalendarConstants, NEW r \in Calendar!Requests
    PROVE  /\ Calendar!SlaHours(r) \in Int /\ Calendar!SlaHours(r) < Calendar!Never
           /\ ~Calendar!TagsUnreadable(r) => \A i \in Targets : Calendar!SlaHours(r) <= r.hours[i]
<1> DEFINE found == {i \in Targets : r.tags[i] = "read"}
<1>1. r.hours \in TagHours /\ r.tags \in TagReads
    BY DEF Calendar!Requests
<1>2. ~Calendar!TagsUnreadable(r) => found = Targets
    BY <1>1 DEF CalendarConstants, Calendar!TagsUnreadable
<1>3. CASE found = {}
  <2>1. Calendar!SlaHours(r) = DefaultSla
    BY <1>3 DEF Calendar!SlaHours
  <2> QED
    BY <1>2, <1>3, <2>1 DEF CalendarConstants
<1>4. CASE found # {}
  <2>1. Calendar!SlaHours(r) = Calendar!Min({r.hours[i] : i \in found})
    BY <1>4 DEF Calendar!SlaHours
  <2>2. IsFiniteSet(found)
    BY FS_Subset DEF CalendarConstants
  <2>3. \A i \in found : r.hours[i] \in Int /\ r.hours[i] < Calendar!Never
    BY <1>1 DEF CalendarConstants
  <2> HIDE DEF found
  <2> QED
    BY <1>2, <1>4, <2>1, <2>2, <2>3, MinIsLeast
<1> QED
    BY <1>3, <1>4

(* A plan's time starts at each target's sighting or before.                     *)
LEMMA FirstObserved ==
    ASSUME CalendarConstants, NEW r \in Calendar!Requests
    PROVE  /\ Calendar!ObservedAt(r) \in Int /\ Calendar!ObservedAt(r) <= Calendar!Now
           /\ \A i \in Targets : r.seen[i] # Calendar!NotSeen => r.seen[i] \in Int /\ Calendar!ObservedAt(r) <= r.seen[i]
<1> DEFINE sighted == {i \in Targets : r.seen[i] # Calendar!NotSeen}
<1>1. \A i \in sighted : r.seen[i] \in Int /\ r.seen[i] <= Calendar!Now
    BY DEF CalendarConstants, Calendar!Requests
<1>2. {r.seen[i] : i \in Targets} \ {Calendar!NotSeen} = {r.seen[i] : i \in sighted}
    OBVIOUS
<1>3. CASE sighted = {}
  <2>1. Calendar!ObservedAt(r) = Calendar!Now
    BY <1>2, <1>3 DEF Calendar!ObservedAt
  <2> QED
    BY <1>3, <2>1 DEF Calendar!Now
<1>4. CASE sighted # {}
  <2>1. Calendar!ObservedAt(r) = Calendar!Min({r.seen[i] : i \in sighted})
    BY <1>2, <1>4 DEF Calendar!ObservedAt
  <2>2. IsFiniteSet(sighted)
    BY FS_Subset DEF CalendarConstants
  <2>3. \A i \in Targets : r.seen[i] # Calendar!NotSeen => i \in sighted
    OBVIOUS
  <2> HIDE DEF sighted
  <2> QED
    BY <1>1, <1>4, <2>1, <2>2, <2>3, MinIsLeast DEF Calendar!Now
<1> QED
    BY <1>3, <1>4

(* So a plan's deadline is no later than that of any of its targets.             *)
LEMMA DeadlineOfAll ==
    ASSUME CalendarConstants, NEW r \in Calendar!Requests
    PROVE  /\ Calendar!Deadline(r) \in Int /\ Calendar!Deadline(r) < Calendar!Never
           /\ ~Calendar!TagsUnreadable(r) =>
                 \A i \in Targets : Calendar!Due(i, r) \in Int /\ Calendar!Deadline(r) <= Calendar!Due(i, r)
<1>0. r.hours \in TagHours
    BY DEF Calendar!Requests
<1>1. \A i \in Targets : r.hours[i] \in Int
    BY <1>0 DEF CalendarConstants
<1> QED
    BY <1>1, StrictestHours, FirstObserved DEF Calendar!Deadline, Calendar!Due, Calendar!Now, Calendar!Never

-----------------------------------------------------------------------------
(* The runs of a target. *)

(* A run counted for a target that is in time and reboots where it must is one   *)
(* AWS will make.                                                                *)
LEMMA GoodRunPatches ==
    ASSUME CalendarConstants, WindowsMatchAtHome, NEW r \in Calendar!Requests, NEW i \in Targets, NEW due \in Int,
           Calendar!Deadline(r) <= due, Calendar!GoodRuns(i, r) # {}, r.cves \subseteq r.fixes[i]
    PROVE  Calendar!PatchedBy(i, due, r)
<1>1. Calendar!Deadline(r) \in Int
    BY DeadlineOfAll
<1>2. PICK good \in Calendar!Runs(i, r) : good.end <= Calendar!Deadline(r) /\ ~Calendar!RebootProblem(good.reboot, r)
    BY DEF Calendar!GoodRuns
<1>3. r.schedules \in Schedules
    BY DEF Calendar!Requests
<1>4. CASE \E w \in r.schedules.windows : good \in Calendar!WindowRuns(w, i)
  <2>1. PICK w \in r.schedules.windows : good \in Calendar!WindowRuns(w, i)
    BY <1>4
  <2>2. /\ Calendar!Listed(w) /\ i \in Calendar!InstancesCovered(w) /\ w.enabled /\ w.installs # "nothing"
        /\ good = [end |-> w.end, reboot |-> w.installs]
    BY <2>1, Zenon DEF Calendar!WindowRuns
  <2>3. w.home = Home[i]
    BY <1>3, <2>2 DEF WindowsMatchAtHome
  <2>4. \E target \in w.targets : target # {} /\ \A f \in target : i \in f
    BY <2>2 DEF Calendar!InstancesCovered, Calendar!Matches
  <2>5. w.end \in Int /\ w.installs \in {"nothing", "NoReboot", "RebootIfNeeded"}
    BY <1>3 DEF CalendarConstants
  <2>6. w.end <= due
    BY <1>1, <1>2, <2>2, <2>5
  <2>7. w.installs = "RebootIfNeeded" \/ ~(r.kernel /\ r.reboots)
    BY <1>2, <2>2, <2>5 DEF Calendar!RebootProblem
  <2> QED
    BY <2>2, <2>3, <2>4, <2>6, <2>7 DEF Calendar!PatchedBy
<1>5. CASE \E p \in r.schedules.policies : good \in Calendar!PolicyRuns(p, i, r)
  <2>1. PICK p \in r.schedules.policies : good \in Calendar!PolicyRuns(p, i, r)
    BY <1>5
  <2>2. /\ p.installs /\ p.deployed /\ Calendar!PolicyTargets(p, i, r.schedules.organization, r)
        /\ good = [end |-> p.end, reboot |-> p.reboot]
    BY <2>1, Zenon DEF Calendar!PolicyRuns
  <2>3. i \in p.tagged /\ Home[i].region \in p.regions /\ Home[i].account \in p.accounts \union p.ouAccounts
    BY <2>2 DEF Calendar!PolicyTargets
  <2>4. p.end \in Int /\ p.reboot \in {"NoReboot", "RebootIfNeeded"}
    BY <1>3 DEF CalendarConstants
  <2>5. p.end <= due
    BY <1>1, <1>2, <2>2, <2>4
  <2>6. p.reboot = "RebootIfNeeded" \/ ~(r.kernel /\ r.reboots)
    BY <1>2, <2>2, <2>4 DEF Calendar!RebootProblem
  <2> QED
    BY <2>2, <2>3, <2>5, <2>6 DEF Calendar!PatchedBy
<1> QED
    BY <1>2, <1>4, <1>5 DEF Calendar!Runs

(* When everything could be read, a run that AWS will make in time is counted.   *)
LEMMA PatchingRunIsGood ==
    ASSUME CalendarConstants, NEW r \in Calendar!Requests, NEW i \in Targets,
           Calendar!AllRead(r), ~Calendar!TagsUnreadable(r), Calendar!PatchedBy(i, Calendar!Deadline(r), r)
    PROVE  Calendar!GoodRuns(i, r) # {} /\ Calendar!Approved(i, r)
<1>1. Calendar!Deadline(r) \in Int /\ Calendar!Deadline(r) < Calendar!Never
    BY DeadlineOfAll
<1>2. r.tags[i] = "read"
    BY DEF CalendarConstants, Calendar!Requests, Calendar!TagsUnreadable
<1>3. Calendar!Approved(i, r)
    BY DEF Calendar!PatchedBy, Calendar!Approved
<1>4. r.schedules \in Schedules
    BY DEF Calendar!Requests
<1> DEFINE byWindow(w) ==
              /\ w.home = Home[i] /\ w.enabled /\ w.installs # "nothing" /\ w.end <= Calendar!Deadline(r)
              /\ \E target \in w.targets : target # {} /\ \A f \in target : i \in f
              /\ w.installs = "RebootIfNeeded" \/ ~(r.kernel /\ r.reboots)
           byPolicy(p) ==
              /\ p.installs /\ p.deployed /\ p.end <= Calendar!Deadline(r) /\ i \in p.tagged
              /\ Home[i].region \in p.regions /\ Home[i].account \in p.accounts \union p.ouAccounts
              /\ p.reboot = "RebootIfNeeded" \/ ~(r.kernel /\ r.reboots)
<1>5. CASE \E w \in r.schedules.windows : byWindow(w)
  <2>1. PICK w \in r.schedules.windows : byWindow(w)
    BY <1>5
  <2>2. i \in Calendar!InstancesCovered(w)
    BY <2>1 DEF Calendar!InstancesCovered, Calendar!Matches
  <2>3. Calendar!Listed(w)
    BY <2>2 DEF Calendar!AllRead, Calendar!Listed
  <2>4. w.end # Calendar!Never /\ ~Calendar!RebootProblem(w.installs, r)
    <3>1. w.end \in Int
        BY <1>4 DEF CalendarConstants
    <3> QED
        BY <1>1, <2>1, <3>1 DEF Calendar!RebootProblem, Calendar!Never
  <2> DEFINE good == [end |-> w.end, reboot |-> w.installs]
  <2>5. good \in Calendar!WindowRuns(w, i)
    BY <2>1, <2>2, <2>3, <2>4 DEF Calendar!WindowRuns
  <2>6. good \in Calendar!Runs(i, r)
    BY <2>5 DEF Calendar!Runs
  <2>7. good.end <= Calendar!Deadline(r) /\ ~Calendar!RebootProblem(good.reboot, r)
    BY <2>1, <2>4
  <2> QED
    BY <1>3, <2>6, <2>7 DEF Calendar!GoodRuns
<1>6. CASE \E p \in r.schedules.policies : byPolicy(p)
  <2>1. PICK p \in r.schedules.policies : byPolicy(p)
    BY <1>6
  <2>2. Calendar!PolicyTargets(p, i, r.schedules.organization, r)
    BY <1>2, <2>1 DEF Calendar!AllRead, Calendar!PolicyTargets
  <2>3. p.readable /\ ~Calendar!RebootProblem(p.reboot, r)
    BY <2>1 DEF Calendar!AllRead, Calendar!RebootProblem
  <2> DEFINE good == [end |-> p.end, reboot |-> p.reboot]
  <2>4. good \in Calendar!PolicyRuns(p, i, r)
    BY <2>1, <2>2, <2>3 DEF Calendar!PolicyRuns
  <2>5. good \in Calendar!Runs(i, r)
    BY <2>4 DEF Calendar!Runs
  <2>6. good.end <= Calendar!Deadline(r) /\ ~Calendar!RebootProblem(good.reboot, r)
    BY <2>1, <2>3
  <2> QED
    BY <1>3, <2>5, <2>6 DEF Calendar!GoodRuns
<1> QED
    BY <1>5, <1>6, Zenon DEF Calendar!PatchedBy

-----------------------------------------------------------------------------
(* The answer. *)

(* What each answer to a plan means.                                             *)
LEMMA AnswerMeans ==
    ASSUME NEW r, NEW told,
           told = IF r.inspector = "no severity" THEN Calendar!Refused("InspectorUnreadable")
                  ELSE Calendar!LocationLimit(Calendar!ScheduledWindow(r))
    PROVE  /\ told.reason \in {"none", "operator_asked", "severity_runs_now", "no_sla", "schedules_unchecked",
                               "no_schedule_meets_sla", "some_targets_uncovered"}
           /\ told.status = "SCHEDULED" => ~Calendar!TagsUnreadable(r) /\ Calendar!Covered(r) = Targets
           /\ told.reason \in {"no_schedule_meets_sla", "some_targets_uncovered"} =>
                 ~Calendar!TagsUnreadable(r) /\ Calendar!Covered(r) # Targets
<1> DEFINE checked == Calendar!ScheduledWindow(r)
<1>1. /\ checked.status \in {"SCHEDULED", "confirmation_required"}
      /\ checked.reason \in {"none", "operator_asked", "severity_runs_now", "no_sla", "schedules_unchecked",
                             "no_schedule_meets_sla", "some_targets_uncovered"}
      /\ checked.status = "SCHEDULED" => ~Calendar!TagsUnreadable(r) /\ Calendar!Covered(r) = Targets
      /\ checked.reason \in {"no_schedule_meets_sla", "some_targets_uncovered"} =>
            ~Calendar!TagsUnreadable(r) /\ Calendar!Covered(r) # Targets
    BY DEF Calendar!ScheduledWindow, Calendar!RunNow
<1> HIDE DEF checked
<1>2. told = checked \/ told = Calendar!Refused("InspectorUnreadable") \/ told = Calendar!Refused("LocationLimit")
    BY DEF Calendar!LocationLimit, checked
<1>3. CASE told = checked
    BY <1>1, <1>3
<1>4. CASE told = Calendar!Refused("InspectorUnreadable") \/ told = Calendar!Refused("LocationLimit")
  <2>1. \A code : Calendar!Refused(code).status = code /\ Calendar!Refused(code).reason = "none"
    BY DEF Calendar!Refused
  <2>2. told.status # "SCHEDULED" /\ told.reason = "none"
    BY <1>4, <2>1
  <2> QED
    BY <2>2
<1> QED
    BY <1>2, <1>3, <1>4

\* The answer is the one that ScheduledWindow, and the limit on locations, give.
CalendarInv ==
    /\ asked \in Calendar!Requests
    /\ \/ answer = Calendar!NoAnswer
       \/ answer = IF asked.inspector = "no severity" THEN Calendar!Refused("InspectorUnreadable")
                   ELSE Calendar!LocationLimit(Calendar!ScheduledWindow(asked))

(* A plan is answered once, by the checks in their order.                         *)
THEOREM CalendarInvariant == Calendar!Spec => []CalendarInv
<1>1. Calendar!Init => CalendarInv
    BY DEF Calendar!Init, CalendarInv
<1>2. CalendarInv /\ [Calendar!Next]_(Calendar!vars) => CalendarInv'
  <2> SUFFICES ASSUME CalendarInv, [Calendar!Next]_(Calendar!vars) PROVE CalendarInv'
    OBVIOUS
  <2>1. CASE UNCHANGED Calendar!vars
    BY <2>1 DEF Calendar!vars, CalendarInv
  <2>2. CASE Calendar!Next
    BY <2>2 DEF Calendar!Next, Calendar!Answer, CalendarInv
  <2> QED
    BY <2>1, <2>2
<1> QED
    BY <1>1, <1>2, PTL DEF Calendar!Spec

(* Before the answer nothing is said.                                             *)
LEMMA NoAnswerSaysNothing == Calendar!NoAnswer.status = "none" /\ Calendar!NoAnswer.reason = "none"
BY DEF Calendar!NoAnswer

(* A plan is a request, and is answered for a reason the operator is told.         *)
THEOREM CalendarTypeCorrect == Calendar!Spec => []Calendar!TypeOK
<1>1. CalendarInv => Calendar!TypeOK
    BY NoAnswerSaysNothing, AnswerMeans DEF CalendarInv, Calendar!TypeOK
<1> QED
    BY <1>1, CalendarInvariant, PTL

(* For all targets, windows, policies, tags and sightings: a plan of one CVE that  *)
(* waits is one whose every target AWS will patch before that target's own        *)
(* deadline, where windows match instances of their own account and Region only   *)
(* (coverage.py: "a plan waits only when every target is proven covered").        *)
THEOREM WaitsOnlyInTime ==
    ASSUME CalendarConstants, WindowsMatchAtHome, OneCve
    PROVE  Calendar!Spec => []Calendar!WaitMeetsSla
<1>1. CalendarInv => Calendar!WaitMeetsSla
  <2> SUFFICES ASSUME CalendarInv, answer.status = "SCHEDULED", NEW i \in Targets
               PROVE  Calendar!PatchedBy(i, Calendar!Due(i, asked), asked)
    BY DEF Calendar!WaitMeetsSla
  <2>1. asked \in Calendar!Requests /\ ~Calendar!TagsUnreadable(asked) /\ Calendar!Covered(asked) = Targets
    BY NoAnswerSaysNothing, AnswerMeans DEF CalendarInv
  <2>2. Calendar!GoodRuns(i, asked) # {} /\ Calendar!Approved(i, asked)
    BY <2>1 DEF Calendar!Covered
  <2>3. asked.cves \subseteq asked.fixes[i]
    BY <2>1, <2>2 DEF Calendar!Approved, Calendar!Requests, OneCve
  <2>4. Calendar!Due(i, asked) \in Int /\ Calendar!Deadline(asked) <= Calendar!Due(i, asked)
    BY <2>1, DeadlineOfAll
  <2> QED
    BY <2>1, <2>2, <2>3, <2>4, GoodRunPatches
<1> QED
    BY <1>1, CalendarInvariant, PTL

(* And a plan is told to run now for want of a schedule only when, everything      *)
(* being read, some target really has none in time (RUN_NOW_REASONS).            *)
THEOREM RunsNowOnlyForCause ==
    ASSUME CalendarConstants
    PROVE  Calendar!Spec => []Calendar!RunsNowForCause
<1>1. CalendarInv => Calendar!RunsNowForCause
  <2> SUFFICES ASSUME CalendarInv, answer.reason \in {"no_schedule_meets_sla", "some_targets_uncovered"},
                      Calendar!AllRead(asked),
                      \A i \in Targets : Calendar!PatchedBy(i, Calendar!Deadline(asked), asked)
               PROVE  FALSE
    BY DEF Calendar!RunsNowForCause
  <2>1. asked \in Calendar!Requests /\ ~Calendar!TagsUnreadable(asked) /\ Calendar!Covered(asked) # Targets
    BY NoAnswerSaysNothing, AnswerMeans DEF CalendarInv
  <2>2. \A i \in Targets : Calendar!GoodRuns(i, asked) # {} /\ Calendar!Approved(i, asked)
    BY <2>1, PatchingRunIsGood
  <2> QED
    BY <2>1, <2>2 DEF Calendar!Covered
<1> QED
    BY <1>1, CalendarInvariant, PTL

=============================================================================
