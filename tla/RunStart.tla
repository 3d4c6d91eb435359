------------------------------ MODULE RunStart ------------------------------
(***************************************************************************)
(* Starting an approved patch or rollback plan in the agent runtime.       *)
(*                                                                         *)
(* run_approved_plan takes the start lock, checks the runs in progress,    *)
(* claims the plan, starts one Automation execution per location, writes   *)
(* their pending reports and the plan's list, and releases the lock.  Each *)
(* invocation of run_approved_plan is an Attempt; the S3 records and SSM   *)
(* are shared by all attempts, which interleave at every S3 or SSM call.   *)
(*                                                                         *)
(* Faults names what may go wrong besides the code's own refusals:         *)
(*   "crash"      the runtime dies between two calls                       *)
(*   "start"      SSM refuses to start a location                          *)
(*   "lost reply" SSM starts a location and the call still fails           *)
(*   "record"     run-executions/ or plan-executions/ can't be written     *)
(*   "report"     pending-reports/ can't be written                        *)
(*   "release"    the lock can't be marked released                        *)
(*   "listing"    pending-reports/ can't be listed                         *)
(*   "slow"       a start outlasts START_LOCK_SECONDS                      *)
(*   "duplicate"  a plan is invoked again while an attempt at it is alive  *)
(***************************************************************************)
EXTENDS Integers, FiniteSets

CONSTANTS
    Plan,          \* approved plans whose tool is a patch or rollback tool
    Rollback,      \* the plans that roll back
    Location,      \* (account, region) pairs, each with the instances a plan names there
    Scope,         \* the locations each plan covers
    Attempt,       \* invocations of run_approved_plan
    LockSeconds,   \* START_LOCK_SECONDS, in ticks
    Faults,
    None

FaultKind == {"crash", "start", "lost reply", "record", "report",
              "release", "listing", "slow", "duplicate"}

\* run-locks/start.json.
LockRecord == [by : Attempt, plan : Plan, released : BOOLEAN, age : 0..LockSeconds]

ASSUME RunStartAssumption ==
    /\ Rollback \subseteq Plan
    /\ Scope \in [Plan -> SUBSET Location]
    /\ LockSeconds \in Nat \ {0}
    /\ Faults \subseteq FaultKind
    /\ None \notin LockRecord
    /\ None \notin Plan

\* One execution per plan and location: every start carries a ClientToken made
\* of the two, so a repeated start returns the execution already running.
Exec == {<<p, l>> : p \in Plan, l \in Location}
PlanOf(e) == e[1]
LocationOf(e) == e[2]
Execs(p) == {<<p, l>> : l \in Scope[p]}

VARIABLES
    lock,       \* run-locks/start.json: who put it, for which plan, released, age
    claimed,    \* plans with a plan-runs/ record
    ssm,        \* each execution's Automation status
    busy,       \* executions whose patch commands are still on the instances
    report,     \* each execution's pending-reports/ record, or its final report
    recorded,   \* executions with a run-executions/ record
    listed,     \* plan-executions/: the executions a plan's record lists
    step,       \* where each attempt is
    plan,       \* the plan it runs
    etag,       \* the lock put it read, for If-Match
    seen,       \* the pending reports it listed
    todo,       \* executions it has still to start, then to report
    ran,        \* executions it has started
    current     \* the execution it has started and not recorded yet

store   == <<claimed, report, recorded, listed>>
runs    == <<ssm, busy>>
local   == <<plan, etag, seen, todo, ran, current>>
vars    == <<lock, claimed, ssm, busy, report, recorded, listed,
             step, plan, etag, seen, todo, ran, current>>

\* The ETag of the lock record.  Its body names the plan and the time it was
\* taken or released, so every put of every attempt has an ETag of its own.
ETag(k) == <<k.by, k.released>>

\* Mutant: the body names no plan.
LockPutWithoutPlan(a, released) == [by |-> a, plan |-> None, released |-> released, age |-> 0]

LockPut(a, released) == [by |-> a, plan |-> plan[a], released |-> released, age |-> 0]

Over == {"idle", "done", "dead"}

\* Steps between taking the start lock and giving it back.
Starting == {"unreported", "list", "guard", "claim", "start", "record", "report", "close", "release"}

Init ==
    /\ lock = None
    /\ claimed = {}
    /\ ssm = [e \in Exec |-> "none"]
    /\ busy = {}
    /\ report = [e \in Exec |-> "none"]
    /\ recorded = {}
    /\ listed = [p \in Plan |-> {}]
    /\ step = [a \in Attempt |-> "idle"]
    /\ plan = [a \in Attempt |-> None]
    /\ etag = [a \in Attempt |-> None]
    /\ seen = [a \in Attempt |-> {}]
    /\ todo = [a \in Attempt |-> {}]
    /\ ran = [a \in Attempt |-> {}]
    /\ current = [a \in Attempt |-> None]

Goto(a, s) == step' = [step EXCEPT ![a] = s]

\* What a start checks first under the lock.
FirstCheck(a) == IF plan[a] \in Rollback THEN "unreported" ELSE "list"

-----------------------------------------------------------------------------
(* The invocation and the start lock *)

\* The UI sends run_plan when it has recorded the approval, or when the same
\* approver asks again and no plan-runs/ record exists yet.  A repeated click or
\* a call the SDK sends again makes an attempt beside one that is alive.
Begin(a, p) ==
    /\ step[a] = "idle"
    /\ \/ "duplicate" \in Faults
       \/ p \notin claimed /\ \A b \in Attempt : plan[b] = p => step[b] \in Over
    /\ Goto(a, "lock")
    /\ plan' = [plan EXCEPT ![a] = p]
    /\ UNCHANGED <<lock, store, runs, etag, seen, todo, ran, current>>

\* The change calendar is closed, or the lock can't be read or written.
RefuseBeforeLock(a) ==
    /\ step[a] \in {"lock", "takeover"}
    /\ Goto(a, "done")
    /\ UNCHANGED <<lock, store, runs, local>>

\* take_start_lock: put_object with IfNoneMatch.
CreateLock(a) ==
    /\ step[a] = "lock"
    /\ lock = None
    /\ lock' = LockPut(a, FALSE)
    /\ Goto(a, FirstCheck(a))
    /\ UNCHANGED <<store, runs, local>>

\* Mutant: an unreleased lock never expires.
LockInTheWayForever(p) ==
    /\ lock # None
    /\ ~lock.released
    /\ lock.plan # p

\* Another plan than p holds it, unreleased and not expired.
LockInTheWay(p) ==
    /\ lock # None
    /\ ~lock.released
    /\ lock.age < LockSeconds
    /\ lock.plan # p

\* The record exists: read it, and refuse or remember its ETag.
ReadLock(a) ==
    /\ step[a] = "lock"
    /\ lock # None
    /\ IF LockInTheWay(plan[a])
       THEN Goto(a, "done") /\ etag' = etag
       ELSE Goto(a, "takeover") /\ etag' = [etag EXCEPT ![a] = ETag(lock)]
    /\ UNCHANGED <<lock, store, runs, plan, seen, todo, ran, current>>

\* Mutant: the put is unconditional.
TakeOverAnyLock(a) ==
    /\ step[a] = "takeover"
    /\ lock' = LockPut(a, FALSE)
    /\ Goto(a, FirstCheck(a))
    /\ etag' = [etag EXCEPT ![a] = None]
    /\ UNCHANGED <<store, runs, plan, seen, todo, ran, current>>

\* put_object with IfMatch on the ETag that was read; on a conflict, refused.
TakeOverLock(a) ==
    /\ step[a] = "takeover"
    /\ IF ETag(lock) = etag[a]
       THEN lock' = LockPut(a, FALSE) /\ Goto(a, FirstCheck(a))
       ELSE lock' = lock /\ Goto(a, "done")
    /\ etag' = [etag EXCEPT ![a] = None]
    /\ UNCHANGED <<store, runs, plan, seen, todo, ran, current>>

-----------------------------------------------------------------------------
(* The run guard and the claim *)

Overlaps(e, p) == LocationOf(e) \in Scope[p]

\* Mutant: it waits for the reports of rollbacks.
UnreportedRollbacks(p) ==
    \E e \in Exec : report[e] = "pending" /\ PlanOf(e) \in Rollback /\ Overlaps(e, p)

\* unreported_runs: the patch runs of p's locations that await their report.
Unreported(p) ==
    \E e \in Exec : report[e] = "pending" /\ PlanOf(e) \notin Rollback /\ Overlaps(e, p)

\* _unreported_refusal: a rollback lists the pending reports, and refuses while
\* there is one of its locations.
CheckUnreported(a) ==
    /\ step[a] = "unreported"
    /\ Goto(a, IF Unreported(plan[a]) THEN "release" ELSE "list")
    /\ UNCHANGED <<lock, store, runs, local>>

\* _pending_contexts: the guard lists the pending reports.
ListPending(a) ==
    /\ step[a] = "list"
    /\ seen' = [seen EXCEPT ![a] = {e \in Exec : report[e] = "pending"}]
    /\ Goto(a, "guard")
    /\ UNCHANGED <<lock, store, runs, plan, etag, todo, ran, current>>

\* A listing fails: a rollback refuses, the guard finds nothing in the way.
ListingFails(a) ==
    /\ "listing" \in Faults
    /\ step[a] \in {"unreported", "list"}
    /\ Goto(a, IF step[a] = "unreported" THEN "release" ELSE "claim")
    /\ UNCHANGED <<lock, store, runs, local>>

\* Mutant: a run that ended early is over.
ActiveByStatus(e) == ssm[e] = "active"

\* active_runs: in progress, or ended early with commands that may be running.
\* An early end counts for FINISHING_HOURS, which outlasts the commands.
Active(e) ==
    \/ ssm[e] = "active"
    \/ ssm[e] = "ended early" /\ e \in busy

\* A run never becomes active again, so the guard's reads of the listed runs'
\* statuses, one after the other, let through what they would all at once.
Blocked(a) == \E e \in seen[a] : Overlaps(e, plan[a]) /\ Active(e)

PassGuard(a) ==
    /\ step[a] = "guard"
    /\ ~Blocked(a)
    /\ Goto(a, "claim")
    /\ seen' = [seen EXCEPT ![a] = {}]
    /\ UNCHANGED <<lock, store, runs, plan, etag, todo, ran, current>>

\* Refused by the guard (it also blocks on a status it can't read), by the
\* install list, or by the approval: not fresh, or the plan has already run.
RefuseUnderLock(a) ==
    /\ step[a] \in {"guard", "claim"}
    /\ Goto(a, "release")
    /\ seen' = [seen EXCEPT ![a] = {}]
    /\ UNCHANGED <<lock, store, runs, plan, etag, todo, ran, current>>

\* Mutant: the put is unconditional.
ClaimAgain(a) ==
    /\ step[a] = "claim"
    /\ claimed' = claimed \union {plan[a]}
    /\ todo' = [todo EXCEPT ![a] = Execs(plan[a])]
    /\ Goto(a, IF Execs(plan[a]) = {} THEN "release" ELSE "start")
    /\ UNCHANGED <<lock, runs, report, recorded, listed, plan, etag, seen, ran, current>>

\* claim_plan: put plan-runs/<id>.json with IfNoneMatch.
Claim(a) ==
    /\ step[a] = "claim"
    /\ plan[a] \notin claimed
    /\ claimed' = claimed \union {plan[a]}
    /\ todo' = [todo EXCEPT ![a] = Execs(plan[a])]
    /\ Goto(a, IF Execs(plan[a]) = {} THEN "release" ELSE "start")
    /\ UNCHANGED <<lock, runs, report, recorded, listed, plan, etag, seen, ran, current>>

-----------------------------------------------------------------------------
(* Starting the locations *)

Launch(e) ==
    /\ ssm' = [ssm EXCEPT ![e] = IF @ = "none" THEN "active" ELSE @]
    /\ busy' = IF ssm[e] = "none" THEN busy \union {e} ELSE busy

StartLocation(a, e) ==
    /\ step[a] = "start"
    /\ e \in todo[a]
    /\ Launch(e)
    /\ todo' = [todo EXCEPT ![a] = @ \ {e}]
    /\ ran' = [ran EXCEPT ![a] = @ \union {e}]
    /\ current' = [current EXCEPT ![a] = e]
    /\ Goto(a, "record")
    /\ UNCHANGED <<lock, store, plan, etag, seen>>

\* _started: run-executions/<id>.json the moment the start returns.
RecordRun(a) ==
    /\ step[a] = "record"
    /\ \/ recorded' = recorded \union {current[a]}
       \/ "record" \in Faults /\ recorded' = recorded
    /\ current' = [current EXCEPT ![a] = None]
    /\ IF todo[a] = {}
       THEN Goto(a, "report") /\ todo' = [todo EXCEPT ![a] = ran[a]]
       ELSE Goto(a, "start") /\ todo' = todo
    /\ UNCHANGED <<lock, runs, claimed, report, listed, plan, etag, seen, ran>>

\* Mutant: a failed start drops the runs that did start.
FailStartForgets(a, e) ==
    /\ step[a] = "start"
    /\ e \in todo[a]
    /\ \/ "start" \in Faults /\ UNCHANGED runs
       \/ "lost reply" \in Faults /\ Launch(e)
    /\ Goto(a, "release")
    /\ UNCHANGED <<lock, store, plan, etag, seen, todo, ran, current>>

\* Mutant: with no run started, it goes on to report the runs.
FailStartWithNone(a, e) ==
    /\ step[a] = "start"
    /\ e \in todo[a]
    /\ \/ "start" \in Faults /\ UNCHANGED runs
       \/ "lost reply" \in Faults /\ Launch(e)
    /\ todo' = [todo EXCEPT ![a] = ran[a]]
    /\ Goto(a, "report")
    /\ UNCHANGED <<lock, store, plan, etag, seen, ran, current>>

\* After the first failed start nothing more is started; the runs that did
\* start are reported and listed.  With none started the executor returns an error.
FailStart(a, e) ==
    /\ step[a] = "start"
    /\ e \in todo[a]
    /\ \/ "start" \in Faults /\ UNCHANGED runs
       \/ "lost reply" \in Faults /\ Launch(e)
    /\ todo' = [todo EXCEPT ![a] = ran[a]]
    /\ Goto(a, IF ran[a] = {} THEN "release" ELSE "report")
    /\ UNCHANGED <<lock, store, plan, etag, seen, ran, current>>

\* _write_pending_compliance_context, once for each started execution.
ReportRun(a, e) ==
    /\ step[a] = "report"
    /\ e \in todo[a]
    /\ \/ report' = [report EXCEPT ![e] = IF @ = "none" THEN "pending" ELSE @]
       \/ "report" \in Faults /\ report' = report
    /\ todo' = [todo EXCEPT ![a] = @ \ {e}]
    /\ Goto(a, IF todo[a] = {e} THEN "close" ELSE "report")
    /\ UNCHANGED <<lock, runs, claimed, recorded, listed, plan, etag, seen, ran, current>>

\* _record_executions: plan-executions/<plan>.json, create-only.
ListRuns(a) ==
    /\ step[a] = "close"
    /\ \/ listed' = [listed EXCEPT ![plan[a]] = IF @ = {} THEN ran[a] ELSE @]
       \/ "record" \in Faults /\ listed' = listed
    /\ Goto(a, "release")
    /\ UNCHANGED <<lock, runs, claimed, report, recorded, local>>

\* release_start_lock: put_object with IfMatch on the ETag of the attempt's own
\* put; it fails when the lock has been taken over since, and nothing is raised.
Release(a) ==
    /\ step[a] = "release"
    /\ \/ lock' = IF ETag(lock) = <<a, FALSE>> THEN LockPut(a, TRUE) ELSE lock
       \/ "release" \in Faults /\ lock' = lock
    /\ Goto(a, "done")
    /\ UNCHANGED <<store, runs, local>>

Crash(a) ==
    /\ "crash" \in Faults
    /\ step[a] \notin Over
    /\ Goto(a, "dead")
    /\ UNCHANGED <<lock, store, runs, local>>

-----------------------------------------------------------------------------
(* SSM, the reconciler and time *)

\* Every command has finished, then the execution succeeds.
RunSucceeds(e) ==
    /\ ssm[e] = "active"
    /\ ssm' = [ssm EXCEPT ![e] = "success"]
    /\ busy' = busy \ {e}
    /\ UNCHANGED <<lock, store, step, local>>

\* Stopped, failed or timed out: the commands already sent go on.
RunEndsEarly(e) ==
    /\ ssm[e] = "active"
    /\ ssm' = [ssm EXCEPT ![e] = "ended early"]
    /\ UNCHANGED <<lock, busy, store, step, local>>

CommandsFinish(e) ==
    /\ ssm[e] = "ended early"
    /\ busy' = busy \ {e}
    /\ UNCHANGED <<lock, ssm, store, step, local>>

\* Mutant: it reports a run that ended early at once.
ReconcileEarly(e) ==
    /\ report[e] = "pending"
    /\ ssm[e] # "active"
    /\ report' = [report EXCEPT ![e] = "written"]
    /\ UNCHANGED <<lock, runs, claimed, recorded, listed, step, local>>

\* The reconciler writes the report of a run that has ended, once its commands
\* have, and deletes the pending report.
Reconcile(e) ==
    /\ report[e] = "pending"
    /\ ssm[e] # "active"
    /\ e \notin busy
    /\ report' = [report EXCEPT ![e] = "written"]
    /\ UNCHANGED <<lock, runs, claimed, recorded, listed, step, local>>

\* Time passes for the lock's holder only when a start may be slow; a lock
\* whose holder is gone without releasing it ages until it expires.
Tick ==
    /\ lock # None
    /\ "slow" \in Faults \/ step[lock.by] \in Over
    /\ lock.age < LockSeconds
    /\ lock' = [lock EXCEPT !.age = @ + 1]
    /\ UNCHANGED <<store, runs, step, local>>

-----------------------------------------------------------------------------
Work(a) ==
    \/ RefuseBeforeLock(a) \/ CreateLock(a) \/ ReadLock(a) \/ TakeOverLock(a)
    \/ CheckUnreported(a) \/ ListPending(a) \/ ListingFails(a) \/ PassGuard(a) \/ RefuseUnderLock(a)
    \/ Claim(a) \/ RecordRun(a) \/ ListRuns(a) \/ Release(a)
    \/ \E e \in Exec : StartLocation(a, e) \/ FailStart(a, e) \/ ReportRun(a, e)

Environment ==
    \/ \E e \in Exec : RunSucceeds(e) \/ RunEndsEarly(e) \/ CommandsFinish(e) \/ Reconcile(e)
    \/ Tick

Next ==
    \/ \E a \in Attempt : Work(a) \/ Crash(a) \/ \E p \in Plan : Begin(a, p)
    \/ Environment

Spec == Init /\ [][Next]_vars

\* Runtime threads go on until they return, and the clock advances.
Fairness ==
    /\ \A a \in Attempt : WF_vars(Work(a))
    /\ WF_vars(Tick)

FairSpec == Spec /\ Fairness

-----------------------------------------------------------------------------
(* Properties *)

Steps == Over \union Starting \union {"lock", "takeover"}

\* Every record of the store and every attempt's local state has its type.
TypeOK ==
    /\ lock \in LockRecord \union {None}
    /\ claimed \subseteq Plan
    /\ ssm \in [Exec -> {"none", "active", "success", "ended early"}]
    /\ busy \subseteq Exec
    /\ report \in [Exec -> {"none", "pending", "written"}]
    /\ recorded \subseteq Exec
    /\ listed \in [Plan -> SUBSET Exec]
    /\ step \in [Attempt -> Steps]
    /\ plan \in [Attempt -> Plan \union {None}]
    /\ etag \in [Attempt -> (Attempt \X BOOLEAN) \union {None}]
    /\ seen \in [Attempt -> SUBSET Exec]
    /\ todo \in [Attempt -> SUBSET Exec]
    /\ ran \in [Attempt -> SUBSET Exec]
    /\ current \in [Attempt -> Exec \union {None}]

\* One patch or rollback plan starts at a time: no two attempts at different
\* plans are both between taking the start lock and giving it back.
OneStartAtATime ==
    \A a, b \in Attempt :
        step[a] \in Starting /\ step[b] \in Starting => plan[a] = plan[b]

\* Two plans' patch commands never run on the same location's instances at once.
NoOverlap ==
    \A e, f \in busy : LocationOf(e) = LocationOf(f) => PlanOf(e) = PlanOf(f)

\* Whatever crashes or is lost, two runs overlap only if one of them left no
\* pending report: a run the guard can see is never joined by another plan's.
NoReportedOverlap ==
    \A e, f \in busy :
        LocationOf(e) = LocationOf(f) /\ PlanOf(e) # PlanOf(f)
            => report[e] = "none" \/ report[f] = "none"

\* However often a plan is invoked, at most one attempt starts its executions.
StartedByOneAttempt ==
    \A a, b \in Attempt :
        a # b /\ plan[a] = plan[b] => ran[a] = {} \/ ran[b] = {}

\* Every execution SSM has started is in the hands of the attempt that started
\* it, or has its run record, its pending report and its place in the plan's
\* list: a start that fails half way leaves nothing untracked.
EveryRunTracked ==
    \A e \in Exec : ssm[e] # "none" =>
        \/ \E a \in Attempt : step[a] \in Starting /\ e \in ran[a]
        \/ e \in recorded /\ report[e] # "none" /\ e \in listed[PlanOf(e)]

\* A rollback starts only when no patch run of its locations awaits its report.
RollbackAfterReports ==
    [][\A e \in Exec :
          PlanOf(e) \in Rollback /\ ssm[e] = "none" /\ ssm'[e] # "none"
              => \A f \in Exec : PlanOf(f) \notin Rollback /\ Overlaps(f, PlanOf(e))
                                     => report[f] # "pending"]_vars

Life == INSTANCE RunLife WITH Run <- Exec, status <- ssm

\* Whatever crashes or is lost, and whoever starts a plan again, each execution
\* lives as RunLife says: started once, reported after its commands have finished.
ImplementsRunLife == Life!Spec

\* Whatever became of its holder, a lock does not stop another plan for good.
LockRecovers == \A p \in Plan : LockInTheWay(p) ~> ~LockInTheWay(p)

\* Every invocation ends: refused, run, or dead.
AttemptsEnd == \A a \in Attempt : (step[a] # "idle") ~> (step[a] \in Over)

=============================================================================
