------------------------------- MODULE Rollback -------------------------------
(* Rolling back the last patch run: last_patch_run (helper/rollback_window.py)    *)
(* finds it in the compliance reports when the rollback is planned, and the       *)
(* rollback undoes what began in its window.  A plan by instance ID runs once    *)
(* per location and has a report for each run; a plan for the environment runs    *)
(* once.  A run leaves a pending report some time after it begins, or none, and   *)
(* is reported some time after it ends.  The lock that keeps two starts apart is  *)
(* RunStart's.                                                                    *)
EXTENDS Naturals, FiniteSets

CONSTANTS
    Plans, Executions,
    PlanOf,               \* the plan of each execution
    Share,                \* the instances each execution patches
    ByEnvironment,        \* the plans that target the environment
    Account,              \* of each instance
    Before, After, MaxRun,  \* BEFORE_SECONDS, AFTER_SECONDS and MAX_RUN_SECONDS
    Lookback, CommandsFinish,  \* LOOKBACK_HOURS, and FINISHING_ and COMMANDS_FINISH_HOURS
    MaxClock,
    Faults                \* "duration": a report that doesn't tell it; "pending": one that isn't written

VARIABLES
    clock,
    run,        \* each execution: [at, began, ended]; stopped or failed, its commands may go on
    pending,    \* when each execution's pending report was written
    reported,   \* executions with a compliance report
    timed,      \* those whose report has a duration
    installed,  \* when each execution's package transaction began
    plan        \* the rollback: its targets, the run it undoes and the window

vars == <<clock, run, pending, reported, timed, installed, plan>>

Instances == UNION {Share[e] : e \in Executions}
ExecutionsOf(p) == {e \in Executions : PlanOf[e] = p}
Of(S, field) == {run[e][field] : e \in S}
Earliest(S) == CHOOSE n \in S : \A m \in S : n <= m
Latest(S) == CHOOSE n \in S : \A m \in S : m <= n
NoPlan == [at |-> "none", instances |-> {}, environment |-> FALSE, undoes |-> {}, since |-> 0, until |-> 0]
Never == MaxClock + 1

Init ==
    /\ clock = 0
    /\ run = [e \in Executions |-> [at |-> "none", began |-> 0, ended |-> 0]]
    /\ pending = [e \in Executions |-> Never]
    /\ reported = {} /\ timed = {}
    /\ installed = [e \in Executions |-> Never]
    /\ plan = NoPlan

-----------------------------------------------------------------------------
(* Patch runs. *)

\* The runs with a recent pending report: all that the guard and the rollback know of,
\* besides reports.
Unreported == {e \in Executions : pending[e] # Never /\ clock - pending[e] <= Lookback}

\* Those that go on, or ended early so recently that their commands may.
Going ==
    {e \in Unreported :
        \/ run[e].at = "going"
        \/ run[e].at = "stopped" /\ clock - run[e].ended < CommandsFinish}

\* The run guard lets a plan start where it knows of no other run that goes on.
Begin(p) ==
    /\ \A e \in ExecutionsOf(p) : run[e].at = "none" /\ \A f \in Going : Share[e] \intersect Share[f] = {}
    /\ run' = [e \in Executions |-> IF PlanOf[e] = p THEN [at |-> "going", began |-> clock, ended |-> 0] ELSE run[e]]
    /\ UNCHANGED <<clock, pending, reported, timed, installed, plan>>

\* Once all of a plan's executions have begun their pending reports are written, each or not.
WritePending(p) ==
    /\ \E e \in ExecutionsOf(p) : run[e].at # "none"
    /\ \A e \in ExecutionsOf(p) : pending[e] = Never /\ e \notin reported
    /\ \E lost \in IF "pending" \in Faults THEN SUBSET ExecutionsOf(p) ELSE {{}} :
         pending' = [e \in Executions |-> IF e \in ExecutionsOf(p) \ lost THEN clock ELSE pending[e]]
    /\ UNCHANGED <<clock, run, reported, timed, installed, plan>>

\* A run that succeeds has no commands left; one that is stopped or fails may.
End(e, at) ==
    /\ run[e].at = "going"
    /\ run' = [run EXCEPT ![e].at = at, ![e].ended = clock]
    /\ UNCHANGED <<clock, pending, reported, timed, installed, plan>>

\* The report of a run that ended early waits for its commands, but only so long.
WaitedLong(e) == clock - run[e].ended >= CommandsFinish

\* yum begins its transaction while the run's command goes on, which is over once the run
\* has succeeded or has its report, unless that didn't wait.
Install(e) ==
    /\ installed[e] = Never
    /\ \/ run[e].at = "going"
       \/ run[e].at = "stopped" /\ (e \notin reported \/ WaitedLong(e))
    /\ installed' = [installed EXCEPT ![e] = clock]
    /\ UNCHANGED <<clock, run, pending, reported, timed, plan>>

\* The reconciler writes a run's report, when its commands are over or have had their time,
\* and deletes its pending report; a delete that fails is tried again.
Report(e) ==
    /\ pending[e] # Never
    /\ run[e].at \in {"ended", "stopped"}
    /\ reported' = reported \union {e}
    /\ timed' \in IF e \in reported THEN {timed}
                  ELSE {timed \union {e}} \union (IF "duration" \in Faults THEN {timed} ELSE {})
    /\ pending' \in {pending, [pending EXCEPT ![e] = Never]}
    /\ UNCHANGED <<clock, run, installed, plan>>

Tick ==
    /\ clock < MaxClock
    /\ clock' = clock + 1
    /\ UNCHANGED <<run, pending, reported, timed, installed, plan>>

-----------------------------------------------------------------------------
(* Choosing the run to undo. *)

\* The reports of one instance-ID plan are one run; an environment run is its own.
Group(e) == IF PlanOf[e] \in ByEnvironment THEN {e} ELSE ExecutionsOf(PlanOf[e]) \intersect reported

Patched(group) == UNION {Share[e] : e \in group}

\* Runs that cover every wanted instance; for the environment, its own runs only.
Covering(ids, environment) ==
    {g \in {Group(e) : e \in reported} :
        IF environment THEN \A e \in g : PlanOf[e] \in ByEnvironment ELSE ids \subseteq Patched(g)}

EndOf(e) == IF e \in timed THEN run[e].ended ELSE run[e].began + MaxRun

\* Of one report of the run: not what the code does.
WindowOfFirst(g) ==
    LET e == CHOOSE e \in g : TRUE
    IN  [since |-> IF run[e].began < Before THEN 0 ELSE run[e].began - Before,
         until |-> EndOf(e) + (IF e \in timed THEN After ELSE 0)]

Window(g) ==
    LET began == Earliest(Of(g, "began"))
    IN  [since |-> IF began < Before THEN 0 ELSE began - Before,
         until |-> Latest({EndOf(e) : e \in g}) + (IF g \subseteq timed THEN After ELSE 0)]

\* Not what the code does.
UnreportedIgnored(ids) == FALSE

\* unreported_runs: while a run on these instances has a pending report, the last report is the
\* wrong one.
UnreportedRun(ids) == \E e \in Unreported : Share[e] \intersect ids # {}

\* Of an environment's accounts, the rollback keeps those its run patched.
Kept(ids, environment, g) ==
    IF environment THEN {i \in ids : \E j \in Patched(g) : Account[i] = Account[j]} ELSE ids

\* A rollback is planned; a report that can't be read refuses it.
PlanRollback(ids, environment) ==
    /\ plan.at = "none"
    /\ ~UnreportedRun(ids)
    /\ \E g \in Covering(ids, environment) :
         /\ \A h \in Covering(ids, environment) : Earliest(Of(h, "began")) <= Earliest(Of(g, "began"))
         /\ Kept(ids, environment, g) # {}
         /\ plan' = [at |-> "approved", instances |-> Kept(ids, environment, g), environment |-> environment,
                     undoes |-> g, since |-> Window(g).since, until |-> Window(g).until]
    /\ UNCHANGED <<clock, run, pending, reported, timed, installed>>

\* The start looks again for runs going on or not reported, never for another run to undo.
StartRollback ==
    /\ plan.at = "approved"
    /\ ~UnreportedRun(plan.instances)
    /\ plan' = [plan EXCEPT !.at = "started"]
    /\ UNCHANGED <<clock, run, pending, reported, timed, installed>>

\* By instance ID, in each instance's location; and by tag, in the accounts that were kept.
RollbackPatches == ~plan.environment /\ StartRollback
MultiAccountRollback == plan.environment /\ StartRollback

\* What comes after the rollback's start changes nothing it undoes.
Next ==
    /\ plan.at # "started"
    /\ \/ \E p \in Plans : Begin(p)
       \/ \E p \in Plans : WritePending(p)
       \/ \E e \in Executions : End(e, "ended") \/ End(e, "stopped")
       \/ \E e \in Executions : Install(e) \/ Report(e)
       \/ \E ids \in (SUBSET Instances) \ {{}} : PlanRollback(ids, FALSE)
       \/ PlanRollback(Instances, TRUE)
       \/ RollbackPatches \/ MultiAccountRollback
       \/ Tick

Spec == Init /\ [][Next]_vars

-----------------------------------------------------------------------------
TypeOK ==
    /\ clock \in 0..MaxClock
    /\ run \in [Executions -> [at: {"none", "going", "ended", "stopped"},
                              began: 0..MaxClock, ended: 0..MaxClock]]
    /\ pending \in [Executions -> 0..Never]
    /\ timed \subseteq reported /\ \A e \in reported : run[e].at \in {"ended", "stopped"}
    /\ installed \in [Executions -> 0..Never]
    /\ plan.at \in {"none", "approved", "started"}
    /\ plan.instances \subseteq Instances /\ plan.undoes \subseteq Executions

\* The plan patched every one of these instances (or the environment) with these executions.
PatchedAll(p, ids, environment, executions) ==
    LET its == ExecutionsOf(p) \intersect executions
    IN  its # {} /\ IF environment THEN p \in ByEnvironment ELSE ids \subseteq Patched(its)

LastRun(ids, environment, undoes, executions) ==
    \A p \in Plans : PatchedAll(p, ids, environment, executions) =>
        \A e \in ExecutionsOf(p), f \in undoes : run[e].began <= run[f].began

PlannedForLast(executions) ==
    plan' # plan /\ plan'.at = "approved" =>
        LastRun(plan'.instances, plan'.environment, plan'.undoes, executions)

Begun == {e \in Executions : run[e].at # "none"}

(* When a rollback is planned, the run it will undo is the last one that patched  *)
(* all of its instances in every location, of the runs that are reported or have  *)
(* a recent pending report (last_patch_run: "its reports are taken together";     *)
(* unreported_runs: "the last reported run is the wrong one to undo").            *)
PlansForLastRun == PlannedForLast(reported \union Unreported)

(* The same, of every run that began: unreported_runs says "while a newer one is  *)
(* unreported", but a run whose pending report isn't written yet, or was lost, is *)
(* not among those it looks at.                                                   *)
PlansForLastBegun == [][PlannedForLast(Begun)]_vars

(* The window holds every package transaction that the run it undoes began before *)
(* it ended, in every location, when the reports tell how long its runs took; and *)
(* it reaches only accounts that run patched (rollback_window: "Rollback undoes   *)
(* the yum transactions that began during the last finished Patchy patch run").   *)
WholeRunUndone ==
    plan.at = "started" =>
        /\ \A e \in plan.undoes : installed[e] <= run[e].ended /\ plan.undoes \subseteq timed =>
             plan.since <= installed[e] /\ installed[e] <= plan.until
        /\ \A i \in plan.instances : \E j \in Patched(plan.undoes) : Account[i] = Account[j]

(* It holds every transaction of that run: "A run that failed or was stopped      *)
(* part-way counts: that is when rollback is most needed".  A stopped run's       *)
(* commands may begin theirs after the margin.                                    *)
EveryTransactionUndone ==
    plan.at = "started" =>
        \A e \in plan.undoes : installed[e] # Never /\ plan.undoes \subseteq timed =>
            plan.since <= installed[e] /\ installed[e] <= plan.until

(* When the rollback starts, the run it undoes is still the last one: "while a    *)
(* newer one is unreported, the last reported run is the wrong one to undo".      *)
LastRunUndone ==
    [][plan.at = "approved" /\ plan'.at = "started" =>
          LastRun(plan.instances, plan.environment, plan.undoes, reported)]_vars

=============================================================================
