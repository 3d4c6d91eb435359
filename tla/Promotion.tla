------------------------------ MODULE Promotion ------------------------------
(* Staged promotion: verify_and_proceed (helper/tools/maintenance_tools.py)     *)
(* looks at a plan's runs, its instances and their alarms and, when all is well, *)
(* records the plan's stage and patch scope as verified; stage_check             *)
(* (helper/change_controls.py) tells a later stage whether the one before it was *)
(* verified recently.  One instance stands for a location's instances.           *)
EXTENDS Naturals, FiniteSets

CONSTANTS
    Plans, Executions, Locations, Scopes,
    PlanOf, LocationsOf,        \* of each execution
    Stage, Scope,               \* of each plan; stages are numbered from dev, 0
    Alarms,                     \* CloudWatch alarms on an instance
    Evaluation,                 \* how long each of them takes to evaluate
    MinSettle, Margin, MaxSettle,  \* ALARM_SETTLE_SECONDS, _MARGIN_ and _MAX_SECONDS
    MaxAge,                     \* PROMOTION_MAX_AGE_DAYS
    Shown,                      \* how many alarms without data an instance's answer keeps
    MaxClock,
    Faults                      \* which of "list", "plan", "locations", "read" and "places" may fail

VARIABLES
    clock,
    run,        \* what SSM tells of each execution
    listed,     \* plans with a plan-executions/ record
    inFlight,   \* records verify_and_proceed is about to write
    promotion,  \* promotions/<scope>/<environment>.json, or None
    verified,   \* every record ever written
    last        \* the last answer, and what was true of the plan when it was given

vars == <<clock, run, listed, inFlight, promotion, verified, last>>

None == [execution |-> "none", ended |-> 0]
Ended == {"Success", "Failed", "Cancelled"}
Children(e) == [LocationsOf[e] -> {"InProgress"} \union Ended]
Siblings(e) == {f \in Executions : PlanOf[f] = PlanOf[e]} \ {e}
Begun(p) == {e \in Executions : PlanOf[e] = p /\ run[e].status # "none"}
PlanLocations(p) == UNION {LocationsOf[e] : e \in {f \in Executions : PlanOf[f] = p}}
NotRun(e) == [status |-> "none", began |-> 0, ended |-> 0, child |-> [l \in LocationsOf[e] |-> "InProgress"]]
Greatest(S) == CHOOSE n \in S : \A m \in S : m <= n
Least(S) == CHOOSE n \in S : \A m \in S : n <= m
NothingTrue == [well |-> FALSE, clean |-> FALSE, failed |-> FALSE, unplaced |-> FALSE]

Init ==
    /\ clock = 0
    /\ run = [e \in Executions |-> NotRun(e)]
    /\ listed = {} /\ inFlight = {} /\ verified = {}
    /\ promotion = [s \in {Stage[p] : p \in Plans} \X Scopes |-> None]
    /\ last = [recommendation |-> "none", truth |-> NothingTrue]

-----------------------------------------------------------------------------
(* The plan's runs. *)

StartPlan(p) ==
    /\ Begun(p) = {}
    /\ run' = [e \in Executions |->
         IF PlanOf[e] = p THEN [NotRun(e) EXCEPT !.status = "InProgress", !.began = clock] ELSE run[e]]
    /\ \/ listed' = listed \union {p}
       \/ "list" \in Faults /\ UNCHANGED listed
    /\ UNCHANGED <<clock, inFlight, promotion, verified, last>>

LocationEnds(e, l, outcome) ==
    /\ run[e].status # "none"
    /\ run[e].child[l] = "InProgress"
    /\ run' = [run EXCEPT ![e].child[l] = outcome]
    /\ UNCHANGED <<clock, listed, inFlight, promotion, verified, last>>

\* A run succeeds as a whole with failed locations, within its error limit.
RunEnds(e, status) ==
    /\ run[e].status = "InProgress"
    /\ status = "Success" => \A l \in LocationsOf[e] : run[e].child[l] # "InProgress"
    /\ run' = [run EXCEPT ![e].status = status, ![e].ended = clock]
    /\ UNCHANGED <<clock, listed, inFlight, promotion, verified, last>>

Tick ==
    /\ clock < MaxClock
    /\ clock' = clock + 1
    /\ UNCHANGED <<run, listed, inFlight, promotion, verified, last>>

-----------------------------------------------------------------------------
(* What verify_and_proceed reads. *)

\* get_automation_status, when "all" of it, only the "parent" or "nothing" could be read.
RunOutcome(e, seen) ==
    LET children == IF seen = "all" THEN {run[e].child[l] : l \in LocationsOf[e]} ELSE {}
    IN  IF seen = "nothing" THEN "ERROR"
        ELSE IF run[e].status = "InProgress" \/ "InProgress" \in children THEN "RUNNING"
        ELSE IF run[e].status = "Cancelled" THEN "CANCELLED"
        ELSE IF run[e].status = "Failed" THEN "FAILED"
        ELSE IF children \cap {"Failed", "Cancelled"} # {} THEN "PARTIAL"
        ELSE IF seen = "parent" THEN "ERROR"
        ELSE "SUCCEEDED"

\* The answer for the run itself; "go on" once it has succeeded everywhere.
RunVerdict(outcome) ==
    CASE outcome = "ERROR" -> "INVESTIGATE"
      [] outcome = "RUNNING" -> "WAIT"
      [] outcome \in {"CANCELLED", "PARTIAL"} -> "HOLD"
      [] outcome = "FAILED" -> "ROLLBACK"
      [] OTHER -> "go on"

\* The answers the plan's other locations can lead to; their list may be missing, or not readable.
ListedSiblings(e) == IF PlanOf[e] \in listed THEN Siblings(e) ELSE {}

SiblingVerdicts(e, seen) ==
    LET out == {RunOutcome(f, seen[f]) : f \in ListedSiblings(e)} \ {"SUCCEEDED"}
    IN  IF out = {} THEN {"go on"}
        ELSE {IF o = "RUNNING" THEN "WAIT" ELSE "HOLD" : o \in out}

EndedAt(e) == Greatest({run[f].ended : f \in ListedSiblings(e) \union {e}})
StartedAt(e) == Least({run[f].began : f \in ListedSiblings(e) \union {e}})

\* Instances that couldn't be read fail: not what the code does.
InstanceHealthOfAll(checked, ping) ==
    LET online == {l \in checked : ping[l] = "Online"}
    IN  IF 2 * Cardinality(online) < Cardinality(checked) THEN "ROLLBACK_RECOMMENDED"
        ELSE IF checked # {} /\ online = checked THEN "HEALTHY"
        ELSE "INVESTIGATE"

\* check_instance_health, over the instances whose state could be read.  One that isn't found
\* where it is gets looked for in the hub, which doesn't know it: it counts as not responding.
InstanceHealth(checked, ping) ==
    LET scored == {l \in checked : ping[l] # "unread"}
        online == {l \in scored : ping[l] = "Online"}
    IN  IF scored # {} /\ 2 * Cardinality(online) < Cardinality(scored) THEN "ROLLBACK_RECOMMENDED"
        ELSE IF scored # checked THEN "UNKNOWN"
        ELSE IF checked # {} /\ online = scored THEN "HEALTHY"
        ELSE "INVESTIGATE"

\* The alarms that check_cloudwatch_alarms sees of an instance: those whose names contain the
\* request's pattern, none where they can't be read or it is looked for in the hub.
AlarmsSeen(w, named, l) == IF l \in w.unread \union w.astray THEN {} ELSE named

\* check_cloudwatch_alarms: an alarm is OK, ALARM, or without data since a time.
AlarmHealth(checked, w, named) ==
    LET firing == {l \in checked : \E a \in AlarmsSeen(w, named, l) : w.alarm[l][a] = "ALARM"}
    IN  IF firing # {} THEN "INVESTIGATE"
        ELSE IF checked \cap w.unread # {} THEN "UNKNOWN"
        ELSE "HEALTHY"

\* How long the slowest alarm that is seen takes to evaluate.
Longest(checked, w, named) ==
    Greatest({0} \union {Evaluation[a] : a \in UNION {AlarmsSeen(w, named, l) : l \in checked}})

NoData(w, named, l) == {a \in AlarmsSeen(w, named, l) : w.alarm[l][a] \in {"no data before", "no data since"}}

\* The alarms without data that an instance's answer keeps: the first few of them.
KeptNoData(noData) ==
    {kept \in SUBSET noData : Cardinality(kept) = IF Cardinality(noData) < Shown THEN Cardinality(noData) ELSE Shown}

SettleTime(longest) ==
    LET wanted == IF longest = 0 \/ longest + Margin < MinSettle THEN MinSettle ELSE longest + Margin
    IN  IF wanted < MaxSettle THEN wanted ELSE MaxSettle

\* The alarms alone: not what the code does.
HealthVerdictOfAlarms(ssm, alarms, silent, unlisted) ==
    IF ssm = "ROLLBACK_RECOMMENDED" THEN "ROLLBACK"
    ELSE IF alarms = "INVESTIGATE" \/ silent THEN "HOLD"
    ELSE IF ssm = "HEALTHY" /\ alarms = "HEALTHY" THEN "PROCEED"
    ELSE "HOLD"

\* The answer from the checks of instances and alarms.
HealthVerdict(ssm, alarms, silent, unlisted) ==
    IF ssm = "ROLLBACK_RECOMMENDED" THEN "ROLLBACK"
    ELSE IF alarms = "INVESTIGATE" \/ silent \/ unlisted # {} THEN "HOLD"
    ELSE IF ssm = "HEALTHY" /\ alarms = "HEALTHY" THEN "PROCEED"
    ELSE "HOLD"

\* The instances checked: the plan's, but those of locations that can't be listed, or
\* those the request names when the plan can't be read.
CheckedInstances(p) ==
    {[checked |-> PlanLocations(p) \ unlisted, unlisted |-> unlisted] :
        unlisted \in IF "locations" \in Faults THEN SUBSET PlanLocations(p) ELSE {{}}}
      \union
    {[checked |-> named, unlisted |-> {}] :
        named \in IF "plan" \in Faults THEN SUBSET PlanLocations(p) \ {{}} ELSE {}}

-----------------------------------------------------------------------------
Ping == {"Online", "ConnectionLost", "unread"} \union IF "places" \in Faults THEN {"unplaced"} ELSE {}
AlarmStates == {"OK", "ALARM", "no data before", "no data since"}
Seen == IF "read" \in Faults THEN {"all", "parent", "nothing"} ELSE {"all"}

\* What the two checks meet: the agents, the alarms, where those can't be read, and the
\* instances whose alarms are looked for in the hub, none of which is the hub's own.
Worlds(p) ==
    [ping: [PlanLocations(p) -> Ping],
     alarm: [PlanLocations(p) -> [Alarms -> AlarmStates]],
     unread: SUBSET PlanLocations(p),
     astray: IF "places" \in Faults THEN SUBSET PlanLocations(p) ELSE {{}}]

\* What is true of a plan's runs and instances, whatever was read.
AllSucceeded(p) ==
    \A e \in Begun(p) : run[e].status = "Success" /\ \A l \in LocationsOf[e] : run[e].child[l] = "Success"

\* Every run and instance is well, and so are the alarms asked about, as far as they are seen.
Well(p, w, named) ==
    /\ AllSucceeded(p)
    /\ \A l \in PlanLocations(p) :
         /\ w.ping[l] = "Online" /\ l \notin w.unread
         /\ \A a \in AlarmsSeen(w, named, l) : w.alarm[l][a] \in {"OK", "no data before"}
    /\ \A e \in Begun(p) : clock - run[e].ended >= SettleTime(Longest(PlanLocations(p), w, named))

\* The same, of all of the alarms asked about.
Clean(p, w, named) ==
    /\ Well(p, w, named)
    /\ \A l \in PlanLocations(p) : \A a \in named : w.alarm[l][a] \in {"OK", "no data before"}

Answer(recommendation, truth) == last' = [recommendation |-> recommendation, truth |-> truth]

\* An answer that comes from the runs alone.
VerifyRuns(e) ==
    /\ run[e].status # "none"
    /\ \E seen \in [Executions -> Seen] :
         LET own == RunVerdict(RunOutcome(e, seen[e])) IN
         \/ own # "go on"
            /\ Answer(own, [NothingTrue EXCEPT !.failed = own = "ROLLBACK" /\ run[e].status = "Failed"])
         \/ own = "go on" /\ "read" \in Faults /\ Answer("HOLD", NothingTrue)
         \/ own = "go on" /\ \E v \in SiblingVerdicts(e, seen) \ {"go on"} : Answer(v, NothingTrue)
    /\ UNCHANGED <<clock, run, listed, inFlight, promotion, verified>>

\* Every run it knows has succeeded: alarms settle, instances and alarms are checked.  The
\* request may name a pattern that the alarms' names are to contain.
VerifyHealth(e) ==
    /\ run[e].status # "none"
    /\ \A f \in ListedSiblings(e) \union {e} : RunOutcome(f, "all") = "SUCCEEDED"
    /\ \E w \in Worlds(PlanOf[e]), look \in CheckedInstances(PlanOf[e]), named \in SUBSET Alarms :
       \E kept \in [look.checked -> SUBSET named] :
         LET elapsed == clock - EndedAt(e)
             silent == \E l \in look.checked : \E a \in kept[l] : w.alarm[l][a] = "no data since"
             verdict == IF elapsed < MinSettle \/ elapsed < SettleTime(Longest(look.checked, w, named)) THEN "WAIT"
                        ELSE HealthVerdict(InstanceHealth(look.checked, w.ping),
                                           AlarmHealth(look.checked, w, named), silent, look.unlisted)
         IN  /\ \A l \in look.checked : kept[l] \in KeptNoData(NoData(w, named, l))
             /\ Answer(verdict, [well |-> Well(PlanOf[e], w, named), clean |-> Clean(PlanOf[e], w, named),
                                 failed |-> \E l \in look.checked : w.ping[l] = "ConnectionLost",
                                 unplaced |-> \E l \in look.checked : w.ping[l] = "unplaced"])
             /\ inFlight' = IF verdict = "PROCEED"
                            THEN inFlight \union {[execution |-> e, ended |-> EndedAt(e)]} ELSE inFlight
    /\ UNCHANGED <<clock, run, listed, promotion, verified>>

\* _record_verified_stage, for the environment of the plan (for another one nothing is recorded);
\* the write may fail.
RecordPromotion(rec) ==
    LET p == PlanOf[rec.execution] IN
    /\ rec \in inFlight
    /\ inFlight' = inFlight \ {rec}
    /\ \/ promotion' = [promotion EXCEPT ![<<Stage[p], Scope[p]>>] = rec] /\ verified' = verified \union {rec}
       \/ UNCHANGED <<promotion, verified>>
    /\ UNCHANGED <<clock, run, listed, last>>

\* A verification of any age: not what the code does.
MissingStageEver(stage, scope) == stage > 0 /\ promotion[<<stage - 1, scope>>] = None

\* stage_check: no recent verified run of the scope in the stage before; dev needs none.
MissingStage(stage, scope) ==
    stage > 0 /\ LET rec == promotion[<<stage - 1, scope>>]
                 IN  rec = None \/ clock - rec.ended > MaxAge

Next ==
    \/ \E p \in Plans : StartPlan(p)
    \/ \E e \in Executions :
         \/ \E l \in LocationsOf[e], outcome \in Ended : LocationEnds(e, l, outcome)
         \/ \E status \in Ended : RunEnds(e, status)
         \/ VerifyRuns(e)
         \/ VerifyHealth(e)
    \/ \E rec \in inFlight : RecordPromotion(rec)
    \/ Tick

Spec == Init /\ [][Next]_vars

-----------------------------------------------------------------------------
Recommendations == {"none", "INVESTIGATE", "WAIT", "HOLD", "ROLLBACK", "PROCEED"}
Records == [execution: Executions, ended: 0..MaxClock]
Truths == [well: BOOLEAN, clean: BOOLEAN, failed: BOOLEAN, unplaced: BOOLEAN]

TypeOK ==
    /\ clock \in 0..MaxClock
    /\ \A e \in Executions :
         /\ run[e].status \in {"none", "InProgress"} \union Ended
         /\ run[e].began \in 0..clock /\ run[e].ended \in 0..clock
         /\ run[e].child \in Children(e)
    /\ listed \subseteq Plans
    /\ inFlight \subseteq Records /\ verified \subseteq Records
    /\ \A k \in DOMAIN promotion : promotion[k] \in Records \union {None}
    /\ last \in [recommendation: Recommendations, truth: Truths]

(* "Only a clean result from both checks proceeds; anything else holds the      *)
(* rollout": when the answer is PROCEED, every location the plan started has     *)
(* succeeded, every instance of the plan is reachable, and none of the alarms    *)
(* asked about fires or has gone silent since the run began, those the check saw, *)
(* which have had time to tell.                                                  *)
ProceedIsClean == last.recommendation = "PROCEED" => last.truth.well

(* The comment in check_cloudwatch_alarms says more: "an instance that can't be  *)
(* placed, is unknown, not healthy, so a failed read can't let a rollout be      *)
(* promoted".  None of the alarms asked about fires on any instance, then; an    *)
(* instance that is looked for in the hub has no alarms there.                   *)
ProceedIsQuiet == last.recommendation = "PROCEED" => last.truth.clean

(* A rollback is recommended because a run failed or an instance is unreachable, *)
(* or isn't found where it is; never because its location can't be read.         *)
RollbackIsForFailure == last.recommendation = "ROLLBACK" => last.truth.failed \/ last.truth.unplaced

(* check_instance_health says that health that couldn't be read is "never a      *)
(* reason to roll back"; an instance that is looked for in the hub is.           *)
UnreadNeverRollsBack == last.recommendation = "ROLLBACK" => last.truth.failed

(* A stage passes the promotion check only when a plan of the same scope in the  *)
(* stage before succeeded in every location, the last of them recently           *)
(* (stage_check, record_promotion: "It ages from when the run ended, not from    *)
(* when it was verified").                                                       *)
PassedStageIsVerified ==
    \A k \in DOMAIN promotion : ~MissingStage(k[1] + 1, k[2]) =>
        \E p \in Plans :
            /\ Stage[p] = k[1] /\ Scope[p] = k[2] /\ Begun(p) # {}
            /\ AllSucceeded(p)
            /\ clock - Greatest({run[e].ended : e \in Begun(p)}) <= MaxAge

(* A stage that the promotion check says was not verified recently has no run    *)
(* of the scope that was verified and ended recently (stage_check: "the earlier  *)
(* stage with no recent verified run for this scope").                           *)
MissingIsTrue ==
    \A k \in DOMAIN promotion : MissingStage(k[1] + 1, k[2]) =>
        \A rec \in verified :
            <<Stage[PlanOf[rec.execution]], Scope[PlanOf[rec.execution]]>> = k => clock - rec.ended > MaxAge

=============================================================================
