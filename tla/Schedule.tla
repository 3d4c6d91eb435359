------------------------------- MODULE Schedule -------------------------------
(* Whether a patch plan waits (helper/coverage.py and patch_tools.py): the SLA   *)
(* deadline of its targets, the maintenance windows and Quick Setup patch        *)
(* policies that would patch each of them before it, and the answer: SCHEDULED,  *)
(* or run now and why.  Each request meets one world; any lookup may fail.       *)
EXTENDS Integers, FiniteSets, FiniteSetsExt

CONSTANTS
    Targets,       \* the plan's instances
    Home,          \* the [account, region] of each
    Schedules,     \* what AWS may have: [windows, policies, organization, fails]
    Cves,          \* the CVEs a plan may name
    TagHours,      \* the SLA hours of each target's tags
    TagReads,      \* what becomes of each target's tags: "read" or "unreadable"
    Sightings,     \* when Inspector first saw each target exposed, or NotSeen
    Fixes,         \* the CVEs whose fix each target's last scan lists as missing
    DefaultSla, LocationsAllowed

VARIABLES asked, answer

vars == <<asked, answer>>

Now == 0
NotSeen == 99
Never == 99        \* the end of a schedule with no upcoming run

Locations == {Home[i] : i \in Targets}
NoAnswer == [status |-> "none", reason |-> "none"]

\* A plan and the world it meets.  "scheduled" is one with an SLA, of a CVE or of a given severity.
Requests ==
    [plan: {"scheduled", "severity", "forced", "baseline"}, schedules: Schedules, cves: SUBSET Cves, fixes: Fixes,
     hours: TagHours, tags: TagReads, seen: Sightings, inspector: {"read", "no severity", "no sightings"},
     kernel: BOOLEAN, reboots: BOOLEAN]

Init ==
    /\ asked \in {r \in Requests :
          /\ r.plan # "scheduled" => r.cves = {}
          /\ r.cves = {} => r.inspector = "read" /\ r.kernel /\ r.seen = [i \in Targets |-> NotSeen]
          /\ r.inspector # "read" \/ ~r.reboots => r.kernel}
    /\ answer = NoAnswer

-----------------------------------------------------------------------------
(* The deadline. *)

\* The strictest SLA tag of the instances whose tags were found.
SlaHours(r) ==
    LET found == {i \in Targets : r.tags[i] = "read"}
    IN  IF found = {} THEN DefaultSla ELSE Min({r.hours[i] : i \in found})

TagsUnreadable(r) == \E i \in Targets : r.tags[i] = "unreadable"

\* From the first time any of the targets was seen exposed, or from now.
ObservedAt(r) ==
    LET sightings == {r.seen[i] : i \in Targets} \ {NotSeen}
    IN  IF sightings = {} THEN Now ELSE Min(sightings)

\* From now: not what the code does.
DeadlineFromNow(r) == Now + SlaHours(r)

Deadline(r) == ObservedAt(r) + SlaHours(r)

-----------------------------------------------------------------------------
(* Maintenance windows. *)

\* A filter is the set of instances it matches; a resource group can't be resolved: it matches none.
\* Every filter of one target.
Matches(target, i) == target # {} /\ \A f \in target : i \in f

InstancesCovered(w) == {i \in Targets : \E target \in w.targets : Matches(target, i)}

\* A window that can be read and names the environment, or any of the instances.
Listed(w) == w.readable /\ (w.namesEnvironment \/ InstancesCovered(w) # {})

WindowRuns(w, i) ==
    IF Listed(w) /\ i \in InstancesCovered(w) /\ w.enabled /\ w.installs # "nothing" /\ w.end # Never
    THEN {[end |-> w.end, reboot |-> w.installs]} ELSE {}

-----------------------------------------------------------------------------
(* Quick Setup patch policies visible from the hub. *)

\* Its Region, its account or an OU above it, and its tag or all instances.
PolicyTargets(p, i, organization, r) ==
    /\ Home[i].region \in p.regions
    /\ \/ Home[i].account \in p.accounts
       \/ organization = "read" /\ Home[i].account \in p.ouAccounts
    /\ p.tagged = Targets \/ (i \in p.tagged /\ r.tags[i] = "read")

PolicyRuns(p, i, r) ==
    IF p.readable /\ p.installs /\ p.deployed /\ PolicyTargets(p, i, r.schedules.organization, r)
    THEN {[end |-> p.end, reboot |-> p.reboot]} ELSE {}

-----------------------------------------------------------------------------
(* The check of each target (coverage.check). *)

\* A fix whose packages aren't known is taken to need a reboot.
RebootProblem(option, r) == option = "NoReboot" /\ r.reboots /\ r.kernel

Runs(i, r) ==
    (UNION {WindowRuns(w, i) : w \in r.schedules.windows}) \union
    (UNION {PolicyRuns(p, i, r) : p \in r.schedules.policies})

\* The instance's last scan lists a missing patch for one of the CVEs.
Approved(i, r) == r.cves = {} \/ (r.cves \intersect r.fixes[i]) # {}

GoodRuns(i, r) == {run \in Runs(i, r) : run.end <= Deadline(r) /\ ~RebootProblem(run.reboot, r)}

Covered(r) == {i \in Targets : GoodRuns(i, r) # {} /\ Approved(i, r)}

-----------------------------------------------------------------------------
(* The answer to a plan that is not confirmed yet. *)

RunNow(reason) == [status |-> "confirmation_required", reason |-> reason]
Refused(code) == [status |-> code, reason |-> "none"]

\* The result of the schedule check, before the limit on locations.
ScheduledWindow(r) ==
    IF r.plan = "forced" THEN RunNow("operator_asked")
    ELSE IF r.plan = "severity" THEN RunNow("severity_runs_now")
    ELSE IF r.plan = "baseline" THEN RunNow("no_sla")
    ELSE IF TagsUnreadable(r) \/ r.inspector = "no sightings" \/ r.schedules.fails THEN RunNow("schedules_unchecked")
    ELSE IF Covered(r) = Targets THEN [status |-> "SCHEDULED", reason |-> "none"]
    ELSE RunNow(IF Covered(r) = {} THEN "no_schedule_meets_sla" ELSE "some_targets_uncovered")

\* Instances in more locations than the environment's policy allows at once can't run as named instances.
LocationLimit(result) ==
    IF result.status = "confirmation_required" /\ Cardinality(Locations) > LocationsAllowed
    THEN Refused("LocationLimit") ELSE result

Answer ==
    /\ answer = NoAnswer
    /\ answer' = IF asked.inspector = "no severity" THEN Refused("InspectorUnreadable")
                 ELSE LocationLimit(ScheduledWindow(asked))
    /\ UNCHANGED asked

Next == Answer

Spec == Init /\ [][Next]_vars

-----------------------------------------------------------------------------
\* What AWS will do, whatever could be read of it.
PatchedBy(i, due, r) ==
    /\ \/ \E w \in r.schedules.windows :
            /\ w.home = Home[i] /\ w.enabled /\ w.installs # "nothing" /\ w.end <= due
            /\ \E target \in w.targets : target # {} /\ \A f \in target : i \in f
            /\ w.installs = "RebootIfNeeded" \/ ~(r.kernel /\ r.reboots)
       \/ \E p \in r.schedules.policies :
            /\ p.installs /\ p.deployed /\ p.end <= due /\ i \in p.tagged
            /\ Home[i].region \in p.regions /\ Home[i].account \in p.accounts \union p.ouAccounts
            /\ p.reboot = "RebootIfNeeded" \/ ~(r.kernel /\ r.reboots)
    /\ r.cves \subseteq r.fixes[i]

Due(i, r) == (IF r.seen[i] = NotSeen THEN Now ELSE r.seen[i]) + r.hours[i]

AllRead(r) ==
    /\ \A s \in r.schedules.windows \union r.schedules.policies : s.readable
    /\ r.schedules.organization = "read"

TypeOK == asked \in Requests /\ answer.reason \in {"none", "operator_asked", "severity_runs_now", "no_sla",
                                 "schedules_unchecked", "no_schedule_meets_sla", "some_targets_uncovered"}

(* A plan waits only when each of its targets will be patched, by a schedule of  *)
(* its own account and Region that installs its fixes, before the deadline of    *)
(* its own tags and sightings (coverage.py: "a plan waits only when every target *)
(* is proven covered").                                                          *)
WaitMeetsSla ==
    answer.status = "SCHEDULED" => \A i \in Targets : PatchedBy(i, Due(i, asked), asked)

(* A plan that could have waited doesn't run now: when everything could be read, *)
(* some target has no schedule that would patch it before the plan's deadline    *)
(* (RUN_NOW_REASONS, what the operator and the report are told).                 *)
RunsNowForCause ==
    answer.reason \in {"no_schedule_meets_sla", "some_targets_uncovered"} /\ AllRead(asked) =>
        \E i \in Targets : ~PatchedBy(i, Deadline(asked), asked)

=============================================================================
