-------------------------------- MODULE Answers --------------------------------
(* Answers with figures (the fleet, vulnerability and compliance tools): what    *)
(* each counts when the fleet view lags, the OUs' accounts can't be looked up and *)
(* some locations, instances or reports can't be read, and what it says it didn't *)
(* count.  One question meets one world.                                         *)
EXTENDS Naturals, FiniteSets

CONSTANTS
    Things,      \* the scoped instances asked about; for a history, the reports
    Home, Hub,   \* their locations, one Region each, and the hub's
    ReadMax      \* the reports a history reads at most

VARIABLES asked, answer

vars == <<asked, answer>>

Locations == {Home[i] : i \in Things} \union {Hub}
At(places) == {i \in Things : Home[i] \in places}

Worlds ==
    [kind: {"fleet", "scope", "environment", "instances", "findings", "impact", "history"},
     known: SUBSET Things,            \* in the fleet view; for a history, the reports of the days asked for
     left: SUBSET (Locations \ {Hub}), \* out of the scope that a failed OU lookup falls back on
     viewFailing: SUBSET Locations,   \* not read by the last refresh of the fleet view
     failing: SUBSET Locations,       \* whose EC2 or Inspector doesn't answer now
     ssmFailing: SUBSET Locations,    \* whose patch states don't
     scanned: SUBSET Things]          \* with a patch state; for a history, reports that can be read

\* An answer: what is counted, what it says wasn't and why, the places it says weren't read,
\* and whether it says that more, reports or accounts, may be missing.
Told(counted, unscanned, unreadable, unread, partial) ==
    [kind |-> "told", counted |-> counted, unscanned |-> unscanned, unreadable |-> unreadable,
     unread |-> unread, partial |-> partial]

Nothing(kind) == [Told({}, {}, {}, {}, FALSE) EXCEPT !.kind = kind]

\* A question looks at part of the world only.
Init ==
    /\ asked \in {w \in Worlds :
          /\ w.kind \in {"findings", "history"} => w.viewFailing = {}
          /\ w.kind = "history" => w.left = {}
          /\ w.kind = "findings" => w.known = {}
          /\ w.kind \notin {"environment", "instances"} => w.ssmFailing = {}
          /\ w.kind \notin {"environment", "instances", "history"} => w.scanned = {}}
    /\ answer = Nothing("none")

-----------------------------------------------------------------------------
(* The fleet. *)

\* Where a refresh failed, the view's instances aren't managed.
Managed(w) == w.known \ At(w.viewFailing)
ViewUnread(w) == {Home[i] : i \in w.known} \intersect w.viewFailing
Queried(w) == Locations \ w.left
Unreadable(w) == w.failing \intersect Queried(w)
Described(w) == At(Queried(w) \ w.failing)

\* Without EC2's failures: not what the code does.
FleetOverviewOfView(w) == Told(Managed(w) \union Described(w), {}, {}, ViewUnread(w), FALSE)

\* get_fleet_overview: the view, and what EC2 lists besides.
FleetOverview(w) == Told(Managed(w) \union Described(w), {}, {}, ViewUnread(w) \union Unreadable(w), FALSE)

\* resolve_execution_scope counts environment_instances, and not what that couldn't list; it
\* looks the OUs' accounts up again.
ExecutionScope(w) ==
    {Told(Managed(w) \union (Described(w) \ w.known), {}, {}, {}, FALSE)} \union
    (IF w.left = {} THEN {} ELSE {Nothing("error")})

-----------------------------------------------------------------------------
(* Patch compliance. *)

\* Patch states, asked of each instance's place: with one, never scanned, or not read.
PatchStates(ids, place, unread, w) ==
    LET read == {i \in ids : place[i] \notin w.ssmFailing}
        states == {i \in read \intersect w.scanned : place[i] = Home[i]}
    IN  Told(states, read \ states, ids \ read, unread, FALSE)

\* get_patch_compliance by environment: the running instances EC2 lists.
EnvironmentCompliance(w) == PatchStates(Described(w), Home, Unreadable(w), w)

\* By instance ID: where the view or EC2 says it is, and else at the hub.
Located(w) == w.known \union Described(w)

InstanceCompliance(w) ==
    PatchStates(Things, [i \in Things |-> IF i \in Located(w) THEN Home[i] ELSE Hub], {}, w)

-----------------------------------------------------------------------------
(* Findings of a CVE every instance is exposed to. *)

\* list_findings in each Region, of the accounts in scope; a Region that fails is named, and so
\* is a scope that wasn't resolved.
FindVulnerabilities(w) == Told(Described(w), {}, {}, w.failing, w.left # {})

\* assess_fleet_impact: those findings' instances by environment, from the view or from EC2; it
\* repeats which Regions failed only when it has found any.
AssessFleetImpact(w) ==
    LET found == FindVulnerabilities(w)
    IN  IF found.counted = {} THEN Nothing("told")
        ELSE Told(found.counted \intersect (Managed(w) \union Described(w)), {}, {}, found.unread, FALSE)

-----------------------------------------------------------------------------
(* The history of reports. *)

\* The newest ReadMax are read, and the answer says when there are more; one that can't be read is skipped.
FetchReports(w) ==
    LET total == Cardinality(w.known)
        lists == {s \in SUBSET w.known : Cardinality(s) = IF total > ReadMax THEN ReadMax ELSE total}
    IN  {Told(newest \intersect w.scanned, {}, {}, {}, total > ReadMax) : newest \in lists}

QueryReports(w) == IF Hub \in w.failing THEN {Nothing("error")} ELSE FetchReports(w)

Answer ==
    /\ answer.kind = "none"
    /\ answer' \in CASE asked.kind = "fleet"       -> {FleetOverview(asked)}
                     [] asked.kind = "scope"       -> ExecutionScope(asked)
                     [] asked.kind = "environment" -> {EnvironmentCompliance(asked)}
                     [] asked.kind = "instances"   -> {InstanceCompliance(asked)}
                     [] asked.kind = "findings"    -> {FindVulnerabilities(asked)}
                     [] asked.kind = "impact"      -> {AssessFleetImpact(asked)}
                     [] asked.kind = "history"     -> QueryReports(asked)
    /\ UNCHANGED asked

Next == Answer

Spec == Init /\ [][Next]_vars

-----------------------------------------------------------------------------
TypeOK == asked \in Worlds /\ answer.counted \subseteq Things /\ answer.unread \subseteq Locations

\* Everything asked about is counted, or truly said not to be.
TellsAll(w, told) ==
    \A i \in IF w.kind = "history" THEN w.known ELSE Things :
        \/ i \in told.counted \union told.unreadable
        \/ i \in told.unscanned /\ i \notin w.scanned
        \/ Home[i] \in told.unread
        \/ told.partial

\* Where the code says nothing of what it left out (see the findings).
Silent(w) ==
    CASE w.kind = "fleet"       -> ~(At(w.left) \subseteq w.known)
      [] w.kind = "scope"       -> ViewUnread(w) \union w.failing \union w.left # {}
      [] w.kind = "environment" -> At(w.left) # {}
      [] w.kind = "instances"   -> Located(w) # Things
      [] w.kind = "impact"      -> w.failing \union w.left # {}
      [] w.kind = "history"     -> ~(w.known \subseteq w.scanned)
      [] OTHER                  -> FALSE

(* Figures are complete, or name what isn't in them: an instance is counted, is  *)
(* reported as never scanned only when it wasn't, or it or its location is named *)
(* as unreadable (get_fleet_overview: "Say first that instances in ... couldn't  *)
(* be read"; get_patch_compliance: "aren't known to be unscanned").              *)
FiguresTellAll == answer.kind = "told" /\ ~Silent(asked) => TellsAll(asked, answer)

(* An overview of the fleet or of an environment's compliance says that its scope *)
(* couldn't be resolved when accounts are left out for it (_resolve_configured_   *)
(* scope: "Either way reads say the scope couldn't be resolved").                *)
UnresolvedIsTold ==
    answer.kind = "told" /\ asked.left # {} /\ asked.kind \in {"fleet", "environment"} => TellsAll(asked, answer)

(* The same of every question, whatever fails: what the code doesn't keep to.    *)
EveryFigureTellsAll == answer.kind = "told" => TellsAll(asked, answer)

=============================================================================
