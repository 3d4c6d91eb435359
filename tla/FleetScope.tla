------------------------------ MODULE FleetScope ------------------------------
(* Which instances a run may reach (helper/tools/_shared.py): the accounts the   *)
(* organization's OUs resolve to, the fleet view from SSM Explorer, the direct   *)
(* EC2 describe behind it, the scope and environment checks a plan passes when   *)
(* it is made and again when it starts, and the list of an environment's         *)
(* instances.  Owners retag instances, accounts leave the OU, Explorer lags, and *)
(* any lookup may fail.                                                          *)
EXTENDS Naturals, FiniteSets

CONSTANTS
    Instances,
    Home,          \* the [account, region] of each instance
    Hub,           \* the hub's own location, the default one
    SpokeRegions,
    Changing,      \* the instances whose owners change them, once
    Asked,         \* the sets of instances plans are asked for
    FleetTtl, ScopeTtl, LastGood,  \* _FLEET_SUMMARY_CACHE_TTL, SCOPE_CACHE_SECONDS, LAST_GOOD_SCOPE_SECONDS
    MaxClock

VARIABLES
    clock,
    members,   \* the OUs' accounts, with when each left them
    world,     \* what EC2 knows of each instance: [state, environment]
    ingested,  \* the instances Explorer lists
    scope,     \* the last scope resolved, when, and whether a lookup has failed since
    view,      \* the fleet view, kept when a refresh fails
    changed,   \* the instances changed since the view was read
    plan,      \* an approved instance plan, until it is started
    where,     \* the location each instance of the last start was started in
    missed     \* what the last list of an environment's instances left out unsaid

vars == <<clock, members, world, ingested, scope, view, changed, plan, where, missed>>

Locations == {Home[i] : i \in Instances} \union {Hub}
Accounts == {l.account : l \in Locations}
NoPlan == [instances |-> {}, environment |-> "none"]
Tagged(environment) == [state |-> "tagged", environment |-> environment]
In == MaxClock + 1   \* still in the OUs

Init ==
    /\ clock = 0
    /\ members = [a \in Accounts |-> In]
    /\ world = [i \in Instances |-> Tagged("dev")]
    /\ ingested \in {Instances, Instances \ Changing}
    /\ scope = [accounts |-> {}, at |-> 0, unresolved |-> FALSE]
    /\ view = [read |-> FALSE, at |-> 0, known |-> {}, managed |-> {}, environment |-> <<>>, unread |-> {}]
    /\ changed = {}
    /\ plan = NoPlan
    /\ where = <<>>
    /\ missed = {}

-----------------------------------------------------------------------------
(* The world. *)

OwnerChanges(i, now) ==
    /\ i \in Changing
    /\ world[i] = Tagged("dev")
    /\ world' = [world EXCEPT ![i] = now]
    /\ changed' = changed \union {i}
    /\ UNCHANGED <<clock, members, ingested, scope, view, plan, where, missed>>

LeaveOU(a) ==
    /\ a # Hub.account
    /\ members[a] = In
    /\ members' = [members EXCEPT ![a] = clock]
    /\ UNCHANGED <<clock, world, ingested, scope, view, changed, plan, where, missed>>

Ingest(i) ==
    /\ ingested' = ingested \union {i}
    /\ UNCHANGED <<clock, members, world, scope, view, changed, plan, where, missed>>

Tick ==
    /\ clock < MaxClock
    /\ clock' = clock + 1
    /\ UNCHANGED <<members, world, ingested, scope, view, changed, plan, where, missed>>

-----------------------------------------------------------------------------
(* The configured scope. *)

\* A failed OU lookup leaves the last scope resolved, for a while.
ScopesAfter ==
    IF scope.accounts # {} /\ clock - scope.at < ScopeTtl THEN {scope}
    ELSE {[accounts |-> {a \in Accounts : members[a] = In} \union {Hub.account}, at |-> clock, unresolved |-> FALSE],
          [scope EXCEPT !.unresolved = TRUE]}

\* Of any age: not what the code does.
AllowedEver(s) == IF s.accounts # {} THEN s.accounts ELSE {Hub.account}

Allowed(s) == IF s.accounts # {} /\ clock - s.at < LastGood THEN s.accounts ELSE {Hub.account}

InConfiguredScope(i, s) == Home[i].region \in SpokeRegions /\ Home[i].account \in Allowed(s)

-----------------------------------------------------------------------------
(* The fleet view and the direct describe. *)

ViewIsFresh == view.read /\ clock - view.at < FleetTtl

\* A refresh reads each location; what it can't read it keeps as unmanaged, and names the place.
Refreshed(failing, s) ==
    LET listed == {i \in ingested : Home[i].account \in Allowed(s)}
        tags == {i \in listed : Home[i] \notin failing /\ world[i].state # "terminated"}
        known == tags \union {i \in listed : Home[i] \in failing}
    IN  [read |-> TRUE, at |-> clock, known |-> known,
         managed |-> {i \in tags : world[i].state = "tagged"},
         environment |-> [i \in known |-> IF i \in tags THEN world[i].environment ELSE "unknown"],
         unread |-> {Home[i] : i \in listed} \intersect failing]

\* The view is kept while it is fresh, and when Explorer doesn't answer.
ViewsAfter(s) ==
    IF ViewIsFresh THEN {view} ELSE {view} \union {Refreshed(failing, s) : failing \in SUBSET Locations}

DescribeIn(ids, places, failing) ==
    {i \in ids : world[i].state = "tagged" /\ Home[i] \in places \ failing}

Queried(s) == {l \in Locations : l.region \in SpokeRegions /\ l.account \in Allowed(s) \union {Hub.account}}

\* _direct_describe_scoped_instances over the configured accounts and Regions.
Describe(ids, s, failing) == DescribeIn(ids, Queried(s), failing)

\* Only what EC2 can't list: not what the code does.
UnreadUnnamed(v, s, failing) == failing \intersect Queried(s)

Unread(v, s, failing) == v.unread \union (failing \intersect Queried(s))

-----------------------------------------------------------------------------
(* The checks of an instance plan. *)

\* _validate_instance_scope: the view unless fresh, EC2, EC2 again for instances the view knows;
\* and whatever it found must be in a configured account and Region.
Found(ids, fresh, v, s, failing, failingAgain) ==
    LET cached == IF fresh THEN {} ELSE ids \intersect v.managed
        first  == Describe(ids \ cached, s, failing)
        again  == UNION {DescribeIn({i}, {Home[i]}, failingAgain) :
                            i \in (ids \intersect v.known) \ (cached \union first)}
    IN  [inScope |-> {i \in cached \union first \union again : InConfiguredScope(i, s)},
         described |-> first \union again]

\* The Environment tag of each instance, "none" when it has none or can't be read now.
EnvironmentsSeen(ids, s, described, failing) ==
    LET seen == described \union Describe(ids \ described, s, failing)
    IN  [i \in ids |-> IF i \in seen THEN world[i].environment ELSE "none"]

\* Every tag is the requested environment; untagged instances count as prod.
EnvironmentMatches(requested, seen) ==
    \A i \in DOMAIN seen : seen[i] = requested \/ (seen[i] = "none" /\ requested = "prod")

\* Without what EC2 described: not what the code does.
GroupUncached(ids, v, s, described, failing) ==
    LET located == v.known \union Describe(ids, s, failing)
    IN  [i \in ids |-> IF i \in located THEN Home[i] ELSE Hub]

\* _group_instances_by_location: the view, what this request has described, EC2, and else the hub.
Group(ids, v, s, described, failing) ==
    LET located == v.known \union described \union Describe(ids \ described, s, failing)
    IN  [i \in ids |-> IF i \in located THEN Home[i] ELSE Hub]

Cached(s, v) ==
    /\ scope' = s
    /\ view' = v
    /\ changed' = IF v = view THEN changed ELSE {}

\* Both checks of a plan; some locations don't answer the second time.
Passes(ids, environment, found, s, failing) ==
    /\ found.inScope = ids
    /\ EnvironmentMatches(environment, EnvironmentsSeen(ids, s, found.described, failing))

MakePlan(ids, environment) ==
    /\ plan = NoPlan
    /\ \E s \in ScopesAfter : \E v \in ViewsAfter(s) :
         /\ \E first, second \in SUBSET Locations :
              Passes(ids, environment, Found(ids, FALSE, v, s, first, second), s, second)
         /\ plan' = [instances |-> ids, environment |-> environment]
         /\ Cached(s, v)
    /\ UNCHANGED <<clock, members, world, ingested, where, missed>>

Start ==
    /\ plan # NoPlan
    /\ \E s \in ScopesAfter : \E v \in ViewsAfter(s) : \E first, second \in SUBSET Locations :
         LET found == Found(plan.instances, TRUE, v, s, first, second)
         IN  /\ Passes(plan.instances, plan.environment, found, s, second)
             /\ where' = Group(plan.instances, v, s, found.described, second)
             /\ Cached(s, v)
    /\ plan' = NoPlan
    /\ UNCHANGED <<clock, members, world, ingested, missed>>

\* environment_instances: the view's, and those EC2 lists that Explorer doesn't know yet.
EnvironmentInstances(environment, v, s, failing) ==
    {i \in v.managed : v.environment[i] = environment} \union
    {i \in Describe(Instances, s, failing) \ v.known : world[i].environment = environment}

ListEnvironment(environment) ==
    /\ \E s \in ScopesAfter : \E v \in ViewsAfter(s) : \E failing \in SUBSET Locations :
         /\ missed' = IF s.unresolved THEN {} ELSE
              {i \in Instances :
                  /\ world[i] = Tagged(environment) /\ InConfiguredScope(i, s)
                  /\ v = view => i \notin changed
                  /\ i \notin EnvironmentInstances(environment, v, s, failing)
                  /\ Home[i] \notin Unread(v, s, failing)}
         /\ Cached(s, v)
    /\ UNCHANGED <<clock, members, world, ingested, plan, where>>

Next ==
    \/ \E i \in Instances :
         \/ \E environment \in {"prod", "none"} : OwnerChanges(i, Tagged(environment))
         \/ \E state \in {"untagged", "terminated"} : OwnerChanges(i, [world[i] EXCEPT !.state = state])
         \/ Ingest(i)
    \/ \E a \in Accounts : LeaveOU(a)
    \/ \E ids \in Asked, environment \in {"dev", "prod"} : MakePlan(ids, environment)
    \/ Start
    \/ \E environment \in {"dev", "prod"} : ListEnvironment(environment)
    \/ Tick

Spec == Init /\ [][Next]_vars

-----------------------------------------------------------------------------
TypeOK ==
    /\ clock \in 0..MaxClock
    /\ \A a \in Accounts : members[a] \in 0..clock \union {In}
    /\ world \in [Instances -> [state: {"tagged", "untagged", "terminated"}, environment: {"dev", "prod", "none"}]]
    /\ scope.accounts \subseteq Accounts /\ scope.at \in 0..clock
    /\ view.managed \subseteq view.known /\ view.known = DOMAIN view.environment
    /\ view.unread \subseteq Locations
    /\ plan.instances \subseteq Instances
    /\ missed \subseteq Instances

(* A run starts only on instances that carry the scope tag and the approved      *)
(* environment when it starts, whatever the view says, in accounts that were in  *)
(* the OUs within the last hour (_validate_instance_scope: "so an instance whose *)
(* owner has just removed the tag isn't patched").  Untagged ones are prod.      *)
StartsInScope ==
    plan # NoPlan /\ plan' = NoPlan =>
        \A i \in plan.instances :
            /\ world[i].state = "tagged"
            /\ world[i].environment \in {plan.environment} \union (IF plan.environment = "prod" THEN {"none"} ELSE {})
            /\ Home[i].region \in SpokeRegions
            /\ clock < members[Home[i].account] + LastGood

(* Every instance is started in its own account and Region: the hub, the default *)
(* for an instance nobody finds, is never where a checked instance is sent       *)
(* (_group_instances_by_location).                                               *)
StartedAtHome == \A i \in DOMAIN where : where[i] = Home[i]

(* A list of an environment's instances leaves none out without saying so: one   *)
(* that has not changed since the view was read is listed, or its location is    *)
(* named as not read, or the scope is said to be unresolved                      *)
(* (environment_instances: "so a caller can tell a short list from a complete    *)
(* one").                                                                        *)
ListIsComplete == missed = {}

=============================================================================
