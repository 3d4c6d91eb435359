---------------------------- MODULE DashboardFleet ----------------------------
(* The dashboard's counts (ui/api/server.py): the instances of each environment, *)
(* in all and per account, from SSM Explorer or else from each account and       *)
(* Region, and the instances a CVE is found on.  One rebuild meets one world.    *)
EXTENDS Naturals, FiniteSets, FiniteSetsExt

CONSTANTS
    Instances,      \* what Explorer may list
    Home,           \* the [account, region] of each
    Scoped,         \* those running with the scope tag
    Untagged,       \* those running without it
    Environment,    \* the environment tag of each, or NoEnvironment
    Hub, Members,   \* the hub's account, and the accounts of the configured OUs
    Regions,        \* the configured Regions
    NoEnvironment

VARIABLES
    asked, shown,
    fanout      \* of a fan-out: the locations not merged yet, and the counts of the others

vars == <<asked, shown, fanout>>

Accounts == Members \union {Hub}
Locations == [account: Accounts, region: Regions]
Environments == {Environment[i] : i \in Instances} \union {NoEnvironment}

Worlds ==
    [kind: {"environments", "findings"},
     explorer: {"read", "fails", "no sync"},
     listed: SUBSET Instances,          \* by Explorer
     organization: BOOLEAN,             \* the OUs' members can be read
     failing: SUBSET Locations,         \* whose EC2 doesn't answer, or whose role can't be assumed
     unread: SUBSET Regions,            \* where Inspector doesn't answer
     scanned: SUBSET Instances]         \* whose patch state is there and can be read

NoFanout == [begun |-> FALSE, left |-> {}, counts |-> <<>>]

NothingShown == [counts |-> <<>>, findings |-> 0, unreadable |-> {}, regions |-> {}, warning |-> "not built"]

Init ==
    /\ asked \in {w \in Worlds :
          /\ w.kind = "findings" => w.explorer = "read" /\ w.listed = {} /\ w.failing = {} /\ w.scanned = {}
          /\ w.kind = "environments" => w.unread = {}
          /\ w.scanned \subseteq Scoped
          /\ w.explorer # "read" => w.listed = {}}
    /\ shown = NothingShown
    /\ fanout = NoFanout

-----------------------------------------------------------------------------
(* The configured accounts. *)

\* OU members and the hub; the hub alone when the OUs can't be read, so that a failure never widens.
Allowed(w) == IF w.organization THEN Accounts ELSE {Hub}

\* The accounts the fan-out queries besides the hub.
Spokes(w) == Allowed(w) \ {Hub}

\* Every place the code reads: each once, the hub first.
Queried(w) == {l \in Locations : l.account \in {Hub} \union Spokes(w)}

-----------------------------------------------------------------------------
(* Counting. *)

Totals(ids, w) == [total |-> Cardinality(ids), scanned |-> Cardinality(ids \intersect w.scanned)]

AddTotals(a, b) == [total |-> a.total + b.total, scanned |-> a.scanned + b.scanned]

\* What is listed of an environment: tagged instances, untagged ones only, or none.
Listed(ids, untagged, e) ==
    IF \E i \in ids : Environment[i] = e THEN "tagged"
    ELSE IF \E i \in untagged : Environment[i] = e THEN "untagged" ELSE "none"

\* What one location, or Explorer, has of each environment: in all, and of each account.
Summary(ids, untagged, w) ==
    [e \in Environments |->
        [all |-> Totals({i \in ids : Environment[i] = e}, w),
         perAccount |-> [a \in Accounts |-> Totals({i \in ids : Environment[i] = e /\ Home[i].account = a}, w)],
         listed |-> Listed(ids, untagged, e)]]

\* An account's counts as those of the last Region merged.
AddPerAccountOverwritten(a, b) == IF b.total > 0 THEN b ELSE a

\* An account's counts are summed over its Regions.
AddPerAccount(a, b) == AddTotals(a, b)

\* The first location that lists an environment gives its block; a block of untagged instances only
\* has no patch compliance, and none is added to it.
AddAll(m, n) ==
    [total |-> m.all.total + n.all.total,
     scanned |-> m.all.scanned + (IF m.listed = "untagged" THEN 0 ELSE n.all.scanned)]

Merge(m, n) ==
    [e \in Environments |->
        [all |-> AddAll(m[e], n[e]),
         perAccount |-> [a \in Accounts |-> AddPerAccount(m[e].perAccount[a], n[e].perAccount[a])],
         listed |-> IF m[e].listed = "none" THEN n[e].listed ELSE m[e].listed]]

-----------------------------------------------------------------------------
(* Explorer, and the fan-out. *)

\* Running, tagged instances Explorer doesn't list; a location that can't be read adds nothing.
Ec2Only(known, w) == {i \in Scoped \ known : Home[i] \in Queried(w) \ w.failing}

\* Explorer's instances of other accounts are left out.
InScope(w) == {i \in w.listed : Home[i].account \in Allowed(w)}

Raw(w) == IF InScope(w) = {} THEN {} ELSE InScope(w) \union Ec2Only(InScope(w), w)

\* Tags and patch states, read location by location; where they can't be, it is said.
Enriched(w) == {i \in Raw(w) \intersect Scoped : Home[i] \notin w.failing}
Unreadable(w) == {Home[i] : i \in Raw(w)} \intersect w.failing

ExplorerWarning(w) == CASE w.explorer = "fails"   -> "error"
                        [] w.explorer = "no sync" -> "missing"
                        [] OTHER                  -> "empty"

\* Running instances with an environment, of one location.
FetchedForSession(l, w) ==
    LET here(S) == {i \in S : Home[i] = l /\ Environment[i] # NoEnvironment}
    IN  Summary(here(Scoped), here(Untagged), w)

Shown(counts, unreadable, warning) ==
    [NothingShown EXCEPT !.counts = counts, !.unreadable = unreadable, !.warning = warning]

\* _fetch_environments: Explorer's, if it has any, ...
ExplorerHasAny(w) == w.explorer = "read" /\ Enriched(w) # {}

FetchFromExplorer ==
    /\ asked.kind = "environments" /\ shown = NothingShown
    /\ ExplorerHasAny(asked)
    /\ shown' = Shown(Summary(Enriched(asked), {}, asked), Unreadable(asked), "none")
    /\ UNCHANGED <<asked, fanout>>

\* ... else the fan-out's, of the locations that can be read, ...
StartFanout ==
    /\ asked.kind = "environments" /\ shown = NothingShown /\ ~fanout.begun
    /\ ~ExplorerHasAny(asked)
    /\ fanout' = [begun |-> TRUE, left |-> Queried(asked) \ asked.failing, counts |-> Summary({}, {}, asked)]
    /\ UNCHANGED <<asked, shown>>

\* ... the hub's Regions first, then the spokes', account by account as they answer ...
ComesNext(l) ==
    \/ l.account = Hub
    \/ /\ \A k \in fanout.left : k.account # Hub
       /\ \A k \in fanout.left : k.account # l.account
             => \A q \in Queried(asked) \ asked.failing : q.account = k.account => q \in fanout.left

MergeLocation(l) ==
    /\ l \in fanout.left
    /\ ComesNext(l)
    /\ fanout' = [fanout EXCEPT !.left = @ \ {l}, !.counts = Merge(@, FetchedForSession(l, asked))]
    /\ UNCHANGED <<asked, shown>>

\* ... and what Explorer's instances couldn't be read of is kept when there is a sync.
ShowFanout ==
    /\ fanout.begun /\ fanout.left = {} /\ shown = NothingShown
    /\ shown' = Shown(fanout.counts, IF asked.explorer = "read" THEN Unreadable(asked) ELSE {}, ExplorerWarning(asked))
    /\ UNCHANGED <<asked, fanout>>

-----------------------------------------------------------------------------
(* Findings: one query of each Region gives the organization's. *)

FindingsOfRegion(r, w) == {i \in Scoped : Home[i].region = r /\ Home[i].account \in Allowed(w)}

FetchVulnerabilities ==
    /\ asked.kind = "findings" /\ shown = NothingShown
    /\ shown' = [Shown(<<>>, {}, "none") EXCEPT
                    !.findings = FoldSet(LAMBDA r, n : n + Cardinality(FindingsOfRegion(r, asked)), 0, Regions \ asked.unread),
                    !.regions = asked.unread]
    /\ UNCHANGED <<asked, fanout>>

Next ==
    \/ FetchFromExplorer
    \/ StartFanout
    \/ \E l \in fanout.left : MergeLocation(l)
    \/ ShowFanout
    \/ FetchVulnerabilities

Spec == Init /\ [][Next]_vars

-----------------------------------------------------------------------------
TypeOK ==
    /\ asked \in Worlds /\ fanout.left \subseteq Locations
    /\ shown.unreadable \subseteq Locations /\ shown.regions \subseteq Regions

Built(kind) == shown # NothingShown /\ asked.kind = kind

Configured(e) == {i \in Scoped : Home[i] \in Locations /\ Environment[i] = e}

\* Where the code leaves something out without a word (see the findings).
SilentlyLeftOut(i, w) ==
    \/ Home[i].account \notin Allowed(w)
    \/ Home[i] \in w.failing /\ i \notin w.listed
    \/ Home[i] \in w.failing /\ shown.warning # "none"
    \/ Environment[i] = NoEnvironment /\ shown.warning # "none"

\* A location the fan-out reads lists no instance of the environment but untagged ones.
UntaggedOnly(e) ==
    /\ shown.warning # "none"
    /\ \E l \in Queried(asked) \ asked.failing :
          FetchedForSession(l, asked)[e].listed = "untagged"

(* Every instance of the configured accounts and Regions is in its environment's *)
(* totals exactly once, and in those of its account, or its location is shown as *)
(* not counted: whether Explorer lists it, lags or has no sync, however many     *)
(* Regions its account has and in whichever order they answer (_enrich_instances: *)
(* "say so instead of leaving them out of every total";                          *)
(* _merge_environment_results: "summed across regions").  So is its patch state, *)
(* but that an environment some location has only untagged instances of may be   *)
(* left without any (server.py:2041, see the findings).                          *)
CountsAreTrue ==
    Built("environments") =>
        \A e \in Environments :
            LET told == {i \in Configured(e) : Home[i] \in shown.unreadable \/ SilentlyLeftOut(i, asked)}
                expected == Totals(Configured(e) \ told, asked)
                all == shown.counts[e].all
            IN  /\ all.total = expected.total
                /\ all.scanned # expected.scanned => all.scanned = 0 /\ UntaggedOnly(e)
                /\ \A a \in Accounts :
                       shown.counts[e].perAccount[a]
                         = Totals({i \in Configured(e) \ told : Home[i].account = a}, asked)

(* The same of the instances a CVE is found on, but for the Regions named as not *)
(* read: findings of other accounts, which Inspector gives the administrator of  *)
(* an organization, don't count (_fetch_vulnerabilities).                        *)
FindingsAreTrue ==
    Built("findings") =>
        shown.findings = Cardinality({i \in Scoped : /\ Home[i].account \in Allowed(asked)
                                                     /\ Home[i].region \in Regions \ shown.regions})

(* An environment's patch compliance counts what its accounts' does              *)
(* (_merge_environment_results: "Env-level patch_compliance: sum and recompute   *)
(* pct").                                                                        *)
ComplianceIsSummed ==
    Built("environments") =>
        \A e \in Environments :
            shown.counts[e].all.scanned = MapThenSumSet(LAMBDA a : shown.counts[e].perAccount[a].scanned, Accounts)

(* Every instance is counted or its location is named: what the code keeps to    *)
(* only for the instances Explorer lists.                                        *)
EveryInstanceIsTold ==
    Built("environments") =>
        \A e \in Environments :
            Cardinality({i \in Configured(e) : Home[i] \notin shown.unreadable}) <= shown.counts[e].all.total

=============================================================================
