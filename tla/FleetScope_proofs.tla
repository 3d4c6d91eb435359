--------------------------- MODULE FleetScope_proofs ---------------------------
(* What holds of the instances a run may reach, for every fleet, every lag of    *)
(* Explorer, every lookup that fails and every length of the caches: a start     *)
(* reaches tagged instances of the approved environment in accounts that were in *)
(* the OUs lately, each in its own location; and a list leaves out nothing       *)
(* without saying so.  And of the questions answered with figures about them     *)
(* (Answers), that the figures are complete or say what they leave out.          *)
EXTENDS FleetScope, FiniteSetTheorems, TLAPS

\* Plans name instances of the fleet, and times are counted; the lifetimes of the caches may be any.
ScopeConstants ==
    /\ \A ids \in Asked : ids \subseteq Instances
    /\ LastGood \in Nat /\ MaxClock \in Nat

\* Every variable has its type, as far as the properties depend on it.
WellFormed ==
    /\ clock \in 0..MaxClock
    /\ members \in [Accounts -> 0..In]
    /\ world \in [Instances -> [state: {"tagged", "untagged", "terminated"}, environment: {"dev", "prod", "none"}]]
    /\ ingested \subseteq Instances
    /\ scope \in [accounts: SUBSET Accounts, at: 0..MaxClock, unresolved: BOOLEAN]
    /\ plan.instances \subseteq Instances

\* The accounts last resolved were in the OUs then; the hub never leaves them.
ScopeWasTrue ==
    /\ scope.at <= clock
    /\ members[Hub.account] = In
    /\ \A a \in scope.accounts : scope.at <= members[a]

\* Of an instance that has not changed since, the view tells what EC2 does, or that it wasn't read.
ViewTells(v, i) ==
    i \in v.known /\ world[i].state = "tagged" =>
        \/ i \in v.managed /\ v.environment[i] = world[i].environment
        \/ Home[i] \in v.unread

ViewWasTrue == \A i \in Instances \ changed : ViewTells(view, i)

ScopeInv == WellFormed /\ ScopeWasTrue /\ ViewWasTrue /\ StartedAtHome /\ ListIsComplete

-----------------------------------------------------------------------------
(* The lookups. *)

(* The places are the instances' and the hub's.                                  *)
LEMMA Places ==
    /\ Hub.account \in Accounts /\ Hub \in Locations
    /\ \A i \in Instances : Home[i] \in Locations /\ Home[i].account \in Accounts
BY DEF Accounts, Locations

(* The scope a request goes by is one that was true when it was resolved.        *)
LEMMA ScopeFound ==
    ASSUME ScopeConstants, WellFormed, ScopeWasTrue, NEW s \in ScopesAfter
    PROVE  /\ s \in [accounts: SUBSET Accounts, at: 0..MaxClock, unresolved: BOOLEAN]
           /\ s.at <= clock /\ \A a \in s.accounts : s.at <= members[a]
<1>1. CASE s = scope
    BY <1>1 DEF WellFormed, ScopeWasTrue
<1>2. CASE s = [accounts |-> {a \in Accounts : members[a] = In} \union {Hub.account}, at |-> clock, unresolved |-> FALSE]
    <2>1. clock \in 0..MaxClock /\ MaxClock \in Nat /\ In = MaxClock + 1 /\ members[Hub.account] = In
        BY DEF ScopeConstants, WellFormed, ScopeWasTrue, In
    <2>2. clock <= clock /\ clock <= In
        BY <2>1
    <2>3. \A a \in s.accounts : members[a] = In
        BY <1>2, <2>1
    <2> QED
        BY <1>2, <2>1, <2>2, <2>3, Places
<1>3. CASE s = [scope EXCEPT !.unresolved = TRUE]
    <2>1. s.accounts = scope.accounts /\ s.at = scope.at
        BY <1>3 DEF WellFormed
    <2>2. s \in [accounts: SUBSET Accounts, at: 0..MaxClock, unresolved: BOOLEAN]
        BY <1>3 DEF WellFormed
    <2> QED
        BY <2>1, <2>2 DEF ScopeWasTrue
<1> QED
    BY <1>1, <1>2, <1>3 DEF ScopesAfter

(* Its accounts were in the OUs within the time a failed lookup leaves it.       *)
LEMMA AllowedLately ==
    ASSUME ScopeConstants, WellFormed, ScopeWasTrue, NEW s \in ScopesAfter, NEW a \in Allowed(s)
    PROVE  clock < members[a] + LastGood
<1>1. /\ clock \in Nat /\ clock <= MaxClock /\ MaxClock \in Nat /\ LastGood \in Nat /\ In = MaxClock + 1
      /\ members[Hub.account] = In
    BY DEF ScopeConstants, WellFormed, ScopeWasTrue, In
<1>2. CASE a = Hub.account
    BY <1>1, <1>2
<1>3. CASE a \in s.accounts /\ clock - s.at < LastGood
    <2>1. s.at \in Nat /\ a \in Accounts /\ s.at <= members[a]
        BY <1>3, ScopeFound
    <2>2. members[a] \in Nat
        BY <1>1, <2>1 DEF WellFormed
    <2> QED
        BY <1>1, <1>3, <2>1, <2>2
<1> QED
    BY <1>2, <1>3 DEF Allowed

(* So is the fleet view, of all that has not changed since it was read.          *)
LEMMA ViewFound ==
    ASSUME ScopeInv, NEW s, NEW v \in ViewsAfter(s), NEW i \in Instances, v = view => i \notin changed
    PROVE  ViewTells(v, i)
<1>1. CASE v = view
    BY <1>1 DEF ScopeInv, ViewWasTrue
<1>2. ASSUME NEW failing \in SUBSET Locations, v = Refreshed(failing, s) PROVE ViewTells(v, i)
    <2> DEFINE listed == {j \in ingested : Home[j].account \in Allowed(s)}
               tags == {j \in listed : Home[j] \notin failing /\ world[j].state # "terminated"}
               known == tags \union {j \in listed : Home[j] \in failing}
    <2>1. /\ v.known = known /\ v.managed = {j \in tags : world[j].state = "tagged"}
          /\ v.environment = [j \in known |-> IF j \in tags THEN world[j].environment ELSE "unknown"]
          /\ v.unread = {Home[j] : j \in listed} \intersect failing
        BY <1>2 DEF Refreshed
    <2> QED
        BY <2>1 DEF ViewTells
<1> QED
    BY <1>1, <1>2 DEF ViewsAfter

(* What EC2 describes is tagged now.                                             *)
LEMMA Described ==
    ASSUME NEW ids, NEW v, NEW s, NEW first, NEW second, NEW i,
           i \in Found(ids, TRUE, v, s, first, second).inScope
    PROVE  /\ i \in Found(ids, TRUE, v, s, first, second).described
           /\ world[i].state = "tagged" /\ InConfiguredScope(i, s)
<1>1. i \in Describe(ids \ {}, s, first) \union
            UNION {DescribeIn({j}, {Home[j]}, second) :
                     j \in (ids \intersect v.known) \ ({} \union Describe(ids \ {}, s, first))}
    BY DEF Found
<1>2. i \in Found(ids, TRUE, v, s, first, second).described /\ InConfiguredScope(i, s)
    BY DEF Found
<1>3. world[i].state = "tagged"
    BY <1>1 DEF Describe, DescribeIn
<1> QED
    BY <1>2, <1>3

-----------------------------------------------------------------------------
(* The invariant. *)

(* It holds at first, and no step breaks it.                                     *)
LEMMA ScopeInit == ASSUME ScopeConstants, Init PROVE ScopeInv
<1>1. WellFormed
    BY Places DEF ScopeConstants, Init, WellFormed, In, Tagged, NoPlan
<1>2. ScopeWasTrue
    BY Places DEF ScopeConstants, Init, ScopeWasTrue
<1>3. ViewWasTrue
    BY DEF Init, ViewWasTrue, ViewTells
<1>4. StartedAtHome /\ ListIsComplete
    BY DEF Init, StartedAtHome, ListIsComplete
<1> QED
    BY <1>1, <1>2, <1>3, <1>4 DEF ScopeInv

(* A request leaves caches as true as those it found.                            *)
LEMMA CachesStayTrue ==
    ASSUME ScopeConstants, ScopeInv, NEW s \in ScopesAfter, NEW v \in ViewsAfter(s), Cached(s, v),
           UNCHANGED <<clock, members, world, ingested>>, plan'.instances \subseteq Instances
    PROVE  (WellFormed /\ ScopeWasTrue /\ ViewWasTrue)'
<1>1. WellFormed'
    BY ScopeFound DEF ScopeInv, WellFormed, Cached
<1>2. ScopeWasTrue'
    BY ScopeFound DEF ScopeInv, ScopeWasTrue, Cached
<1>3. ASSUME NEW i \in Instances, i \notin changed' PROVE ViewTells(v, i)
    BY <1>3, ViewFound DEF Cached
<1>4. ViewWasTrue'
    BY <1>3 DEF ViewWasTrue, ViewTells, Cached
<1> QED
    BY <1>1, <1>2, <1>4

(* A list misses nothing that neither it nor a warning names.                    *)
LEMMA NothingMissed ==
    ASSUME ScopeInv, NEW s, NEW v \in ViewsAfter(s), NEW failing, NEW environment, NEW i \in Instances,
           world[i] = Tagged(environment), InConfiguredScope(i, s), v = view => i \notin changed,
           Home[i] \notin Unread(v, s, failing)
    PROVE  i \in EnvironmentInstances(environment, v, s, failing)
<1>1. world[i].state = "tagged" /\ world[i].environment = environment
    BY DEF Tagged
<1>2. CASE i \in v.known
    BY <1>1, <1>2, ViewFound DEF ViewTells, Unread, EnvironmentInstances
<1>3. CASE i \notin v.known
    <2>1. Home[i] \in Queried(s) /\ Home[i] \notin failing
        BY Places DEF Queried, InConfiguredScope, Unread
    <2> QED
        BY <1>1, <1>3, <2>1 DEF EnvironmentInstances, Describe, DescribeIn
<1> QED
    BY <1>2, <1>3

(* The caches are replaced, the world changes under them, and it still holds.    *)
LEMMA ScopeStep == ASSUME ScopeConstants, ScopeInv, [Next]_vars PROVE ScopeInv'
<1>1. ASSUME NEW i \in Instances, NEW now, OwnerChanges(i, now),
             now \in [state: {"tagged", "untagged", "terminated"}, environment: {"dev", "prod", "none"}]
      PROVE  ScopeInv'
    <2>1. WellFormed'
        BY <1>1 DEF ScopeInv, WellFormed, OwnerChanges
    <2>2. ScopeWasTrue' /\ StartedAtHome' /\ ListIsComplete'
        BY <1>1 DEF ScopeInv, ScopeWasTrue, StartedAtHome, ListIsComplete, OwnerChanges
    <2>3. ASSUME NEW j \in Instances, j \notin changed' PROVE ViewTells(view, j)'
        <3>1. j # i /\ j \notin changed /\ view' = view /\ world'[j] = world[j]
            BY <1>1, <2>3 DEF ScopeInv, WellFormed, OwnerChanges
        <3> QED
            BY <3>1 DEF ScopeInv, ViewWasTrue, ViewTells
    <2>4. ViewWasTrue'
        BY <2>3 DEF ViewWasTrue
    <2> QED
        BY <2>1, <2>2, <2>4 DEF ScopeInv
<1>2. ASSUME NEW a \in Accounts, LeaveOU(a) PROVE ScopeInv'
    <2>1. /\ a # Hub.account /\ members' = [members EXCEPT ![a] = clock]
          /\ UNCHANGED <<clock, world, ingested, scope, view, changed, plan, where, missed>>
        BY <1>2 DEF LeaveOU
    <2>2. WellFormed'
        BY <2>1 DEF ScopeConstants, ScopeInv, WellFormed, In
    <2>3. ScopeWasTrue'
        BY <2>1, Places DEF ScopeInv, WellFormed, ScopeWasTrue
    <2>4. ViewWasTrue' /\ StartedAtHome' /\ ListIsComplete'
        BY <2>1 DEF ScopeInv, ViewWasTrue, ViewTells, StartedAtHome, ListIsComplete
    <2> QED
        BY <2>2, <2>3, <2>4 DEF ScopeInv
<1>3. ASSUME NEW i \in Instances, Ingest(i) PROVE ScopeInv'
    BY <1>3 DEF Ingest, ScopeInv, WellFormed, ScopeWasTrue, ViewWasTrue, ViewTells, StartedAtHome, ListIsComplete
<1>4. CASE Tick
    <2>1. /\ clock < MaxClock /\ clock' = clock + 1
          /\ UNCHANGED <<members, world, ingested, scope, view, changed, plan, where, missed>>
        BY <1>4 DEF Tick
    <2>2. WellFormed' /\ ScopeWasTrue'
        BY <2>1 DEF ScopeConstants, ScopeInv, WellFormed, ScopeWasTrue
    <2>3. ViewWasTrue' /\ StartedAtHome' /\ ListIsComplete'
        BY <2>1 DEF ScopeInv, ViewWasTrue, ViewTells, StartedAtHome, ListIsComplete
    <2> QED
        BY <2>2, <2>3 DEF ScopeInv
<1>5. ASSUME NEW ids \in Asked, NEW environment, MakePlan(ids, environment) PROVE ScopeInv'
    <2>1. PICK s \in ScopesAfter : \E v \in ViewsAfter(s) :
            Cached(s, v) /\ plan' = [instances |-> ids, environment |-> environment]
        BY <1>5 DEF MakePlan
    <2>2. PICK v \in ViewsAfter(s) : Cached(s, v) /\ plan' = [instances |-> ids, environment |-> environment]
        BY <2>1
    <2>3. plan'.instances \subseteq Instances
        BY <2>2 DEF ScopeConstants
    <2>4. UNCHANGED <<clock, members, world, ingested, where, missed>>
        BY <1>5 DEF MakePlan
    <2>5. (WellFormed /\ ScopeWasTrue /\ ViewWasTrue)'
        BY <2>2, <2>3, <2>4, CachesStayTrue
    <2>6. StartedAtHome' /\ ListIsComplete'
        BY <2>4 DEF ScopeInv, StartedAtHome, ListIsComplete
    <2> QED
        BY <2>5, <2>6 DEF ScopeInv
<1>6. CASE Start
    <2>1. PICK s \in ScopesAfter : \E v \in ViewsAfter(s) : \E first, second \in SUBSET Locations :
            LET found == Found(plan.instances, TRUE, v, s, first, second)
            IN  /\ found.inScope = plan.instances /\ Cached(s, v)
                /\ where' = Group(plan.instances, v, s, found.described, second)
        BY <1>6 DEF Start, Passes
    <2>2. PICK v \in ViewsAfter(s) : \E first, second \in SUBSET Locations :
            LET found == Found(plan.instances, TRUE, v, s, first, second)
            IN  /\ found.inScope = plan.instances /\ Cached(s, v)
                /\ where' = Group(plan.instances, v, s, found.described, second)
        BY <2>1
    <2>3. PICK first, second \in SUBSET Locations :
            LET found == Found(plan.instances, TRUE, v, s, first, second)
            IN  /\ found.inScope = plan.instances /\ Cached(s, v)
                /\ where' = Group(plan.instances, v, s, found.described, second)
        BY <2>2
    <2> DEFINE found == Found(plan.instances, TRUE, v, s, first, second)
    <2>4. plan.instances \subseteq found.described
        BY <2>3, Described
    <2>5. StartedAtHome'
        <3> DEFINE sent == Group(plan.instances, v, s, found.described, second)
        <3>1. where' = sent
            BY <2>3
        <3> HIDE DEF found
        <3>2. \A i \in DOMAIN sent : sent[i] = Home[i]
            \* EC2 has described each of them.
            BY <2>4 DEF Group
        <3> HIDE DEF sent
        <3> QED
            BY <3>1, <3>2 DEF StartedAtHome
    <2>6. UNCHANGED <<clock, members, world, ingested, missed>> /\ plan'.instances \subseteq Instances
        BY <1>6 DEF Start, NoPlan
    <2>7. (WellFormed /\ ScopeWasTrue /\ ViewWasTrue)'
        BY <2>3, <2>6, CachesStayTrue
    <2>8. ListIsComplete'
        BY <2>6 DEF ScopeInv, ListIsComplete
    <2> QED
        BY <2>5, <2>7, <2>8 DEF ScopeInv
<1>7. ASSUME NEW environment, ListEnvironment(environment) PROVE ScopeInv'
    <2>1. PICK s \in ScopesAfter : \E v \in ViewsAfter(s) : \E failing \in SUBSET Locations :
            /\ missed' = IF s.unresolved THEN {} ELSE
                 {i \in Instances :
                     /\ world[i] = Tagged(environment) /\ InConfiguredScope(i, s)
                     /\ v = view => i \notin changed
                     /\ i \notin EnvironmentInstances(environment, v, s, failing)
                     /\ Home[i] \notin Unread(v, s, failing)}
            /\ Cached(s, v)
        BY <1>7 DEF ListEnvironment
    <2>2. PICK v \in ViewsAfter(s) : \E failing \in SUBSET Locations :
            /\ missed' = IF s.unresolved THEN {} ELSE
                 {i \in Instances :
                     /\ world[i] = Tagged(environment) /\ InConfiguredScope(i, s)
                     /\ v = view => i \notin changed
                     /\ i \notin EnvironmentInstances(environment, v, s, failing)
                     /\ Home[i] \notin Unread(v, s, failing)}
            /\ Cached(s, v)
        BY <2>1
    <2>3. missed' = {} /\ Cached(s, v)
        BY <2>2, NothingMissed
    <2>4. UNCHANGED <<clock, members, world, ingested, plan, where>>
        BY <1>7 DEF ListEnvironment
    <2>5. plan'.instances \subseteq Instances
        BY <2>4 DEF ScopeInv, WellFormed
    <2>6. (WellFormed /\ ScopeWasTrue /\ ViewWasTrue)'
        BY <2>3, <2>4, <2>5, CachesStayTrue
    <2>7. StartedAtHome' /\ ListIsComplete'
        BY <2>3, <2>4 DEF ScopeInv, StartedAtHome, ListIsComplete
    <2> QED
        BY <2>6, <2>7 DEF ScopeInv
<1>8. CASE UNCHANGED vars
    BY <1>8 DEF vars, ScopeInv, WellFormed, ScopeWasTrue, ViewWasTrue, ViewTells, StartedAtHome, ListIsComplete
<1>9. ASSUME NEW i \in Instances
      PROVE  /\ \A environment \in {"prod", "none"} : Tagged(environment) \in
                  [state: {"tagged", "untagged", "terminated"}, environment: {"dev", "prod", "none"}]
             /\ \A state \in {"untagged", "terminated"} : [world[i] EXCEPT !.state = state] \in
                  [state: {"tagged", "untagged", "terminated"}, environment: {"dev", "prod", "none"}]
    BY DEF Tagged, ScopeInv, WellFormed
<1> QED
    BY <1>1, <1>2, <1>3, <1>4, <1>5, <1>6, <1>7, <1>8, <1>9 DEF Next

(* The caches are true of what has not changed since, in every state.            *)
THEOREM ScopeInvariant == ASSUME ScopeConstants PROVE Spec => []ScopeInv
<1>1. Init => ScopeInv
    BY ScopeInit
<1>2. ScopeInv /\ [Next]_vars => ScopeInv'
    BY ScopeStep
<1> QED
    BY <1>1, <1>2, PTL DEF Spec

-----------------------------------------------------------------------------
(* The properties. *)

(* Every instance is started in its own account and Region, whatever the view    *)
(* and EC2 don't know: never in the hub for want of its location                 *)
(* (_group_instances_by_location).                                               *)
THEOREM SentToOwnPlace == ASSUME ScopeConstants PROVE Spec => []StartedAtHome
<1>1. ScopeInv => StartedAtHome
    BY DEF ScopeInv
<1> QED
    BY <1>1, ScopeInvariant, PTL

(* A list of an environment's instances leaves none out without saying so,       *)
(* however far Explorer lags and whatever lookup fails (environment_instances).  *)
THEOREM ListsTellAll == ASSUME ScopeConstants PROVE Spec => []ListIsComplete
<1>1. ScopeInv => ListIsComplete
    BY DEF ScopeInv
<1> QED
    BY <1>1, ScopeInvariant, PTL

(* A run starts only on instances that carry the scope tag and the approved      *)
(* environment when it starts, in accounts that were in the OUs within the time  *)
(* a failed lookup leaves a scope (_validate_instance_scope).                    *)
THEOREM StartsWhereAllowed == ASSUME ScopeConstants PROVE Spec => [][StartsInScope]_vars
<1>1. ASSUME ScopeInv, Next PROVE StartsInScope
    <2> SUFFICES ASSUME plan # NoPlan, plan' = NoPlan, NEW i \in plan.instances
                 PROVE  /\ world[i].state = "tagged"
                        /\ \/ world[i].environment = plan.environment
                           \/ plan.environment = "prod" /\ world[i].environment = "none"
                        /\ Home[i].region \in SpokeRegions
                        /\ clock < members[Home[i].account] + LastGood
        BY DEF StartsInScope
    <2>1. Start
        BY <1>1 DEF Next, OwnerChanges, LeaveOU, Ingest, Tick, MakePlan, ListEnvironment
    <2>2. PICK s \in ScopesAfter : \E v \in ViewsAfter(s) : \E first, second \in SUBSET Locations :
            Passes(plan.instances, plan.environment, Found(plan.instances, TRUE, v, s, first, second), s, second)
        BY <2>1 DEF Start
    <2>3. PICK v \in ViewsAfter(s) : \E first, second \in SUBSET Locations :
            Passes(plan.instances, plan.environment, Found(plan.instances, TRUE, v, s, first, second), s, second)
        BY <2>2
    <2>4. PICK first, second \in SUBSET Locations :
            Passes(plan.instances, plan.environment, Found(plan.instances, TRUE, v, s, first, second), s, second)
        BY <2>3
    <2> DEFINE found == Found(plan.instances, TRUE, v, s, first, second)
               seen == EnvironmentsSeen(plan.instances, s, found.described, second)
    <2>5. i \in found.described /\ world[i].state = "tagged" /\ InConfiguredScope(i, s)
        BY <2>4, Described DEF Passes
    <2>6. i \in DOMAIN seen /\ seen[i] = world[i].environment
        BY <2>5 DEF EnvironmentsSeen
    <2>7. seen[i] = plan.environment \/ (seen[i] = "none" /\ plan.environment = "prod")
        BY <2>4, <2>6 DEF Passes, EnvironmentMatches
    <2>8. Home[i].region \in SpokeRegions /\ Home[i].account \in Allowed(s)
        BY <2>5 DEF InConfiguredScope
    <2>9. clock < members[Home[i].account] + LastGood
        BY <1>1, <2>8, AllowedLately DEF ScopeInv
    <2> QED
        BY <2>5, <2>6, <2>7, <2>8, <2>9
<1>2. ScopeInv /\ [Next]_vars => [StartsInScope]_vars
    BY <1>1
<1> QED
    BY <1>2, ScopeInvariant, PTL DEF Spec

-----------------------------------------------------------------------------
(* Answers with figures (Answers): each kind of question tells all it is asked     *)
(* for, or says what it leaves out.                                              *)

CONSTANTS Things, ReadMax
VARIABLES asked, answer

Figures == INSTANCE Answers

(* What there is to count is finite, and a history reads a number of reports.    *)
FiguresConstants == IsFiniteSet(Things) /\ ReadMax \in Nat

\* An answer to the world w, or none.
AnswersTruly(told, w) ==
    /\ told.counted \subseteq Things /\ told.unread \subseteq Figures!Locations
    /\ told.kind = "told" /\ ~Figures!Silent(w) => Figures!TellsAll(w, told)

FiguresInv == asked \in Figures!Worlds /\ AnswersTruly(answer, asked)

-----------------------------------------------------------------------------
(* The parts of an answer are those it was told with.                            *)
LEMMA TellingAll ==
    ASSUME NEW w, NEW counted \in SUBSET Things, NEW unscanned, NEW unreadable, NEW unread \in SUBSET Figures!Locations,
           NEW partial \in BOOLEAN,
           ~Figures!Silent(w) =>
              \A i \in IF w.kind = "history" THEN w.known ELSE Things :
                 i \in counted \union unreadable \/ (i \in unscanned /\ i \notin w.scanned) \/ Home[i] \in unread \/ partial
    PROVE  AnswersTruly(Figures!Told(counted, unscanned, unreadable, unread, partial), w)
<1> DEFINE told == Figures!Told(counted, unscanned, unreadable, unread, partial)
<1>1. /\ told.kind = "told" /\ told.counted = counted /\ told.unscanned = unscanned
      /\ told.unreadable = unreadable /\ told.unread = unread
    BY DEF Figures!Told
<1>2. told.partial <=> partial
    BY Zenon DEF Figures!Told
<1> HIDE DEF told
<1>3. ~Figures!Silent(w) => Figures!TellsAll(w, told)
    BY <1>1, <1>2, Zenon DEF Figures!TellsAll
<1>4. AnswersTruly(told, w)
    BY <1>1, <1>3 DEF AnswersTruly
<1> QED
    BY <1>4 DEF told

(* An answer without figures counts nothing.                                     *)
LEMMA NothingTold ==
    ASSUME NEW kind
    PROVE  LET told == Figures!Nothing(kind) IN told.kind = kind /\ told.counted = {} /\ told.unread = {}
BY DEF Figures!Nothing, Figures!Told

(* The kinds of place and instance a world has.                                  *)
LEMMA WorldParts ==
    ASSUME NEW w \in Figures!Worlds
    PROVE  /\ w.known \subseteq Things /\ w.scanned \subseteq Things
           /\ w.viewFailing \subseteq Figures!Locations /\ w.failing \subseteq Figures!Locations
           /\ Figures!Unreadable(w) \subseteq Figures!Locations /\ Figures!Described(w) \subseteq Things
           /\ w.kind \in {"fleet", "scope", "environment", "instances", "findings", "impact", "history"}
BY DEF Figures!Worlds, Figures!Unreadable, Figures!Described, Figures!At

(* What EC2 doesn't list is where it failed, or in an account left out.          *)
LEMMA FailsOrDescribed ==
    ASSUME NEW w, NEW i \in Things
    PROVE  \/ i \in Figures!Described(w) \/ (Home[i] \in w.failing /\ Home[i] \in Figures!Unreadable(w))
           \/ i \in Figures!At(w.left)
BY DEF Figures!Described, Figures!Queried, Figures!Unreadable, Figures!At, Figures!Locations

(* The fleet's overview: what the view and EC2 both leave out is in a place that  *)
(* is said not to be read.                                                       *)
LEMMA FleetTold ==
    ASSUME NEW w \in Figures!Worlds, w.kind = "fleet"
    PROVE  AnswersTruly(Figures!FleetOverview(w), w)
<1> DEFINE counted == Figures!Managed(w) \union Figures!Described(w)
           unread == Figures!ViewUnread(w) \union Figures!Unreadable(w)
<1>1. counted \in SUBSET Things
    BY WorldParts DEF Figures!Managed
<1>2. unread \in SUBSET Figures!Locations
    BY WorldParts DEF Figures!ViewUnread
<1>3. ~Figures!Silent(w) => \A i \in Things : i \in counted \/ Home[i] \in unread
  <2>1. ASSUME NEW i \in Things, i \in w.known PROVE i \in counted \/ Home[i] \in unread
    BY <2>1 DEF Figures!Managed, Figures!At, Figures!ViewUnread
  <2>2. ~Figures!Silent(w) => Figures!At(w.left) \subseteq w.known
    BY DEF Figures!Silent
  <2> HIDE DEF counted, unread
  <2>3. \A i \in Things : i \in counted \/ Home[i] \in unread \/ i \in Figures!At(w.left)
    BY FailsOrDescribed DEF counted, unread
  <2> QED
    BY <2>1, <2>2, <2>3
<1>4. Figures!FleetOverview(w) = Figures!Told(counted, {}, {}, unread, FALSE)
    BY DEF Figures!FleetOverview
<1> HIDE DEF counted, unread
<1>5. ~Figures!Silent(w) =>
      \A i \in IF w.kind = "history" THEN w.known ELSE Things :
         i \in counted \union {} \/ (i \in {} /\ i \notin w.scanned) \/ Home[i] \in unread \/ FALSE
    BY <1>3
<1>6. AnswersTruly(Figures!Told(counted, {}, {}, unread, FALSE), w)
    BY <1>1, <1>2, <1>5, TellingAll, Zenon
<1> QED
    BY <1>4, <1>6

(* The scope of a run, where no lookup failed: everything EC2 lists is counted.  *)
LEMMA ScopeTold ==
    ASSUME NEW w \in Figures!Worlds, w.kind = "scope", NEW told \in Figures!ExecutionScope(w)
    PROVE  AnswersTruly(told, w)
<1> DEFINE counted == Figures!Managed(w) \union (Figures!Described(w) \ w.known)
<1>1. counted \in SUBSET Things
    BY WorldParts DEF Figures!Managed
<1>2. ASSUME ~Figures!Silent(w), NEW i \in Things PROVE i \in counted
  <2>1. Figures!ViewUnread(w) = {} /\ w.failing = {} /\ Figures!At(w.left) = {}
    BY <1>2 DEF Figures!Silent, Figures!At
  <2>2. i \in w.known => i \in Figures!Managed(w)
    BY <2>1 DEF Figures!Managed, Figures!At, Figures!ViewUnread
  <2> QED
    BY <2>1, <2>2, FailsOrDescribed
<1>3. told = Figures!Told(counted, {}, {}, {}, FALSE) \/ told = Figures!Nothing("error")
    BY DEF Figures!ExecutionScope
<1> HIDE DEF counted
<1>4. ~Figures!Silent(w) =>
         \A i \in IF w.kind = "history" THEN w.known ELSE Things :
            i \in counted \union {} \/ (i \in {} /\ i \notin w.scanned) \/ Home[i] \in {} \/ FALSE
    BY <1>2
<1>5. AnswersTruly(Figures!Told(counted, {}, {}, {}, FALSE), w)
    BY <1>1, <1>4, TellingAll, Zenon
<1>6. AnswersTruly(Figures!Nothing("error"), w)
    BY NothingTold DEF AnswersTruly
<1> QED
    BY <1>3, <1>5, <1>6

(* Patch states: each instance asked of its own place is counted, was never      *)
(* scanned, or its place didn't answer.                                          *)
LEMMA StatesTold ==
    ASSUME NEW w \in Figures!Worlds, w.kind # "history", NEW ids \in SUBSET Things, NEW place,
           NEW unread \in SUBSET Figures!Locations,
           ~Figures!Silent(w) => /\ \A i \in ids : place[i] = Home[i]
                                 /\ \A i \in Things \ ids : Home[i] \in unread
    PROVE  AnswersTruly(Figures!PatchStates(ids, place, unread, w), w)
<1> DEFINE read == {i \in ids : place[i] \notin w.ssmFailing}
           states == {i \in read \intersect w.scanned : place[i] = Home[i]}
<1>1. states \in SUBSET Things
    OBVIOUS
<1>2. \A i \in ids : place[i] = Home[i] =>
         i \in states \/ i \in ids \ read \/ (i \in read \ states /\ i \notin w.scanned)
    OBVIOUS
<1>3. Figures!PatchStates(ids, place, unread, w) = Figures!Told(states, read \ states, ids \ read, unread, FALSE)
    BY DEF Figures!PatchStates
<1> HIDE DEF read, states
<1>4. ~Figures!Silent(w) =>
         \A i \in IF w.kind = "history" THEN w.known ELSE Things :
            \/ i \in states \union (ids \ read) \/ (i \in (read \ states) /\ i \notin w.scanned)
            \/ Home[i] \in unread \/ FALSE
    BY <1>2
<1>5. AnswersTruly(Figures!Told(states, read \ states, ids \ read, unread, FALSE), w)
    BY <1>1, <1>4, TellingAll, Zenon
<1> QED
    BY <1>3, <1>5

(* By environment: what EC2 could not list is in a place that is named.           *)
LEMMA EnvironmentTold ==
    ASSUME NEW w \in Figures!Worlds, w.kind = "environment"
    PROVE  AnswersTruly(Figures!EnvironmentCompliance(w), w)
<1>1. /\ Figures!Described(w) \in SUBSET Things /\ Figures!Unreadable(w) \in SUBSET Figures!Locations
      /\ ~Figures!Silent(w) =>
            \A i \in Things \ Figures!Described(w) : Home[i] \in Figures!Unreadable(w)
    BY WorldParts, FailsOrDescribed DEF Figures!Described, Figures!At, Figures!Silent
<1>2. AnswersTruly(Figures!PatchStates(Figures!Described(w), Home, Figures!Unreadable(w), w), w)
    BY <1>1, StatesTold
<1> QED
    BY <1>2 DEF Figures!EnvironmentCompliance

(* By instance ID: where one can't be located, the code says nothing of it.      *)
LEMMA InstancesTold ==
    ASSUME NEW w \in Figures!Worlds, w.kind = "instances"
    PROVE  AnswersTruly(Figures!InstanceCompliance(w), w)
<1> DEFINE place == [i \in Things |-> IF i \in Figures!Located(w) THEN Home[i] ELSE Hub]
<1>1. ~Figures!Silent(w) => \A i \in Things : place[i] = Home[i]
    BY DEF Figures!Silent
<1>2. Figures!InstanceCompliance(w) = Figures!PatchStates(Things, place, {}, w)
    BY DEF Figures!InstanceCompliance
<1> HIDE DEF place
<1>3. AnswersTruly(Figures!PatchStates(Things, place, {}, w), w)
    BY <1>1, StatesTold
<1> QED
    BY <1>2, <1>3

(* The findings: those of every Region that answered, of the accounts in scope,   *)
(* and where accounts were left out it says so.                                  *)
LEMMA FindingsTold ==
    ASSUME NEW w \in Figures!Worlds, w.kind = "findings"
    PROVE  AnswersTruly(Figures!FindVulnerabilities(w), w)
<1> DEFINE counted == Figures!Described(w)
           more == w.left # {}
<1>1. counted \in SUBSET Things /\ w.failing \in SUBSET Figures!Locations /\ more \in BOOLEAN
    BY WorldParts DEF Figures!Described, Figures!At
<1>2. \A i \in Things : i \in counted \/ Home[i] \in w.failing \/ more
    BY FailsOrDescribed DEF Figures!At
<1>3. Figures!FindVulnerabilities(w) = Figures!Told(counted, {}, {}, w.failing, more)
    BY DEF Figures!FindVulnerabilities
<1> HIDE DEF counted, more
<1>4. ~Figures!Silent(w) =>
         \A i \in IF w.kind = "history" THEN w.known ELSE Things :
            i \in counted \union {} \/ (i \in {} /\ i \notin w.scanned) \/ Home[i] \in w.failing \/ more
    BY <1>2
<1>5. AnswersTruly(Figures!Told(counted, {}, {}, w.failing, more), w)
    BY <1>1, <1>4, TellingAll, Zenon
<1> QED
    BY <1>3, <1>5

(* The impact on the fleet, where every Region answered and no account was left   *)
(* out: every instance found is one EC2 lists.                                   *)
LEMMA ImpactTold ==
    ASSUME NEW w \in Figures!Worlds, w.kind = "impact"
    PROVE  AnswersTruly(Figures!AssessFleetImpact(w), w)
<1> DEFINE found == Figures!Described(w)
           counted == found \intersect (Figures!Managed(w) \union Figures!Described(w))
<1>0. Figures!FindVulnerabilities(w).counted = found /\ Figures!FindVulnerabilities(w).unread = w.failing
    BY DEF Figures!FindVulnerabilities, Figures!Told
<1>1. ~Figures!Silent(w) => found = Things
  <2>1. ASSUME ~Figures!Silent(w), NEW i \in Things PROVE i \in found
    <3>1. Home[i] \notin w.failing /\ i \notin Figures!At(w.left)
        BY <2>1 DEF Figures!Silent, Figures!At
    <3> QED
        BY <3>1, FailsOrDescribed
  <2> QED
    BY <2>1, WorldParts
<1>2. CASE found = {}
  <2>1. Figures!AssessFleetImpact(w) = Figures!Nothing("told")
    BY <1>0, <1>2 DEF Figures!AssessFleetImpact
  <2> QED
    BY <1>1, <1>2, <2>1, NothingTold DEF AnswersTruly, Figures!TellsAll
<1>3. CASE found # {}
  <2>1. Figures!AssessFleetImpact(w) = Figures!Told(counted, {}, {}, w.failing, FALSE)
    BY <1>0, <1>3 DEF Figures!AssessFleetImpact
  <2>2. counted \in SUBSET Things /\ w.failing \in SUBSET Figures!Locations
    BY WorldParts DEF Figures!Described, Figures!At
  <2>3. ~Figures!Silent(w) => \A i \in Things : i \in counted
    BY <1>1
  <2> HIDE DEF counted
  <2>4. ~Figures!Silent(w) =>
           \A i \in IF w.kind = "history" THEN w.known ELSE Things :
              i \in counted \union {} \/ (i \in {} /\ i \notin w.scanned) \/ Home[i] \in w.failing \/ FALSE
    BY <2>3
  <2>5. AnswersTruly(Figures!Told(counted, {}, {}, w.failing, FALSE), w)
    BY <2>2, <2>4, TellingAll, Zenon
  <2> QED
    BY <2>1, <2>5
<1> QED
    BY <1>2, <1>3

(* Of finitely many reports, as many as there are, are all of them.              *)
LEMMA AllOfThem ==
    ASSUME NEW known, IsFiniteSet(known), NEW newest \in SUBSET known,
           Figures!Cardinality(newest) = Figures!Cardinality(known)
    PROVE  newest = known
<1>1. \A S : Figures!Cardinality(S) = Cardinality(S)
    BY DEF Cardinality, Figures!Cardinality
<1> QED
    BY <1>1, FS_Subset

(* A history that isn't said to be partial has read every report it listed.      *)
LEMMA HistoryTold ==
    ASSUME FiguresConstants, NEW w \in Figures!Worlds, w.kind = "history", NEW told \in Figures!QueryReports(w)
    PROVE  AnswersTruly(told, w)
<1>1. CASE told = Figures!Nothing("error")
    BY <1>1, NothingTold DEF AnswersTruly
<1>2. CASE told \in Figures!FetchReports(w)
  <2> DEFINE total == Figures!Cardinality(w.known)
  <2>1. PICK newest \in SUBSET w.known :
            /\ Figures!Cardinality(newest) = IF total > ReadMax THEN ReadMax ELSE total
            /\ told = Figures!Told(newest \intersect w.scanned, {}, {}, {}, total > ReadMax)
    BY <1>2 DEF Figures!FetchReports
  <2> DEFINE counted == newest \intersect w.scanned
             more == total > ReadMax
  <2>2. counted \in SUBSET Things /\ more \in BOOLEAN /\ told = Figures!Told(counted, {}, {}, {}, more)
    BY <2>1, WorldParts
  <2>3. ASSUME ~more, ~Figures!Silent(w) PROVE counted = w.known
    <3>1. IsFiniteSet(w.known)
        BY WorldParts, FS_Subset DEF FiguresConstants
    <3>2. newest = w.known
        BY <2>1, <2>3, <3>1, AllOfThem
    <3> QED
        BY <2>3, <3>2 DEF Figures!Silent
  <2> HIDE DEF counted, more
  <2>4. ~Figures!Silent(w) =>
           \A i \in IF w.kind = "history" THEN w.known ELSE Things :
              i \in counted \union {} \/ (i \in {} /\ i \notin w.scanned) \/ Home[i] \in {} \/ more
    BY <2>3
  <2> QED
    BY <2>2, <2>4, TellingAll, Zenon
<1> QED
    BY <1>1, <1>2 DEF Figures!QueryReports

(* An answer, once given, is true of the world it was asked in.                    *)
LEMMA FiguresStep == ASSUME FiguresConstants, FiguresInv, [Figures!Next]_(Figures!vars) PROVE FiguresInv'
<1>1. CASE UNCHANGED Figures!vars
    BY <1>1 DEF Figures!vars, FiguresInv
<1>2. CASE Figures!Answer
  <2>1. asked' = asked /\ asked \in Figures!Worlds
    BY <1>2 DEF Figures!Answer, FiguresInv
  <2>2. AnswersTruly(answer', asked)
    BY <1>2, <2>1, WorldParts, FleetTold, ScopeTold, EnvironmentTold, InstancesTold, FindingsTold, ImpactTold, HistoryTold
       DEF Figures!Answer
  <2> QED
    BY <2>1, <2>2 DEF FiguresInv
<1> QED
    BY <1>1, <1>2 DEF Figures!Next

(* Each answer tells all it is asked for, or says what it leaves out.              *)
THEOREM FiguresInvariant == ASSUME FiguresConstants PROVE Figures!Spec => []FiguresInv
<1>1. Figures!Init => FiguresInv
    BY NothingTold DEF Figures!Init, FiguresInv, AnswersTruly
<1>2. FiguresInv /\ [Figures!Next]_(Figures!vars) => FiguresInv'
    BY FiguresStep
<1> QED
    BY <1>1, <1>2, PTL DEF Figures!Spec

(* The question and the answer have their types.                                  *)
THEOREM FiguresTypeCorrect == ASSUME FiguresConstants PROVE Figures!Spec => []Figures!TypeOK
<1>1. FiguresInv => Figures!TypeOK
    BY DEF FiguresInv, AnswersTruly, Figures!TypeOK
<1> QED
    BY <1>1, FiguresInvariant, PTL

(* For every fleet, Explorer, failure and limit on reports: each thing that any of *)
(* the seven questions asks about is counted, or truly said to be unscanned,     *)
(* unreadable or in a place not read, but where the code is silent (Silent:       *)
(* accounts that a failed OU lookup leaves out of an overview, of compliance or  *)
(* of an impact, an execution scope not read in full, instances without a        *)
(* location, failures in assess_fleet_impact, and reports that can't be read).   *)
THEOREM FiguresComplete == ASSUME FiguresConstants PROVE Figures!Spec => []Figures!FiguresTellAll
<1>1. FiguresInv => Figures!FiguresTellAll
    BY DEF FiguresInv, AnswersTruly, Figures!FiguresTellAll
<1> QED
    BY <1>1, FiguresInvariant, PTL

=============================================================================
