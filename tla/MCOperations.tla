----------------------------- MODULE MCOperations -----------------------------
(* The components that share nothing with each other, checked in one run: each   *)
(* behaviour is one component's, chosen at the start, and the components but the *)
(* first, whose module this one extends, use the variables v1, v2, ... in turn.  *)
EXTENDS StopRun, Integers, TLC

VARIABLES component, v1, v2, v3, v4, v5, v6, v7, v8, v9, v10, v11

shared == <<v1, v2, v3, v4, v5, v6, v7, v8, v9, v10, v11>>
allVars == <<vars, component, shared>>

At(account, region) == [account |-> account, region |-> region]
Each(S, x) == [t \in S |-> x]

-----------------------------------------------------------------------------
(* Stop: one request, of two plans of one conversation; and two, of one plan.   *)

MCPlanOf == "e1" :> "p1" @@ "e2" :> "p1" @@ "e3" :> "p2"
MCConversation == "p1" :> "c1" @@ "p2" :> "c1"

OnePlan == "e1" :> "p1" @@ "e2" :> "p1"
OneConversation == "p1" :> "c1"

TwoStops == INSTANCE StopRun WITH
    Plans <- {"p1"}, Executions <- {"e1", "e2"}, Stops <- {"r1", "r2"},
    PlanOf <- OnePlan, Conversation <- OneConversation,
    ssm <- v1, recorded <- v2, listed <- v3, begun <- v4, over <- v5, stop <- v6

-----------------------------------------------------------------------------
(* Promotion: a dev plan of two locations, as two runs, and as one run with an   *)
(* alarm on each instance and locations that may not be listed; and one of one   *)
(* location, whose instances and alarms may not be found.                        *)

DevStage == "p" :> 0
AllPatches == "p" :> "all"
PlanOfTwo == "e1" :> "p" @@ "e2" :> "p"
LocationsOfTwo == "e1" :> {"here"} @@ "e2" :> {"there"}
PlanOfOne == "e1" :> "p"
LocationsOfOne == "e1" :> {"here", "there"}
LocationOfOne == "e1" :> {"here"}
NoAlarms == Each({}, 0)
SlowCpu == "cpu" :> 2

TwoRuns == INSTANCE Promotion WITH
    Plans <- {"p"}, Executions <- {"e1", "e2"}, Locations <- {"here", "there"}, Scopes <- {"all"},
    PlanOf <- PlanOfTwo, LocationsOf <- LocationsOfTwo, Stage <- DevStage, Scope <- AllPatches, Alarms <- {}, Evaluation <- NoAlarms,
    MinSettle <- 1, Margin <- 0, MaxSettle <- 2, MaxAge <- 2, Shown <- 5, MaxClock <- 3,
    Faults <- {"read"},
    clock <- v1, run <- v2, listed <- v3, inFlight <- v4, promotion <- v5, verified <- v6, last <- v7

OneRun == INSTANCE Promotion WITH
    Plans <- {"p"}, Executions <- {"e1"}, Locations <- {"here", "there"}, Scopes <- {"all"},
    PlanOf <- PlanOfOne, LocationsOf <- LocationsOfOne, Stage <- DevStage, Scope <- AllPatches, Alarms <- {"cpu"}, Evaluation <- SlowCpu,
    MinSettle <- 1, Margin <- 0, MaxSettle <- 2, MaxAge <- 2, Shown <- 5, MaxClock <- 3,
    Faults <- {"read", "locations"},
    clock <- v1, run <- v2, listed <- v3, inFlight <- v4, promotion <- v5, verified <- v6, last <- v7

OneLocation == INSTANCE Promotion WITH
    Plans <- {"p"}, Executions <- {"e1"}, Locations <- {"here"}, Scopes <- {"all"},
    PlanOf <- PlanOfOne, LocationsOf <- LocationOfOne, Stage <- DevStage, Scope <- AllPatches, Alarms <- {"cpu"}, Evaluation <- SlowCpu,
    MinSettle <- 1, Margin <- 0, MaxSettle <- 2, MaxAge <- 2, Shown <- 5, MaxClock <- 3, Faults <- {"places"},
    clock <- v1, run <- v2, listed <- v3, inFlight <- v4, promotion <- v5, verified <- v6, last <- v7

-----------------------------------------------------------------------------
(* Fleet scope: an instance of the hub, and one of a spoke that its owner changes. *)

HubLocation == At("hub", "r1")
ScopeHome == "i" :> At("spoke", "r1") @@ "j" :> HubLocation

Scope == INSTANCE FleetScope WITH
    Instances <- {"i", "j"}, Home <- ScopeHome, Hub <- HubLocation,
    SpokeRegions <- {"r1"}, Changing <- {"i"}, Asked <- {{"i", "j"}},
    FleetTtl <- 1, ScopeTtl <- 0, LastGood <- 1, MaxClock <- 1,
    clock <- v1, members <- v2, world <- v3, ingested <- v4, scope <- v5, view <- v6, changed <- v7, plan <- v8,
    where <- v9, missed <- v10

-----------------------------------------------------------------------------
(* Rollback: a plan of two locations, as two runs; and plans of one run each, of *)
(* which one is the environment's, in one of its accounts.                       *)

UndoAccount == "i" :> "a" @@ "j" :> "b"
ShareOfTwo == "e1" :> {"i"} @@ "e2" :> {"j"}
PlanOfEach == "e1" :> "p" @@ "f" :> "q"
ShareOfEach == "e1" :> {"i", "j"} @@ "f" :> {"i"}

UndoTwo == INSTANCE Rollback WITH
    Plans <- {"p"}, Executions <- {"e1", "e2"}, PlanOf <- PlanOfTwo, Share <- ShareOfTwo,
    ByEnvironment <- {}, Account <- UndoAccount,
    Before <- 0, After <- 0, MaxRun <- 1, Lookback <- 1, CommandsFinish <- 1, MaxClock <- 2,
    Faults <- {"pending", "duration"},
    clock <- v1, run <- v2, pending <- v3, reported <- v4, timed <- v5, installed <- v6, plan <- v7

Undo == INSTANCE Rollback WITH
    Plans <- {"p", "q"}, Executions <- {"e1", "f"}, PlanOf <- PlanOfEach, Share <- ShareOfEach,
    ByEnvironment <- {"q"}, Account <- UndoAccount,
    Before <- 0, After <- 0, MaxRun <- 1, Lookback <- 1, CommandsFinish <- 1, MaxClock <- 2, Faults <- {"pending"},
    clock <- v1, run <- v2, pending <- v3, reported <- v4, timed <- v5, installed <- v6, plan <- v7

-----------------------------------------------------------------------------
(* The check of a rollback: two instances, each in its own location. *)
CheckHome == "i" :> "i" @@ "j" :> "j"
Installs == {Each({"i", "j"}, 1)}

Check == INSTANCE RollbackCheck WITH
    Instances <- {"i", "j"}, Home <- CheckHome, Patches <- 1, Installs <- Installs, Releases <- 0,
    before <- v1, applied <- v2, released <- v3, state <- v4, pre <- v5, post <- v6, run <- v7, named <- v8,
    scan <- v9, scanId <- v10, answer <- v11

-----------------------------------------------------------------------------
(* Scheduling: windows and policies in turn, with each way they may fall short. *)

Here == At("a", "r")
There == At("b", "r")
Targets == {"i", "j", "k"}
Window == [home |-> Here, readable |-> TRUE, namesEnvironment |-> FALSE, targets |-> {{{"i", "k"}}}, enabled |-> TRUE,
           installs |-> "RebootIfNeeded", end |-> 1]
Policy == [readable |-> TRUE, installs |-> TRUE, deployed |-> TRUE, regions |-> {"r"}, accounts |-> {"a", "b"},
           ouAccounts |-> {}, tagged |-> Targets, reboot |-> "RebootIfNeeded", end |-> 1]
Elsewhere == [Policy EXCEPT !.accounts = {"b"}]
Windows ==
    {[Window EXCEPT !.readable = FALSE], [Window EXCEPT !.enabled = FALSE]} \union
    {[Window EXCEPT !.namesEnvironment = n, !.targets = t, !.installs = o, !.end = e] :
        n \in BOOLEAN, o \in {"RebootIfNeeded", "NoReboot", "nothing"}, e \in {1, 2, 99},
        t \in {{{{"i", "k"}}}, {{{"i", "k"}, {"i"}}}, {{{"i"}}, {{"k"}}}, {{{}}}}}
Policies ==
    {[Policy EXCEPT !.readable = FALSE], [Policy EXCEPT !.installs = FALSE],
     [Policy EXCEPT !.deployed = FALSE], [Policy EXCEPT !.regions = {}]} \union
    {[Policy EXCEPT !.accounts = a, !.ouAccounts = o, !.tagged = t, !.reboot = b, !.end = e] :
        a \in {{"a", "b"}, {"b"}}, o \in {{}, {"a"}}, t \in {Targets, {"i"}},
        b \in {"RebootIfNeeded", "NoReboot"}, e \in {1, 2}}
With(windows, policies) == [windows |-> windows, policies |-> policies, organization |-> "read", fails |-> FALSE]

CalendarHome == "i" :> Here @@ "k" :> Here @@ "j" :> There
Schedules ==
    {With({w}, p) : w \in Windows, p \in {{}, {Elsewhere}}} \union
    {With(w, {p}) : p \in Policies, w \in {{}, {Window}}} \union
    {[With({}, {[Elsewhere EXCEPT !.ouAccounts = {"a"}]}) EXCEPT !.organization = "unread"],
     [With({Window}, {Policy}) EXCEPT !.fails = TRUE]}
TagHours == {Each(Targets, 2), [Each(Targets, 2) EXCEPT !["i"] = 1]}
TagReads == {Each(Targets, "read"), [Each(Targets, "read") EXCEPT !["i"] = "unreadable"]}
Sightings ==
    {Each(Targets, 99), [Each(Targets, 99) EXCEPT !["i"] = -1], [Each(Targets, 99) EXCEPT !["j"] = 0],
     [Each(Targets, 0) EXCEPT !["j"] = -1]}
Fixes == {Each(Targets, {}), Each(Targets, {"c"}), [Each(Targets, {"c"}) EXCEPT !["i"] = {}]}

Calendar == INSTANCE Schedule WITH
    Home <- CalendarHome, Cves <- {"c"}, DefaultSla <- 2, LocationsAllowed <- 2, asked <- v1, answer <- v2

-----------------------------------------------------------------------------
(* Questions: fix verification, and what the fleet, vulnerability and compliance *)
(* tools answer from two locations.                                              *)

Fix == INSTANCE FixVerification WITH
    Packages <- {"p", "q"}, MaxScans <- 2,
    clock <- v1, package <- v2, record <- v3, closed <- v4, active <- v5, gone <- v6, named <- v7, answer <- v8

FiguresHome == "i" :> "l1" @@ "j" :> "l2" @@ "k" :> "l2"

Figures == INSTANCE Answers WITH
    Things <- Targets, Home <- FiguresHome, Hub <- "l1", ReadMax <- 2,
    asked <- v1, answer <- v2

-----------------------------------------------------------------------------
(* The UI server. *)

\* Two Regions of two accounts, one instance of an account that isn't configured, one of another
\* environment, and one without the scope tag.
CountsHome ==
    "h" :> At("hub", "r1") @@ "i" :> At("a", "r1") @@ "j" :> At("a", "r2") @@ "o" :> At("b", "r1")
      @@ "k" :> At("hub", "r2") @@ "t" :> At("hub", "r2")
Environment == [Each({"h", "i", "j", "o", "k", "t"}, "dev") EXCEPT !["k"] = "prod"]

Counts == INSTANCE DashboardFleet WITH
    Instances <- {"h", "i", "j", "k", "o", "t"}, Scoped <- {"h", "i", "j", "k", "o"}, Untagged <- {"t"},
    Home <- CountsHome, Environment <- Environment, Hub <- "hub", Members <- {"a"}, Regions <- {"r1", "r2"},
    NoEnvironment <- "unknown", asked <- v1, shown <- v2, fanout <- v3

Runs == INSTANCE DashboardRuns WITH
    Runs <- {"r"}, Viewers <- {"u", "v"}, ReconcileEvery <- 1, MaxTime <- 3,
    clock <- v1, lambda <- v2, run <- v3, since <- v4, listing <- v5, sweep <- v6, read <- v7, build <- v8,
    cache <- v9, viewer <- v10

\* Two operators whose emails are the same to the memory, one more, and a viewer.
TalkNames == [by: {"email", "username"}, of: {"o", "p", "q", "v"}] \union [by: {"session"}, of: {"s"}]
TalkActor == [n \in TalkNames |-> IF n.by = "email" /\ n.of = "p" THEN [n EXCEPT !.of = "o"] ELSE n]

Talk == INSTANCE Session WITH
    Users <- {"o", "p", "q", "v"}, Operators <- {"o", "p", "q"}, Sessions <- {"s"}, Nobody <- "nobody",
    Actor <- TalkActor, ReadLimit <- 1, MaxTurns <- 2,
    cognito <- v1, jwt <- v2, emails <- v3, owner <- v4, request <- v5, memory <- v6

Does(kind, of) == [kind |-> kind, of |-> of]

\* Two tools at once; one tool twice.
Turns ==
    {<<Does("text", ""), Does("starts", "a"), Does("starts", "b"), Does("result", "a"), Does("result", "b"),
       Does("other", ""), Does("text", "")>>,
     <<Does("starts", "a"), Does("result", "a"), Does("other", ""),
       Does("starts", "a"), Does("result", "a"), Does("other", ""), Does("text", "")>>}

Reply == INSTANCE Stream WITH
    LineParts <- 2,
    turn <- v1, step <- v2, cards <- v3, wire <- v4, over <- v5, reader <- v6, buffered <- v7, tool <- v8,
    queue <- v9, browser <- v10, got <- v11

-----------------------------------------------------------------------------
\* The variables that a component doesn't use, from the n-th on.
UnusedFrom(n) ==
    /\ IF n <= 1 THEN v1 = 0 ELSE TRUE
    /\ IF n <= 2 THEN v2 = 0 ELSE TRUE
    /\ IF n <= 3 THEN v3 = 0 ELSE TRUE
    /\ IF n <= 4 THEN v4 = 0 ELSE TRUE
    /\ IF n <= 5 THEN v5 = 0 ELSE TRUE
    /\ IF n <= 6 THEN v6 = 0 ELSE TRUE
    /\ IF n <= 7 THEN v7 = 0 ELSE TRUE
    /\ IF n <= 8 THEN v8 = 0 ELSE TRUE
    /\ IF n <= 9 THEN v9 = 0 ELSE TRUE
    /\ IF n <= 10 THEN v10 = 0 ELSE TRUE
    /\ IF n <= 11 THEN v11 = 0 ELSE TRUE

\* Those from the n-th on.
From3 == <<v3, v4, v5, v6, v7, v8, v9, v10, v11>>
From4 == <<v4, v5, v6, v7, v8, v9, v10, v11>>
From7 == <<v7, v8, v9, v10, v11>>
From8 == <<v8, v9, v10, v11>>
From9 == <<v9, v10, v11>>
From11 == <<v11>>

InitOperations ==
    /\ Init
    /\ \/ component = "stop" /\ UnusedFrom(1)
       \/ component = "two stops" /\ TwoStops!Init /\ UnusedFrom(7)
       \/ component = "two runs" /\ TwoRuns!Init /\ UnusedFrom(8)
       \/ component = "one run" /\ OneRun!Init /\ UnusedFrom(8)
       \/ component = "one location" /\ OneLocation!Init /\ UnusedFrom(8)
       \/ component = "fleet scope" /\ Scope!Init /\ UnusedFrom(11)
       \/ component = "rollback of two" /\ UndoTwo!Init /\ UnusedFrom(8)
       \/ component = "rollback" /\ Undo!Init /\ UnusedFrom(8)
       \/ component = "rollback check" /\ Check!Init /\ UnusedFrom(12)
       \/ component = "schedule" /\ Calendar!Init /\ UnusedFrom(3)
       \/ component = "fix" /\ Fix!Init /\ UnusedFrom(9)
       \/ component = "figures" /\ Figures!Init /\ UnusedFrom(3)
       \/ component = "dashboard" /\ Counts!Init /\ UnusedFrom(4)
       \/ component = "dashboard runs" /\ Runs!Init /\ UnusedFrom(11)
       \/ component = "session" /\ Talk!Init /\ UnusedFrom(7)
       \/ component = "stream" /\ Reply!Init /\ UnusedFrom(12)

Step(name) == component = name /\ UNCHANGED component

NextOperations ==
    \/ Step("stop") /\ Next /\ UNCHANGED shared
    \/ Step("two stops") /\ TwoStops!Next /\ UNCHANGED vars /\ UNCHANGED From7
    \/ Step("two runs") /\ TwoRuns!Next /\ UNCHANGED vars /\ UNCHANGED From8
    \/ Step("one run") /\ OneRun!Next /\ UNCHANGED vars /\ UNCHANGED From8
    \/ Step("one location") /\ OneLocation!Next /\ UNCHANGED vars /\ UNCHANGED From8
    \/ Step("fleet scope") /\ Scope!Next /\ UNCHANGED vars /\ UNCHANGED From11
    \/ Step("rollback of two") /\ UndoTwo!Next /\ UNCHANGED vars /\ UNCHANGED From8
    \/ Step("rollback") /\ Undo!Next /\ UNCHANGED vars /\ UNCHANGED From8
    \/ Step("rollback check") /\ Check!Next /\ UNCHANGED vars
    \/ Step("schedule") /\ Calendar!Next /\ UNCHANGED vars /\ UNCHANGED From3
    \/ Step("fix") /\ Fix!Next /\ UNCHANGED vars /\ UNCHANGED From9
    \/ Step("figures") /\ Figures!Next /\ UNCHANGED vars /\ UNCHANGED From3
    \/ Step("dashboard") /\ Counts!Next /\ UNCHANGED vars /\ UNCHANGED From4
    \/ Step("dashboard runs") /\ Runs!Next /\ UNCHANGED vars /\ UNCHANGED From11
    \/ Step("session") /\ Talk!Next /\ UNCHANGED vars /\ UNCHANGED From7
    \/ Step("stream") /\ Reply!Next /\ UNCHANGED vars

Operations == InitOperations /\ [][NextOperations]_allVars

-----------------------------------------------------------------------------
(* The components' properties; their comments are in their modules.              *)

(* Every variable of every component has its type.                               *)
TypesOK ==
    /\ component = "stop" => TypeOK
    /\ component = "two stops" => TwoStops!TypeOK
    /\ component = "two runs" => TwoRuns!TypeOK
    /\ component = "one run" => OneRun!TypeOK
    /\ component = "one location" => OneLocation!TypeOK
    /\ component = "fleet scope" => Scope!TypeOK
    /\ component = "rollback of two" => UndoTwo!TypeOK
    /\ component = "rollback" => Undo!TypeOK
    /\ component = "rollback check" => Check!TypeOK
    /\ component = "schedule" => Calendar!TypeOK
    /\ component = "fix" => Fix!TypeOK
    /\ component = "figures" => Figures!TypeOK
    /\ component = "dashboard" => Counts!TypeOK
    /\ component = "dashboard runs" => Runs!TypeOK
    /\ component = "session" => Talk!TypeOK
    /\ component = "stream" => Reply!TypeOK

(* A stop leaves no location of the plan going but those it names; two at once   *)
(* do neither, and reach only what is theirs (StopReachesOwn is StopRun's).      *)
StopAnswersAll ==
    /\ EveryLocationAnswered
    /\ component = "two stops" => TwoStops!EveryLocationAnswered /\ TwoStops!StopReachesOwn

(* verify_and_proceed answers PROCEED only when every run and instance is well, *)
(* and every alarm asked about that it sees.                                   *)
ProceedIsClean ==
    /\ component = "two runs" => TwoRuns!ProceedIsClean
    /\ component = "one run" => OneRun!ProceedIsClean
    /\ component = "one location" => OneLocation!ProceedIsClean

(* It answers ROLLBACK for what failed or isn't found, never for a location    *)
(* that couldn't be read.                                                      *)
RollbackIsForFailure ==
    /\ component = "two runs" => TwoRuns!RollbackIsForFailure
    /\ component = "one run" => OneRun!RollbackIsForFailure
    /\ component = "one location" => OneLocation!RollbackIsForFailure

(* A stage passes the promotion check only after the one before it succeeded   *)
(* everywhere, recently.                                                       *)
PassedStageIsVerified ==
    /\ component = "two runs" => TwoRuns!PassedStageIsVerified
    /\ component = "one run" => OneRun!PassedStageIsVerified
    /\ component = "one location" => OneLocation!PassedStageIsVerified

(* A run starts only on instances tagged for it, in its environment and the    *)
(* OUs, when it starts.                                                        *)
StartedInScope == [][component = "fleet scope" => Scope!StartsInScope]_allVars

(* Every instance is started in its own account and Region.                    *)
StartedAtHome == component = "fleet scope" => Scope!StartedAtHome

(* A list of an environment's instances leaves none out without saying so.     *)
ListIsComplete == component = "fleet scope" => Scope!ListIsComplete

(* A rollback is planned for the last run that patched all of its instances, of  *)
(* those that are reported or pending.                                           *)
PlannedForLastRun ==
    [][/\ component = "rollback of two" => UndoTwo!PlansForLastRun
       /\ component = "rollback" => Undo!PlansForLastRun]_allVars

(* A rollback undoes all that its run began before it ended, in every location. *)
WholeRunUndone ==
    /\ component = "rollback of two" => UndoTwo!WholeRunUndone
    /\ component = "rollback" => Undo!WholeRunUndone

(* A rollback is confirmed only when what the patch run installed came off.    *)
ConfirmedCameOff == component = "rollback check" => Check!ConfirmedCameOff

(* A plan waits for a schedule only when every target will be patched within   *)
(* its SLA, and runs now only for the cause it names.                          *)
ScheduleMeetsSla == component = "schedule" => Calendar!WaitMeetsSla /\ Calendar!RunsNowForCause

(* A CVE is said to be fixed when it is, and by what fixed it.                 *)
FixIsInEffect == component = "fix" => Fix!FixedIsFixed /\ Fix!CauseIsTrue

(* A figure counts everything asked about, or says what it leaves out.         *)
FiguresTellAll == component = "figures" => Figures!FiguresTellAll

(* So do the dashboard's counts of instances and findings.                     *)
DashboardCounts == component = "dashboard" => Counts!CountsAreTrue /\ Counts!FindingsAreTrue

(* A run is on each dashboard built well after it began, in progress or        *)
(* reported.                                                                   *)
NoRunVanishes == [][component = "dashboard runs" => Runs!AnswersWithEveryRun]_allVars

(* A conversation is its owner's.                                              *)
ConversationIsOwners == component = "session" => Talk!ConversationIsOwners

(* The browser gets the whole answer in order, or is told that it doesn't.     *)
AnswerIsWhole == component = "stream" => Reply!AnswerIsWhole

=============================================================================
