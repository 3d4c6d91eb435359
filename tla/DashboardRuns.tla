----------------------------- MODULE DashboardRuns -----------------------------
(* Runs on the dashboard (ui/api/server.py): a rebuild lists the runs in progress *)
(* at most once a minute, reconciling them itself where no report Lambda does,   *)
(* then reads the reports; viewers share the rebuild and its result for a while. *)
EXTENDS Naturals, FiniteSets

CONSTANTS
    Runs, Viewers,
    ReconcileEvery,    \* _RECONCILE_EVERY_SECONDS
    MaxTime            \* bounds the clock

VARIABLES
    clock,
    lambda,       \* REPORT_LAMBDA_ENABLED
    run,          \* "none", "going", "ended", then "reported"
    since,        \* when each started
    listing,      \* _last_reconcile: [at, running, known, missed], and how long it took
    sweep,        \* the list being taken: the runs left of it, and what it has so far
    read,         \* _report_cache: the reports parsed so far
    build,        \* the rebuild under way: [at, start, ...]
    cache,        \* _dashboard_cache: what a rebuild made
    viewer        \* [at, since, joined, builtBefore] of each request

vars == <<clock, lambda, run, since, listing, sweep, read, build, cache, viewer>>

\* The clock starts after the last caches, which are of long ago, have run out.
Now0 == ReconcileEvery

View(start, running, reports, missed, warned, took) ==
    [start |-> start, running |-> running, reports |-> reports, missed |-> missed, warned |-> warned, took |-> took]
EmptyView == View(0, {}, {}, {}, FALSE, 0)
NoSweep == [left |-> {}, running |-> {}, missed |-> {}, taken |-> 0]
Idle == [at |-> "idle", view |-> EmptyView]
NoRequest == [at |-> "idle", since |-> 0, joined |-> FALSE, builtBefore |-> 0]

Init ==
    /\ clock = Now0
    /\ lambda \in BOOLEAN
    /\ run = [r \in Runs |-> "none"]
    /\ since = [r \in Runs |-> 0]
    /\ listing = [at |-> 0, running |-> {}, known |-> TRUE, missed |-> {}, took |-> 0]
    /\ sweep = NoSweep
    /\ read = {}
    /\ build = Idle
    /\ cache = EmptyView
    /\ viewer = [v \in Viewers |-> NoRequest]

Pending == {r \in Runs : run[r] \in {"going", "ended"}}
Reported == {r \in Runs : run[r] = "reported"}

Tick ==
    /\ clock < MaxTime /\ clock' = clock + 1
    /\ UNCHANGED <<lambda, run, since, listing, sweep, read, build, cache, viewer>>

\* A run and its pending report.
StartRun(r) ==
    /\ run[r] = "none" /\ run' = [run EXCEPT ![r] = "going"]
    /\ since' = [since EXCEPT ![r] = clock]
    /\ UNCHANGED <<clock, lambda, listing, sweep, read, build, cache, viewer>>

\* Its commands, too, are over.
RunEnds(r) ==
    /\ run[r] = "going" /\ run' = [run EXCEPT ![r] = "ended"]
    /\ UNCHANGED <<clock, lambda, since, listing, sweep, read, build, cache, viewer>>

\* Where the report Lambda is deployed it writes the report and takes the pending one away.
LambdaReports(r) ==
    /\ lambda /\ run[r] = "ended" /\ run' = [run EXCEPT ![r] = "reported"]
    /\ UNCHANGED <<clock, lambda, since, listing, sweep, read, build, cache, viewer>>

-----------------------------------------------------------------------------
(* A rebuild. *)

\* Another request has rebuilt the dashboard since this one came.
Shares(v) == cache.start # viewer[v].builtBefore

\* The first viewer to find nothing fresh and the lock free builds.
BuildStart(v) ==
    /\ viewer[v].at = "waiting" /\ build.at = "idle"
    /\ ~Shares(v)
    /\ build' = [at |-> "started", view |-> [EmptyView EXCEPT !.start = clock]]
    /\ viewer' = [viewer EXCEPT ![v].at = "building"]
    /\ UNCHANGED <<clock, lambda, run, since, listing, sweep, read, cache>>

BuildStep(from, to, view) == build.at = from /\ build' = [at |-> to, view |-> view]

\* The pending reports are listed first.  When they can't be, there are none.
TakeList(from) ==
    /\ build.at = from /\ build' = [build EXCEPT !.at = "listing"]
    /\ clock - listing.at >= ReconcileEvery
    /\ \/ sweep' = [NoSweep EXCEPT !.left = Pending, !.taken = clock]
       \/ sweep' = [NoSweep EXCEPT !.missed = Pending, !.taken = clock]
    /\ UNCHANGED <<listing, run>>

\* Then each run is read in turn, by when it may have ended or be reported.  One that can't be read
\* is neither listed nor reported.
Reconcile(r) ==
    /\ build.at = "listing" /\ r \in sweep.left
    /\ \/ /\ run[r] # "reported"
          /\ sweep' = [sweep EXCEPT !.left = @ \ {r}, !.missed = @ \union {r}]
          /\ UNCHANGED run
       \/ /\ run[r] = "going"
          /\ sweep' = [sweep EXCEPT !.left = @ \ {r}, !.running = @ \union {r}]
          /\ UNCHANGED run
       \/ /\ run[r] = "reported" \/ (run[r] = "ended" /\ ~lambda)
          /\ sweep' = [sweep EXCEPT !.left = @ \ {r}]
          /\ run' = [run EXCEPT ![r] = "reported"]
    /\ UNCHANGED <<listing, build>>

ListTaken(running, known, missed) ==
    listing' = [at |-> clock, running |-> running, known |-> known, missed |-> missed, took |-> clock - sweep.taken]

WithRunning(view) ==
    [view EXCEPT !.running = listing'.running, !.missed = @ \union listing'.missed, !.warned = @ \/ ~listing'.known,
                 !.took = listing'.took]

\* The list is dated when the last is read, or one raises.
DateList(to) ==
    /\ \/ sweep.left = {} /\ ListTaken(sweep.running, TRUE, sweep.missed)
       \/ ListTaken({}, FALSE, {})
    /\ BuildStep("listing", to, WithRunning(build.view))
    /\ sweep' = NoSweep
    /\ UNCHANGED run

\* _running_operations: a list lately made, or one made now.
RunningOperations(from, to) ==
    \/ /\ clock - listing.at < ReconcileEvery
       /\ UNCHANGED <<listing, sweep, run>> /\ BuildStep(from, to, WithRunning(build.view))
    \/ TakeList(from)
    \/ \E r \in sweep.left : Reconcile(r)
    \/ DateList(to)

\* Reports that couldn't be read in time wait for the next rebuild; the bucket, or a month, that
\* can't be listed is said.
ReadReports ==
    \/ \E got \in SUBSET (Reported \ read) : read' = read \union got
    \/ UNCHANGED read

WithReports(view) ==
    [view EXCEPT !.reports = read', !.missed = @ \union (Reported \ read')]

\* The reports first: not what the code does.
FetchReportsFirst ==
    \/ ReadReports /\ BuildStep("started", "listed", WithReports(build.view)) /\ UNCHANGED <<listing, sweep, run>>
    \/ RunningOperations("listed", "read") /\ UNCHANGED read

\* _fetch_reports: the runs in progress, then the reports, or a warning.
FetchReports ==
    \/ RunningOperations("started", "listed") /\ UNCHANGED read
    \/ /\ ReadReports /\ BuildStep("listed", "read", WithReports(build.view))
       /\ UNCHANGED <<listing, sweep, run>>
    \/ /\ BuildStep("started", "read", [build.view EXCEPT !.warned = TRUE])
       /\ UNCHANGED <<listing, sweep, read, run>>

BuildEnds(v) ==
    /\ viewer[v].at = "building" /\ build.at = "read"
    /\ cache' = build.view /\ build' = Idle
    /\ viewer' = [viewer EXCEPT ![v] = NoRequest]
    /\ UNCHANGED <<clock, lambda, run, since, listing, sweep, read>>

-----------------------------------------------------------------------------
(* Requests. *)

\* One that finds the cache fresh, and doesn't force a refresh, is answered from it at once and
\* changes nothing; any other waits.
Ask(v) ==
    /\ viewer[v].at = "idle"
    /\ viewer' = [viewer EXCEPT ![v] =
          [at |-> "waiting", since |-> clock, joined |-> build.at # "idle", builtBefore |-> cache.start]]
    /\ UNCHANGED <<clock, lambda, run, since, listing, sweep, read, build, cache>>

Share(v) ==
    /\ viewer[v].at = "waiting" /\ build.at = "idle" /\ Shares(v)
    /\ viewer' = [viewer EXCEPT ![v] = NoRequest]
    /\ UNCHANGED <<clock, lambda, run, since, listing, sweep, read, build, cache>>

Next ==
    \/ Tick
    \/ \E r \in Runs : StartRun(r) \/ RunEnds(r) \/ LambdaReports(r)
    \/ FetchReports /\ UNCHANGED <<clock, lambda, since, cache, viewer>>
    \/ \E v \in Viewers : Ask(v) \/ BuildStart(v) \/ BuildEnds(v) \/ Share(v)

Spec == Init /\ [][Next]_vars

-----------------------------------------------------------------------------
TypeOK ==
    /\ clock \in Now0..MaxTime
    /\ run \in [Runs -> {"none", "going", "ended", "reported"}] /\ since \in [Runs -> 0..MaxTime]
    /\ listing.running \subseteq Runs /\ read \subseteq Reported
    /\ sweep.left \union sweep.running \union sweep.missed \subseteq Runs
    /\ build.at \in {"idle", "started", "listing", "listed", "read"}

\* Begun long enough before the rebuild that the list of runs it uses has it: that list was dated
\* within a minute, when the last of its runs had been read.
Old(r, view) == run[r] # "none" /\ since[r] + view.took + ReconcileEvery <= view.start

Answered(v) == viewer[v].at # "idle" /\ viewer'[v].at = "idle"

(* Each run begun a minute before the rebuild, and as long as the list it uses   *)
(* took, is on the dashboard, in progress or reported, however long the rebuild  *)
(* takes and whatever ends or is reported meanwhile, unless it couldn't be read  *)
(* or has ended and its report is the Lambda's to write; and whoever waits gets  *)
(* a rebuild begun since he asked, or under way then (_running_operations;       *)
(* _fetch_reports; dashboard: "concurrent requests wait for it and share the     *)
(* result").                                                                     *)
AnswersWithEveryRun ==
    \A v \in Viewers : Answered(v) =>
        /\ cache'.start >= viewer[v].since \/ viewer[v].joined
        /\ cache'.warned \/ \A r \in Runs : Old(r, cache') =>
                                r \in cache'.running \union cache'.reports \union cache'.missed

(* What couldn't be read is warned of: not so, see the findings.                 *)
UnreadIsWarned ==
    cache.warned \/ lambda
        \/ \A r \in Runs : Old(r, cache) => r \in cache.running \union cache.reports

=============================================================================
