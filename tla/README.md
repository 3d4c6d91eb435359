# Patchy in TLA+

Patchy is an assistant that patches EC2 fleets: an operator asks for a change in
a conversation, the agent stores a *plan*, the operator approves it in the UI,
and the agent runtime starts AWS Systems Manager (SSM) Automation executions
that patch or roll back the instances. When an execution is over, a *reconciler*
writes its compliance report.

These modules model the records those processes share (the approval of a plan,
the start of its runs, the writing of their reports), and the operations around
them: Stop, rollback and its check, staged promotion, the scope of a plan, the
answers to questions about the fleet, the dashboard and the conversation.
Paths below are relative to the repository; a file already named goes by its last
component.

## The system

| Component | State it keeps | Operations |
|---|---|---|
| **Change approval** (`agent/helper/plans.py`, `ui/api/server.py`) | S3 records `plans/`, `plan-decisions/`, `plan-runs/`, each created once | store a plan; approve, retry an approval, cancel; claim an approved plan |
| **Starting a run** (`agent/helper/tools/plan_tools.py`, `run_guard.py`, `patch_tools.py`, `_shared.py`) | `run-locks/start.json`, `run-executions/`, `pending-reports/`, `plan-executions/`; executions in SSM | take and release the start lock; run guard; start one execution per account and Region; record it; write its pending report; list the plan's executions |
| **Compliance reports** (`ui/api/reconcile.py`, `ui/api/report_handler.py`) | `pending-reports/`, dated reports | list pending reports; read a run's status and outcomes; write its report; delete the pending report; drop one that is too old |
| **Stop** (`plan_tools.stop_run`, `patch_tools.emergency_stop`) | none of its own: reads `run-executions/`, `plan-executions/` | stop every execution of the plan, answer for each |
| **Rollback** (`rollback_window.py`, `plan_tools.py`, `patch_tools.verify_rollback`) | a plan with its window; the snapshots taken around a patch run | choose the last run, undo what it installed, scan and compare |
| **Staged promotion** (`maintenance_tools.py`, `change_controls.py`) | promotion records | verify a plan in one environment; require it for the next |
| **Change calendar, maintenance windows, plan preview** (`maintenance_tools.py`, `coverage.py`, `forecast.py`) | SSM | deadline of a plan, whether a schedule meets it; create a window and undo it on failure |
| **Fix verification** (`verification.py`) | none | whether a CVE is fixed on an instance, and why not |
| **Scope of a plan** (`_shared.py`) | caches of the fleet view and of the organization's accounts | check a plan's instances when it is made and when it starts; list an environment |
| **Fleet, vulnerability and compliance questions** (`fleet_tools.py`, `vulnerability_tools.py`, `compliance_tools.py`, `patch_tools.py`) | – | count, and say what wasn't counted |
| **Conversation ownership** (`supervisor.py`, `caller.py`) | `session-owners/`, the conversation's memory | claim a conversation; read it back |
| **Chat agent, steering** (`supervisor.py`, `cards.py`, `stream_filter.py`, `steering.py`) | a turn's cards | run a turn and stream it |
| **UI server** (`ui/api/server.py`) | dashboard cache, list of runs in progress, rate limits | proxy to the runtime; rebuild the dashboard |
| **UI frontend** (`ui/frontend/src`) | windows sharing a channel and storage | stream a turn, pop out a window, poll runs, sign out when idle |
| **Infrastructure, evaluation** | – | declares resources; development tooling |

How they interact. The UI server writes a plan's decision and invokes the
runtime with `run_plan`. The runtime reads plan and decision from S3, claims the
plan, starts SSM executions and leaves a pending report for each. The report
Lambda (on a run's final event, and every five minutes) turns pending reports
into reports. The run guard of every later start reads the pending reports to
know which runs may still be patching: so the reconciler, by deleting them,
decides what the guard can see. No component calls another in-process across
this chain; all meet in S3 and SSM, one request at a time, with no transactions
besides `If-None-Match` and `If-Match`.

What is hard here: several runtimes and server threads interleave at each S3
call; a check is out of date when its result is used; a process dies between two
writes; a reply is lost and the call is sent again; locks, plans, approvals and
pending reports run out. `PROJECT.json` lists each such hazard at its line.

What makes each component correct:

- *approval*: a plan runs at most once; only after an operator's approval in its
  own conversation that is still fresh; never once cancelled;
- *starting*: two plans' runs never patch the same instances at once; every run
  SSM has started is on record; a rollback never starts while a newer patch run
  is unreported; a dead starter blocks nobody for good;
- *reports*: one report per run, complete once its commands are done, never
  changed, never lost; nothing stays pending for ever;
- *stop*: no execution of the plan is left going on but those the answer names;
  nobody stops another conversation's run;
- *rollback*: it is planned for the last run that patched its instances, undoes
  all that run's transactions, and is confirmed only when they came off;
- *promotion*: PROCEED only when every location is well; a stage passes only
  after the one before it succeeded everywhere, recently;
- *scope*: a run starts only on instances tagged for it and in its environment
  at that moment, each in its own account and Region;
- *schedules*: a plan waits only when each target will be patched in time;
- *questions, dashboard*: what isn't counted is named; a run is in progress or
  reported, unless it couldn't be read or has ended and its report is the
  Lambda's to write;
- *conversation*: it holds one owner's turns, or gives each user back his own;
  a reply arrives whole, in order, or is said to be cut off;
- *frontend*: one of two windows acts on a request; a late answer never replaces
  a newer one.

## The modules

| Module | Models | Checked with |
|---|---|---|
| `ChangeApproval` | abstract: a change is proposed, then approved or cancelled once, and run at most once after approval | refined by `Approval` |
| `Approval` | the UI server's handlers and the runtime's claim, one S3 call per step | `MCApproval`, `Approval_proofs` |
| `RunLife` | abstract: an execution, its commands, its pending report | refined by `RunStart` and by `Reconcile` |
| `RunStart` | `run_approved_plan` | `MCRunStart`, `RunStart_proofs` |
| `Reconcile` | `_reconcile_pending_reports` | `MCReconcile`, `Reconcile_proofs` |
| `StopRun` | `stop_run` and `emergency_stop`, over what a start leaves on record | `MCOperations`, `StopRun_proofs` |
| `Promotion` | `verify_and_proceed`, `stage_check` | `MCOperations`, `MCPromotion`, `Promotion_proofs` |
| `FleetScope` | the checks of an instance plan and the lists and caches they read | `MCOperations`, `FleetScope_proofs` |
| `Rollback` | patch runs and their reports as a rollback sees them, `last_patch_run`, the rollback's plan and start | `MCOperations`, `MCRollback`, `Rollback_proofs` |
| `RollbackCheck` | `verify_rollback`, its scan and snapshots | `MCOperations`, `Rollback_proofs` |
| `Schedule` | the SLA deadline, `coverage.check`, the answer to an unconfirmed plan | `MCOperations`, `Approval_proofs` |
| `FixVerification` | `verify`, `classify` | `MCOperations`, `Promotion_proofs` |
| `Answers` | what seven questions count and name as not counted | `MCOperations`, `MCAnswers`, `FleetScope_proofs` |
| `DashboardFleet` | the dashboard's counts of instances and findings | `MCOperations`, `MCDashboardFleet`, `Session_proofs` |
| `DashboardRuns` | its rebuild, shared by viewers, and the runs in it | `MCOperations`, `Session_proofs` |
| `Session` | roles, `claim_session`, the memory of a conversation | `MCOperations`, `MCSession`, `Session_proofs` |
| `Stream` | one turn's reply from the agent to the browser | `MCOperations` |

`RunLife` is where `RunStart` and `Reconcile` meet. `RunStart` has the
reconciler as one action, `Reconcile(e)`, that waits for the run's commands;
`Reconcile` has the runtime as two, `StartRun` and `WriteContext`. Each module
shows its own side implements `RunLife`, so what one assumes of the other is
what the other does (under the assumption, named below, that commands finish
within three hours). Both refinements are checked by TLC and proved.

### Approval

`requests` are the server's handlers, `attempts` the runtime's. A handler's
checks (`ReceiveApprove`, `ReceiveCancel`) and its write (`RecordApproval`,
`RecordCancel`) are separate steps, with the clock and every other handler in
between. When the write finds a decision, `ApprovalConflict` and `RetryApproval`
read it and `plan-runs/`, each in a step of its own. `InvokeRuntime` may leave
the request to be sent again: the SDK retries, and the operator may click again.
`InvokeDirectly` is a caller that reaches the runtime without the UI.
`CheckApproval` and `ClaimPlan` split `claim_plan` between its last check and its
conditional put. A plan's contents are written once, so its hash is not modelled.

### RunStart

Each invocation of `run_approved_plan` is an attempt that goes through

    lock -> (takeover) -> (unreported) -> list -> guard -> claim
         -> start <-> record -> report -> close -> release -> done

with a step per S3 or SSM call. `unreported` is a rollback's own check. A step
that the code may leave early for a reason not modelled (calendar, an unreadable
status, the install list, a stale approval) has a refusal that may always
happen: `RefuseBeforeLock`, `RefuseUnderLock`. Executions are pairs of a plan
and a location because every start carries a `ClientToken` of the two. `Faults`
is a constant that names which failures an instance has.

- A *location* is an account and Region with the instances a plan names there;
  `overlaps` is whether two scopes share one. A tag-based run over several
  accounts is one execution, that is, a plan with one location.
- The order in which locations are started is left open; the code's is fixed.
- The ETag of the lock is who put it and whether it was released. The body of
  every put names the plan and the time, and an attempt puts at most twice.
- `active_runs` counts a run that ended early for `FINISHING_HOURS` (3 h), and
  the guard lists the pending reports of the last 24 h. The model has the first
  outlast the commands and the second outlast the run.

### Reconcile

`List` is the listing, for one run (`RunEndEvent`) or all (`Sweep`); then, for
each pending report, `ReadContext`, `ReadStatus`, `CheckReport`, `CountOutcomes`,
`WriteReport`, `DeleteContext`. Any of them may fail (`CallFails`); the pending
report is then kept, or dropped once it is `PENDING_MAX_AGE_DAYS` old. Where the
report exists already, `DeleteContext` is the step "clean up", and one that fails
(`CleanUpFails`) is passed over at any age: the pending report of a reported run
may stay, which keeps nothing waiting.

A location whose outcomes can't be read is `unread` and marks the report as
incomplete. One whose executions aren't found, because the listing of the run's
children failed or they are nested too deep, is `missed` (fault `"children"`)
and marks nothing; `missed` is kept beside the report, for the properties to
speak of. `CountOutcomes` reads all locations in one step: an ended run sends
nothing more, so a location seen finished stays so, and one seen in flight keeps
the report waiting as it would have at that moment. The dashboard with the
Lambda deployed only lists (`write=False`) and changes nothing. A pending report
that isn't valid JSON, which the runtime never writes, is left out, as are run
notifications.

`MayTick` bounds the clock by what the code relies on: a run and its commands
are over well before seven days, and, unless `"overrun"` is among the faults,
its commands are done within `COMMANDS_FINISH_HOURS` of its end.

### StopRun

`StartExecution`, `ListExecutions` and `ExecutionEnds` are the start of a plan as
Stop sees it: each execution's record is written as it starts, the plan's list
when the start is over, and either write may fail for good. A request is `Ask`
(the server knows only runs of the conversation it is asked from), `FindRuns`
(`_plan_run_ids`), `StopExecution` for each, in any order, and `Answer`. Two
requests, runs that end and starts that go on interleave with every step.
`RunCard` and `StopCard` are what the operator has been told.

### Promotion

Runs of a plan end location by location; a run succeeds as a whole with failed
locations within its error limit (`RunEnds`). `VerifyRuns` answers from the runs
alone; `VerifyHealth` goes on to instances and alarms and leaves a verification
in flight; `RecordPromotion` writes the stage's record. So the clock, and other
verifications, come between what was checked and what is recorded. `Seen` says
how much of a run's status could be read. With `"places"` among the faults, the
place of an instance may be unknown: the code then looks for it, and for its
alarms, in the hub, so that it answers no ping (`"unplaced"`) and its alarms are
`astray`. An answer also keeps the truth of that moment: which instances and
alarms were well (`Well`), and which of them were seen. `named` are the alarms
the request's pattern leaves in.

### FleetScope

The world (`OwnerChanges`, `LeaveOU`) changes under the view, which SSM Explorer
fills late (`Ingest`), and under two caches with their own lifetimes.
`MakePlan` and `Start` run the same checks at two times: `Found` is
`_validate_instance_scope`, `EnvironmentMatches` the environment's check,
`Group` where each instance is sent. `failing` and `failingAgain` are the
locations that don't answer at each lookup. `ListEnvironment` is
`environment_instances`, with what it names as unread.

### Rollback and RollbackCheck

In `Rollback`, the executions of a plan begin together (`Begin`), and leave their
pending reports some time later, or never (`WritePending`, fault `"pending"`).
They succeed or are stopped (`End`); the commands of a stopped one go on, and may
begin their package transaction (`Install`) until its report has waited for them,
or after it if they outlast `COMMANDS_FINISH_HOURS` (`WaitedLong`). `Report` is
the reconciler's, as far as a rollback sees it. What the code knows of runs are
reports and `Unreported`, the pending reports younger than `LOOKBACK_HOURS`.
`PlanRollback` chooses the run from the reports, `Window` joins those of one
plan, and `StartRollback` looks for unreported runs again before it undoes.
`RollbackPatches` and `MultiAccountRollback` are its two forms: by instance ID
and by environment.

`RollbackCheck` is what comes after: executions that succeed where there was
nothing to undo, a scan that a first call of `verify_rollback` starts and later
ones await, and the comparison with the snapshots from before and after the
patch run. Patch names are abstracted to how many are missing and installed.

### Schedule, FixVerification, Answers, DashboardFleet

`Schedule` and `Answers` are one question to one world: the world is chosen in
`Init` with every combination of what can't be read, and the property compares
the answer with the world rather than with what was read of it. In `Answers`,
`left` are the accounts that a failed OU lookup leaves out of the scope.

`DashboardFleet` is one rebuild in one world. Explorer's instances are counted in
a step; the fan-out merges its locations one by one (`StartFanout`,
`MergeLocation`, `ShowFanout`), in any order that `ComesNext` allows. `Listed`
tells the blocks of an environment apart: one of a location with untagged
instances only has no patch compliance, and what `AddAll` does with it depends on
which block came first.

In `FixVerification` the world goes on: packages are installed, wait for a reboot
and are rolled back, the patch records and Inspector's findings follow at their
own times, and the answer is judged when it is given.

### DashboardRuns

`BuildStart`, the steps of `FetchReports` and `BuildEnds` are one rebuild. The
list of runs in progress is up to `ReconcileEvery` old, or made now: `TakeList`
lists the pending reports, `Reconcile(r)` reads one run (and reports it, where
no Lambda does), `DateList` dates the list when the last is read. The reports
are read after it. Runs begin and end, and the Lambda reports them, between any
two of these. `took` is how long a list took: a run begun after it was taken is
not on it, though it was there before the list's date. `Ask` and `Share` are
viewers that wait for the rebuild and share its result.

### Session and Stream

A turn reaches the runtime through the UI, or straight with one's own token.
`PutOwner` is the conditional put, `ReadOwner` the read by whoever lost.
`Turn` keeps the turn under `Actor` of the name the runtime knows the user by: a
constant function, because `_build_actor_id` replaces characters and so may make
two names the same. Of signed-in users that name is the email or the username; a
caller with an API key has no name but the session's (`BySession`), and reads no
history. `History` is what the UI reads back: the last `ReadLimit` turns (50 in
the code) of the user's actor. `MaxTurns` bounds a conversation in TLC's runs.

In `Stream`, `AgentStep` sends an event and the cards left so far, `ReadChunk`
gets some lines and part of one, and `Deliver` hands the browser what the
reader's thread has queued. The agent may raise, the connection may be lost, the
browser may leave, at any step.

## The runs

| Run | Instance | Shows |
|---|---|---|
| `steady` | two plans sharing one of two locations, three attempts | `OneStartAtATime`, `NoOverlap`, `EveryRunTracked` while starts and releases fail but nothing dies |
| `rollback` | the same, the second plan a rollback, listings fail | `RollbackAfterReports` |
| `crash` | both plans in one location, three attempts; runtimes die, replies and pending reports are lost | `NoReportedOverlap`: runs overlap only when one left no pending report; `ImplementsRunLife` |
| `claim` | two attempts at once at any plan, slow starts, crashes, failed listings | `StartedByOneAttempt` |
| `live` | fair attempts and clock | `LockRecovers`, `AttemptsEnd` |
| `duplicate` | a plan invoked again while it is starting | **violates** `OneStartAtATime`: see Findings |
| `approval` | one plan, two conversations, two operators and a viewer, two requests, two runtime calls, time limits 2 and 1 of 3 ticks | `RunsOnce`, `ClaimIsApproved`, `CancelIsFinal`, `ImplementsChangeApproval` |
| `report` | one run over two locations, two reconcilers, every fault | `ReportTellsAll`, `NoReportLost`, `ReportStands` |
| `guard` | the same; commands finish in time and are found | `ImplementsRunLife` |
| `settled` | two runs, one reconciler, fair | `EveryRunSettled` |
| `unknown` | the report's existence can't be told | **violates** `EveryRunSettled`: see Findings |
| `operations` | the other modules, see below | the 19 properties of the next table |

### The counterexamples

Beside these runs, eleven configurations show findings. TLC ends each, in seconds,
with a violation of its one property, which a comment or the documentation
states: `tlc -config MCPromotion_quiet.cfg MCPromotion`, and so on.

| Configuration | Instance | Violated |
|---|---|---|
| `MCReconcile_missed` | one run over two locations, one reconciler; child executions may not be listed | `ReportIsMarked` |
| `MCRollback_begun`, `_stopped`, `_newer` | a plan of a run in each of two accounts, and a run of the environment in one; margins of 1, `CommandsFinish` 2, a clock of 3 and nothing lost | respectively `PlansForLastBegun`, `EveryTransactionUndone`, `LastRunUndone` |
| `MCPromotion_quiet`, `_unread` | a plan of one location and one alarm; the location may not be found | `ProceedIsQuiet`, `UnreadNeverRollsBack` |
| `MCAnswers_unresolved` | two instances in two locations | `UnresolvedIsTold` |
| `MCDashboardFleet_sum`, `_told` | four instances in two Regions of two accounts, one untagged | `ComplianceIsSummed`, `EveryInstanceIsTold` |
| `MCSession_restored`, `_own` | two operators with one actor, one conversation | `HistoryIsRestored`, `HistoryIsOwn` |

One more, `MCRollback_undo`, passes: the three executions of `MCRollback` together, 1.7
million states, where `operations` has them in two instances.

### The runs of RunStart, Approval and Reconcile

Bounds, and why they are enough. Two plans with one shared and one private
location are the smallest scopes that overlap without being equal; a start over
two locations can fail half way. Three attempts let a third start in the gap two
others leave. `LockSeconds` is 1 or 2 ticks: only whether the lock has expired is
ever asked. One plan suffices in `Approval` because no guard relates two. The
clock reaches past both time limits. In `Reconcile`, two locations let some
outcomes be final and others not, and two reconcilers are the smallest race.

`CHECK_DEADLOCK FALSE` stands in the configurations of `RunStart`: each attempt
runs once, so when all have ended and all runs are reported the system stops. In
the other two it never stops, and deadlock is checked.

### The run `operations`

The remaining components share no record with one another at the
grain of these modules, so one run holds them side by side: `component`, chosen
in the initial state, says whose behaviour it is, and the others' steps leave
everything unchanged. `StopRun` is extended; the others are instances, which use
the variables `v1` ... `v11` in turn. The states are the sum of the components',
2.3 million, and a property of the run speaks of its own component only. Nothing
is claimed of their composition.

| Component | Instance | Properties |
|---|---|---|
| `stop` | one request; two plans of one conversation, one of two locations; a second conversation; every fault | `StopAnswersAll`, `StopReachesOwn` |
| `two stops` | two requests, one plan of two locations; every fault | `StopAnswersAll` |
| `two runs` | a dev plan of two locations as two runs; unreadable runs | `ProceedIsClean`, `RollbackIsForFailure`, `PassedStageIsVerified` |
| `one run` | the same as one run, with an alarm, and locations that can't be listed | the same |
| `one location` | a plan of one location, with an alarm; instances that can't be placed | the same |
| `fleet scope` | an instance of the hub, and one of a spoke that its owner changes | `StartedInScope`, `StartedAtHome`, `ListIsComplete` |
| `rollback of two` | a plan of two runs, one in each of two accounts; pending reports and durations lost | `PlannedForLastRun`, `WholeRunUndone` |
| `rollback` | a plan of one run in both accounts, and a run of the environment in one; pending reports lost | the same |
| `rollback check` | two instances, each in its own location | `ConfirmedCameOff` |
| `schedule` | three targets in two locations; windows and policies with each way they may fall short | `ScheduleMeetsSla` |
| `fix` | two packages, two looks of Inspector | `FixIsInEffect` |
| `figures` | three instances in two locations, two reports read at most, accounts that can't be looked up | `FiguresTellAll` |
| `dashboard` | two Regions of two accounts with an instance of each, one of another environment, one without the scope tag; one of an account that isn't configured | `DashboardCounts` |
| `dashboard runs` | one run, two viewers, a list kept for 1 of 3 ticks | `NoRunVanishes` |
| `session` | three operators, two of them with one actor, and a viewer; one conversation of two turns, of which one is read; both authentication modes | `ConversationIsOwners` |
| `stream` | two tools at once; one tool twice; lines that arrive in two parts | `AnswerIsWhole` |

`TypesOK` is the type invariant of all of them. `CHECK_DEADLOCK FALSE`, because
each instance finishes: requests are asked once, clocks are bounded.

Why these bounds. What these properties can be violated by is one location,
instance, package or account that differs from another: hence two of each. Stop
needs a second plan, to be left alone, and a second request, to cancel what the
first is about to. A promotion's record counts until two ticks after its run
ended, and the clock has three: a record can be fresh and can expire, and a
verification can be in flight across a tick. An instance of the hub is where
unknown instances are sent by default; one that changes is enough, since the
checks treat each instance by itself. A rollback must choose between two runs, in
either order, and join the two reports of one; clocks of 2 let a pending report be
late or past the look-back (1), and commands outlast the wait (1); the window's
margins are 0, so that `WholeRunUndone` has nothing to spare. The schedules list one window and one
policy at a time, each fault alone and the pairs that meet in one check. Two
looks of Inspector let a finding be closed and opened again. In `figures`, two
reports of three show the limit. In `dashboard`, the location with an untagged
instance only of an environment is one of two of the hub's, so it may be merged
first or later. In `dashboard runs`, a run may begin, end and be reported within
one rebuild, and within the taking of one list. A claim can be between two
racing first turns and a viewer; two turns, of which the UI reads one, let the
limit cut; and of three operators two share an actor and one doesn't.

Instances that leave out what the code is exposed to, because the property is
false of the code there (see Findings): `two runs` and `one run` have neither
`"list"` nor `"plan"` among the faults, and fewer alarms than are shown;
`rollback check` has `Releases = 0`; `schedule` has one CVE, and windows of one
location that match instances of that location only. Other properties name the
exception themselves: `FiguresTellAll` (`Silent`), `CountsAreTrue`
(`SilentlyLeftOut`, `UntaggedOnly`), `ConversationIsOwners` (`Namesakes`),
`RollbackIsForFailure` and `ProceedIsClean` (what is looked for in the hub).

### Fairness

`RunStart`: weak fairness of each attempt's own steps (a Python thread goes on
until it returns or its process dies; SSM and S3 calls time out) and of the
clock. Nothing is assumed of SSM or of crashes. `Reconcile`: weak fairness of a
reconciler's steps and of the clock; strong fairness of `Sweep`, because the
EventBridge rule in `infra/lib/ui-stack.ts` fires every five minutes whatever
run-end events do; and weak fairness of a run's end and of its commands' end,
because SSM enforces time-outs on both. Calls that fail are not assumed to stop
failing: that is what the age limit is for. Only the deletion that drops an old
report is assumed to succeed. The other modules state no fairness: what is
checked of them is safety.

## Findings

Two are runs, the next eleven are counterexamples; each goes by the name of its run
or configuration.

- `duplicate`. `take_start_lock` lets an attempt at the plan that already holds
  the lock take it over. That attempt is then refused by the run guard or by the
  claim, and marks the lock released, with its own ETag, while the first attempt
  is still starting executions whose pending reports are not written. A third
  attempt, at another plan, takes the lock and passes the guard. The second
  attempt comes about when the approver asks again before `plan-runs/` is
  written, or the invocation is sent again. `docs/architecture.md:161` says one
  patch or rollback plan starts at a time.
- `unknown`. When `head_object` on the dated report fails with anything but
  not-found, the reconciler goes on without looking at the pending report's age
  (`reconcile.py:683-687`). The comment at `reconcile.py:865` says a file that
  keeps failing is dropped past the age limit. The delete of an already reported
  run's pending report (`reconcile.py:680`) is in the same `try` and has no age
  limit either; what stays is of a run that has its report.
- `missed`. A failed listing of child executions is taken for an empty one
  (`reconcile.py:382-384`), and steps nested below the third level are passed
  over (`:281-282`). Nothing marks the report as incomplete, and it is written,
  and the pending report deleted, though commands may go on there. The docstring
  says a lookup that fails makes the counts `incomplete` (`:194-195`).
- `begun`. A run that has begun has no pending report until all its locations
  have started (`patch_tools.py:1003`), and none if the write fails
  (`_shared.py:1829-1835`); a rollback is planned without the lock
  (`plan_tools.py:508`). So an older run is chosen, against
  `run_guard.py:119-120`: "the last reported run is the wrong one to undo".
- `stopped`. The window ends five minutes after the run's end
  (`rollback_window.py:153`); commands of a stopped run may go on for hours, and
  a transaction they begin later is not undone. The module says such a run
  counts (`rollback_window.py:5-7`). The rollback's plan does warn of it
  (`:168`).
- `newer`. The run is chosen when the rollback is planned, not again when it
  starts (`plan_tools.py:784`): one that is run and reported in between is not
  the one undone. `rollback_window.py:3` says the *last* finished run is.
- `quiet`. The alarms of an instance that can't be placed are looked for in the
  hub (`_shared.py:1283-1285`, `1316-1320`), where it has none: PROCEED while
  one fires. The comment says such an instance "is unknown, not healthy"
  (`maintenance_tools.py:789-790`). (An alarm outside `alarm_pattern` is left
  out because the request asks for it: no finding, and `named` in the model.)
- `unread`. The same instance isn't known to the hub's SSM and comes back
  UNREACHABLE (`maintenance_tools.py:671`, `705-711`): ROLLBACK. The code says
  instances it couldn't read "mustn't count towards a rollback" (`:687-688`).
- `unresolved`. A failed OU lookup leaves accounts out of the scope, and
  `get_fleet_overview` (`fleet_tools.py:108`, `158`) and `get_patch_compliance`
  (`patch_tools.py:85`, `228`) don't say so. `_shared.py:681` says reads do.
- `sum`. An environment's patch counts are added only when neither side's are
  empty (`server.py:2041`), and a location with untagged instances only gives
  empty ones (`:2184`): merged first, it leaves the environment without any
  compliance. The comment says they are summed (`:2040`).
- `told`. The dashboard leaves out, without a word, instances that EC2 knows and
  Explorer doesn't of a location that can't be read (`server.py:1768`), though
  `:1844-1845` says to "say so instead of leaving them out of every total".
- `restored`. In JWT mode the memory is written under the email
  (`supervisor.py:126-131`) and read under the username (`server.py:1293-1294`):
  a reload restores nothing. `docs/architecture.md:284` says it does.
- `own`. Two emails that differ only in characters that aren't letters, digits,
  `-`, `_` or `/` become one actor (`agent_factory.py:47-48`), and each reads
  the other's turns of a conversation both write in. `docs/architecture.md:282`
  says memories are scoped per operator. It takes IAM mode, where conversations
  have no owners.

Further disagreements between the code and what its comments, documentation or
messages say were met while modelling; no configuration shows them.
`FinishedCardIsTrue`, `MissingIsTrue`, `EveryFigureTellsAll`, `UnreadIsWarned`
and `CutOffIsTold` are definitions that nothing checks because the code does not
satisfy them. The other properties named here are checked in `operations`, where
the instance leaves the case out or, for `FixedIsFixed`, the property excepts
it.

- *Stop.* `FinishedCardIsTrue`: the card says that every location had already
  finished when one had and the stop of another failed (`plan_tools.py:954`).
- *Promotion.* `PassedStageIsVerified`, with `"list"` among the faults: a plan
  whose list was not saved is taken to have one run
  (`maintenance_tools.py:916`). `ProceedIsClean`, with an unreadable plan: the
  instances the request names are checked instead and the plan's environment is
  promoted (`:1065`); and only the first five alarms without data are looked at
  (`:843`). `MissingIsTrue`: a verification of an older run replaces the newer
  record (`change_controls.py:126`).
- *Rollback.* `ConfirmedCameOff`, with patches released since, or with a
  snapshot from before the run only (`patch_tools.py:1459`).
- *Schedule.* `WaitMeetsSla` in full: a window of another account and Region
  counts (`coverage.py:307`), and one CVE's approved fix stands for all of the
  plan's (`coverage.py:226`).
- *Fix verification.* `FixedIsFixed`, when EC2 can't be read: a terminated
  instance's finding counts as fixed (`verification.py:182`).
- *Questions.* `EveryFigureTellsAll`: `assess_fleet_impact`
  (`vulnerability_tools.py:445`), `resolve_execution_scope`
  (`fleet_tools.py:214`), the history of reports (`compliance_tools.py:87`) and
  compliance by instance ID (`patch_tools.py:199`) leave out what they couldn't
  read without saying so.
- *Dashboard.* `UnreadIsWarned`: a failed listing of pending reports is cached
  as no runs (`reconcile.py:602`).
- *Conversation.* `CutOffIsTold`: a turn the agent fails ends as if it were
  whole (`server.py:690`).

## What is proved

Eight modules hold proofs, five of them of other components too, instantiated
under a name of their own. Each theorem is about every value of the constants,
and of the faults but those it names as left out. Where it leaves faults out,
the property is false with them: that is what a fault of the model is for, and a
run or a finding shows it. The invariants were checked by TLC on the runs'
instances first.

`RunStart_proofs`, for every set of plans, locations, scopes and attempts and
every `LockSeconds`, from `RunStartAssumption` alone:

- `TypeCorrect`: `Spec => []TypeOK`. `TypeOK` is not inductive: what an attempt
  puts in the lock is `plan[a]`, and what it records is `current[a]`, which may
  be `None`. `WellFormed` adds that an attempt that has begun has a plan and one
  about to record has an execution.
- `OneStart`: when neither `"slow"` nor `"duplicate"` is among the faults,
  `Spec => []OneStartAtATime`; every other fault is allowed. The exclusion is not
  inductive either. `LockInv` adds

  - `NoDuplicate`: two attempts alive at the same time are at different plans;
  - `LockOwner` and `StartersHold`: an attempt between taking and giving back the
    lock is the one that put it, and has not released it;
  - `TakeoverFromOver`: an attempt about to take the lock over read the put of an
    attempt that is over, or one that has been replaced since.

  Without the last, a starter could lose its lock to an attempt that read it
  before. Each action either leaves the lock and the attempt's relation to it
  alone (`StepKinds` sorts the actions) or is one of the few with a case of its
  own in `LockInvStep`.
- `ClaimedOnce`: `Spec => []StartedByOneAttempt`, under every fault. The claim is
  put after everything is checked and before anything starts, so it, not the
  lock, decides. `RunInv` adds to `WellFormed` that an attempt's executions are
  its own plan's (`OwnRuns`), what a run's status says of its commands and its
  report (`RunRecords`), and that a plan has one claimant (`OneClaimant`).
- `NoRunLost`: `Spec => []EveryRunTracked`, without crashes, lost replies and
  lost records and reports. `TrackInv` adds that each execution that has started
  is one that some attempt started, and that what an attempt has passed is on
  record.
- `ReportedRunsApart`: `Spec => []NoReportedOverlap` without `"slow"`,
  `"duplicate"` and `"listing"`, though runtimes die and reports are lost.
  `GuardInv` joins `LockInv` and `RunInv` to what the guard has seen: its listing
  has every busy run of other plans with a report (`SeenAll`), as no other
  attempt starts one while the lock is held, and past the guard none is in the
  plan's locations (`PastGuardClear`).
- `RunsApart`: `Spec => []NoOverlap`, with no crash, lost reply or lost report
  besides. Then a run that has no report yet is in the hands of the one attempt
  that is starting (`UnreportedInHand`), and the case that `NoReportedOverlap`
  excepts does not arise.
- `RollbackWaits`: `Spec => RollbackAfterReports`, an action property, without
  `"slow"` and `"duplicate"`. A rollback's own check comes before the lock's last
  steps; `RollbackClear` says that what it saw stays true, because only the
  attempt with the lock writes a pending report.
- `RunLifeRefined`: `Spec => ImplementsRunLife`, under every fault: each action
  is a step of `RunLife` or a stutter, given `RunInv`.

`Reconcile_proofs`, for every set of runs, locations and reconcilers and all
times, from `ReconcileAssumption`: a run has a location, `None` is no report,
and a pending report is kept for at least twice `COMMANDS_FINISH_HOURS` (in the
code seven days and three hours).

- `TypeCorrect`, `ReportKept` (`Spec => ReportStands`), `ReportsTellAll` (`Spec
  => []ReportTellsAll`) and `PendingKept` (`Spec => []NoReportLost`), under
  every fault. `ReportTellsAll` is of the locations whose executions were found:
  what is `missed` is told by nobody (see `missed` in Findings). A reconciler
  writes what it counted steps before, so `ReportInv` adds what it has found
  out: the run was over (`Found`), what it counted is still what a report may
  tell (`Tells`), though commands finish and the clock ticks in between, and
  whatever was listed had a pending report (`Listed`). `Timed` relates the
  clocks to the commands: no commands go on after `COMMANDS_FINISH_HOURS` unless
  they overrun.
- `RunLifeKept`: `Spec => ImplementsRunLife` when neither `"overrun"` nor
  `"children"` is among the faults: a pending report goes away only when the
  commands are over, by `Reported` if the final report is written and by `Timed`
  if it is too old.

`Approval_proofs`, for every set of plans, conversations, users, requests and
runtime calls and all time limits, from `ApprovalAssumption` alone:

- `ApprovalTypeCorrect`: `Spec => []TypeOK`, from `WellFormed`, which adds
  `RequestsChecked`: a request being handled is for a stored plan, and one about
  to record an approval is an operator's and, where it must be, not the
  requester's. A plan's record never changes, so what was checked stays so.
- `RunAtMostOnce`, `OnlyApprovedPlansRun` and `CancelledPlansNeverRun`: the
  three safety properties, from one inductive invariant, `ApprovalInv`. They are
  not inductive alone: a claim is put from what an earlier step checked, and an
  execution follows from a claim put before it. So `ApprovalInv` adds to
  `WellFormed`

  - `DecisionsGranted`: every approval on record was made as it should be;
  - `ClaimsGranted`: an attempt about to claim, and every claim, rests on an
    approval that was fresh when it was checked;
  - `ClaimIsHeldOnce`: one attempt at most holds a plan's claim before its
    execution, and only a claimed plan has been executed.

  Plans, decisions and claims are written once (`RecordsStand`), and all but
  three actions leave attempts past their checks alone (`StepKinds`).
- `RecordsImplementChange`: `Spec => Change!Spec`. Besides `ApprovalInv` the
  step simulation needs `Decided`, that a decision is only ever recorded for a
  stored plan; otherwise a plan could be stored already approved.

The same module proves, of `Schedule` (`Calendar`), for every finite set of
targets and all tags, sightings, windows and policies of their types, hours and
sightings being before `Never` (`CalendarConstants`):

- `CalendarTypeCorrect`, and `WaitsOnlyInTime`: `WaitMeetsSla` always holds, for
  a plan that names at most one CVE (`OneCve`) and windows that match instances of
  their own account and Region (`WindowsMatchAtHome`); without either it is false
  (see Findings). There is one step, so `CalendarInv` only says which answer a
  request gets; the work is in what the checks compute. That the deadline, the
  least of the tags' hours after the first sighting, is no later than any
  target's own is `DeadlineOfAll`, from `LeastExists` and `MinIsLeast`. A run the
  code counts as good does patch its target (`GoodRunPatches`).
- `RunsNowOnlyForCause`: `RunsNowForCause` always holds, with neither of these
  hypotheses, by the converse: where everything could be read, a run that patches
  a target in time is one the code finds and counts (`PatchingRunIsGood`).

`StopRun_proofs`, for every set of plans, executions, conversations and requests
and every set of faults, from `PlanOfAssumption` and `ConversationAssumption`:

- `StopTypeCorrect`, and `StopsReachOwn`: `Spec => []StopReachesOwn`. The
  property speaks of what was stopped; what makes it so was checked steps
  before. `StopInv` adds `RequestSound` (a request that was let through names a
  run of the conversation it is asked from, and all it is to stop are of that
  plan), `RequestTrue` (these have started, and what it says is over is over),
  `BegunOnce` (an execution never starts again, so a stopped one stays stopped)
  and `CancelledByStop`. Only `StopExecution` both cancels and reports.

- `StopsAll`: `Spec => []EveryLocationAnswered`, under every fault. The answer
  speaks of what has started by now; the request looked when it was asked.
  `AllAnswered` says that a request asked once the plan's start was over has hold
  of every execution of the plan (`Reaches`), but those that its card left out
  (`Left`), and `OverStays` that what has started, and its records, no longer
  change then. So nothing that starts later is missed. `StopInv` gives the rest:
  what is reported as stopped or finished is over.

`Session_proofs`, for every set of users, operators and conversations, every
`Actor` and every `ReadLimit` in `Nat`, given that `Nobody` is not a user:

- `SessionTypeCorrect`, and `ConversationsAreOwners`:
  `Spec => []ConversationIsOwners`. `SessionInv` adds that a turn past its claim
  is the owner's (`TurnOf`): an owner is put once, so it still is when the turn
  is kept; and that each turn is kept under what is left of its writer's email,
  when the UI's word is taken (`KeptOf`). So what the UI reads under a user's
  actor are the turns of those whose emails come to the same, no more and no less
  (`KeptAsNamesakes`), and the limit leaves out only turns with `ReadLimit` of
  these after them.

Of `DashboardRuns` (`Dashboard`), for every set of runs and viewers, given a
positive `ReconcileEvery` that fits in the time looked at:

- `DashboardTypeCorrect`, and `AnswersHaveEveryRun`, the action property
  `AnswersWithEveryRun`. A list is put together run by run and dated at its end, a
  view from a list and from reports read later, and a run leaves the one for the
  other in between. `DashboardInv` says what each part lacks at each point of the
  rebuild: `ListHasEveryRun` (a list, under way or done, has each run begun before
  it was taken, as in progress, not read or yet to be read, but those reported by
  now), `ViewsHaveEveryRun` (with the list alone only
  reported runs are missing; with the reports none is), `BuiltForViewers` (one
  viewer at a time rebuilds, and a view made after a request was begun after it,
  unless the viewer joined a rebuild under way) and `DatedByNow`. There is a lemma
  for each step of taking the list (`TakeListStep`, `ReconcileStep`,
  `DateListStep`).

Of `DashboardFleet` (`Counts`), for every fleet, Explorer and failure, given that
instances and places are finitely many and that an instance of a configured
account is in a configured Region (`CountsConstants`):

- `CountsTypeCorrect`, `EnvironmentCountsAreTrue` (`CountsAreTrue` always holds)
  and `FindingCountsAreTrue` (`FindingsAreTrue`). Both compare sums, which the
  code adds up place by place, with the size of a set. The sums are folds over
  finite sets; the function by which a fold is defined exists because the closed
  form satisfies its recursion, and is unique by a least counterexample
  (`OneByOne`), which needs no induction over data. `FindingsSummed` says what
  the fold comes to. The fan-out is merged in steps, so `CountsInv` says of each
  point of it that the merged counts are those of the locations merged so far
  (`MergedOf`): `LocationMerged` adds one, whose instances are none of the
  others', so each is counted once (`TotalsAdd`). An environment's compliance is
  true, or is none at all and some location has untagged instances of it only
  (`UntaggedOnly`). The proof needs the assumption on Regions: Explorer lists a
  configured account's instance of another Region too, and no place that is read
  or named as unread would stand for it.

`Promotion_proofs`, for all plans, runs, locations, stages, scopes and times, from
`PromotionConstants`: the tables have their types, locations are finitely many,
and times are natural numbers.

- `PromotionTypeCorrect`, and `RollbackForFailure` (`Spec =>
  []RollbackIsForFailure`), under every fault: something failed, or an instance
  isn't found where it is looked for, which is the hub when its place is
  unknown. A location known and not read never causes it.
- `PassedVerified`: `Spec => []PassedStageIsVerified`, where the plans' lists of
  runs are written (with `"list"` it is false: see Findings). `RecordsBacked`
  says that each record, and each verification in flight, is of a plan whose
  runs have all succeeded everywhere, and has the time when the last of them
  ended. A plan that is done stays done, and its last end stays (`Together`: its
  runs begin together, so none can begin after it is done), so a late write is
  still true.
- `ProceedClean`: `Spec => []ProceedIsClean`, whatever pattern of alarms is
  asked about, where the plan and its list can be read and there are no more
  alarms than an answer keeps: every instance is well, and every alarm of those
  that was seen. Since an instance shows only so many alarms without data, the
  proof counts them: when no more than `Shown` are without data, none is left
  out.

Of `FixVerification` (`Fix`), for every number of scans and set of packages, given
that there is a package:

- `FixTypeCorrect`, and `FixedAndCauseAreTrue`: `FixedIsFixed` and `CauseIsTrue`
  always hold. `FixInv` adds `OpenSinceClosed`: an open finding was seen after any
  that was closed, so the later of the two tells which is true now, however often
  the fix is installed and rolled back.

`FleetScope_proofs`, for every fleet, hub, set of Regions and lifetime of the
caches, given that plans name instances of the fleet (`ScopeConstants`):

- `SentToOwnPlace` (`Spec => []StartedAtHome`), `ListsTellAll`
  (`Spec => []ListIsComplete`) and the action property `StartsWhereAllowed`
  (`Spec => [][StartsInScope]_vars`), whichever lookups fail. `ScopeInv` says what
  the caches are worth: the accounts of the scope were in the OUs when it was
  resolved (`ScopeWasTrue`), and of each instance that has not changed since, the
  view tells what EC2 would, or names its location as unread (`ViewWasTrue`). A
  start takes nothing from the view but locations: all it starts has been
  described by EC2 in the same request (`Described`).

Of `Answers` (`Figures`), for every finite fleet, Explorer, failure and limit on
the reports read:

- `FiguresTypeCorrect`, and `FiguresComplete`: `FiguresTellAll` always holds.
  There is a lemma for each of the seven questions; each looks at where a thing
  may go on its way from the lists to the answer, and shows that what drops out is
  in a place that is named, or is one of the silent cases in Findings, an
  unresolved scope among them.

`Rollback_proofs`, for all plans, shares, accounts and margins, given that an
execution patches something and that a plan for the environment is one execution
(`RollbackConstants`):

- `LastRunChosen` (`Spec => [][PlansForLastRun]_vars`) and `AllOfRunUndone`
  (`Spec => []WholeRunUndone`), whichever pending reports are late or lost and
  also when reports lack their duration. The first is of the runs the code can
  know of: those reported, and those with a recent pending report. The second is
  of the transactions begun before the run's end. (Of all runs begun and of all
  transactions both are false: `begun` and `stopped`.) `RollbackInv` adds that a
  plan's executions begin together (`BegunTogether`), that a transaction begins
  after its run (`InstalledInTime`), that only runs that have ended are reported
  (`ReportedEnded`), and that the window approved holds the runs it is to undo
  (`WindowHolds`): these are reported, and a reported run never changes, so it
  still does at the start. `PatchedAllCovers` is the step from the world to the
  reports: with nothing of the instances unreported, every run known that
  patched them all is among those to choose from.

Of `RollbackCheck` (`Check`), for all instances, numbers of patches and installs
that patch counts allow (`CheckConstants`):

- `RollbackCheckTypeCorrect`, and `ConfirmedIfOffOrReleased`: with any number of
  releases, a rollback is confirmed only where the patches came off or some
  patch has been released since. `ConfirmedOnlyIfOff`: with none,
  `ConfirmedCameOff` always holds. `CheckInv` adds `StatesWereTrue` (a patch
  state is of a scan, maybe an old one: it had at least the patches that are
  there now, and some of those released by now were missing) and
  `SnapshotIsOfRun` (the snapshot from after patching is of what the run
  installed). TLC checked it with a release, too.

The proofs changed the models in a few places. `HealthVerdict` and the verdict of
`FixVerification` were `CASE`s with overlapping guards, which leaves the choice
open; they are chains now, in the code's order. `ReconcileAssumption` did not say
that a run has a location, without which a report of none would be complete. In
`Schedule`, `Runs` joins two `UNION`s; TLC and the prover read the form without
parentheses differently, so it has them now.

Only model-checked:

- `AnswerIsWhole` of `Stream`, the one safety property without a proof. What a
  stream shows is filtered from a sequence by `SelectSeq`, which the prover has
  built in and cannot expand, and folded; what it comes to for every reply would
  take induction over data, out of its reach.
- Liveness (`LockRecovers`, `AttemptsEnd`, `EveryRunSettled`), and `ENABLED`.

No module here has a `RECURSIVE` operator.

## Not modelled, and the plan

Next, in this order:

1. the frontend's protocols: the pop-out's request, acknowledgement and result
   under time-outs (`channel.ts`), run polling, stale responses, the idle clock;
2. liveness of the dashboard's rebuild and of a stream;
3. creating and changing a maintenance window, with its clean-up on failure; the
   rate limiter; the install-list override's rewrite of its object.

Not modelled at all, in components that otherwise are: the run guard's 24-hour
look-back in `RunStart`, where runs are assumed to end within it (`Rollback` has
it); which promotion record wins when
an older run is verified later (a finding); token verification; cron arithmetic
and the forecast of next week's findings; what an answer ranks or recommends.

Left out for good: `rpmver`'s comparison of version strings, which a model could
only spell out character by character; the model's own choice of tools, prompts
and steering text; AWS queries and their formatting; views, cards and styling;
the CDK stacks and scripts; the evaluation harness.
