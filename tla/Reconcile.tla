----------------------------- MODULE Reconcile -----------------------------
(***************************************************************************)
(* Writing a run's compliance report once it is over.                      *)
(*                                                                         *)
(* The report Lambda runs _reconcile_pending_reports when a run ends, and  *)
(* every five minutes for all pending reports; without the Lambda the      *)
(* dashboard runs it.  Each such call is a Reconciler here: they share the *)
(* bucket and take one S3 or SSM call at a time.  Reads of one run's       *)
(* commands over its locations are one step: a run that has ended sends no *)
(* more commands, so a location seen finished stays so.                    *)
(*                                                                         *)
(* Faults names what may go wrong:                                         *)
(*   "call"     a call fails while a pending report is processed           *)
(*   "drop"     the call that drops a pending report too old fails too     *)
(*   "head"     whether the report exists can't be told                    *)
(*   "unread"   the outcomes in some locations can't be read, and it knows *)
(*   "children" some locations' executions are neither listed nor named by *)
(*              the run's own steps, or nested too deep: it doesn't know   *)
(*   "die"      the call to the reconciler ends half way                   *)
(*   "overrun"  commands go on for COMMANDS_FINISH_HOURS after their run   *)
(***************************************************************************)
EXTENDS Integers, FiniteSets

CONSTANTS
    Run,            \* executions
    Location,       \* (account, region) pairs each run covers
    Reconciler,     \* calls to _reconcile_pending_reports under way at once
    FinishTicks,    \* COMMANDS_FINISH_HOURS
    DropTicks,      \* PENDING_MAX_AGE_DAYS
    Faults,
    None

FaultKind == {"call", "drop", "head", "unread", "children", "die", "overrun"}

\* What a report tells: where the outcomes are final, and whether some couldn't be
\* read.  What it misses without a word is noted for the properties only.
Report == [final : SUBSET Location, missed : SUBSET Location, incomplete : BOOLEAN]

ASSUME ReconcileAssumption ==
    /\ Location # {}
    /\ None \notin Report
    /\ FinishTicks \in Nat \ {0}
    /\ DropTicks \in Nat
    /\ 2 * FinishTicks <= DropTicks
    /\ Faults \subseteq FaultKind

VARIABLES
    status,     \* each run's Automation status
    busy,       \* the locations where its commands are still going
    since,      \* ticks since it ended, up to FinishTicks
    context,    \* pending-reports/: "none", "pending", or "deleted"
    age,        \* ticks since the pending report was written, up to DropTicks
    report,     \* the final report, or None
    step,       \* where each reconciler is
    queue,      \* the pending reports it listed and has still to process
    run,        \* the one it is at
    outcome     \* what it counted for the report

runs  == <<status, busy, since>>
local == <<queue, run, outcome>>
vars  == <<status, busy, since, context, age, report, step, queue, run, outcome>>

Init ==
    /\ status = [e \in Run |-> "none"]
    /\ busy = [e \in Run |-> {}]
    /\ since = [e \in Run |-> 0]
    /\ context = [e \in Run |-> "none"]
    /\ age = [e \in Run |-> 0]
    /\ report = [e \in Run |-> None]
    /\ step = [r \in Reconciler |-> "idle"]
    /\ queue = [r \in Reconciler |-> {}]
    /\ run = [r \in Reconciler |-> None]
    /\ outcome = [r \in Reconciler |-> None]

Ended(e) == status[e] \in {"success", "ended early"}

Goto(r, s) == step' = [step EXCEPT ![r] = s]

-----------------------------------------------------------------------------
(* The run and the runtime that started it *)

StartRun(e) ==
    /\ status[e] = "none"
    /\ status' = [status EXCEPT ![e] = "active"]
    /\ busy' = [busy EXCEPT ![e] = Location]
    /\ UNCHANGED <<since, context, age, report, step, local>>

\* _write_pending_compliance_context: any time after the start, even when the
\* run is over already.
WriteContext(e) ==
    /\ status[e] # "none"
    /\ context[e] = "none"
    /\ context' = [context EXCEPT ![e] = "pending"]
    /\ UNCHANGED <<runs, age, report, step, local>>

CommandsFinish(e, l) ==
    /\ l \in busy[e]
    /\ busy' = [busy EXCEPT ![e] = @ \ {l}]
    /\ UNCHANGED <<status, since, context, age, report, step, local>>

RunSucceeds(e) ==
    /\ status[e] = "active"
    /\ busy[e] = {}
    /\ status' = [status EXCEPT ![e] = "success"]
    /\ UNCHANGED <<busy, since, context, age, report, step, local>>

\* Stopped, failed or timed out.
RunEndsEarly(e) ==
    /\ status[e] = "active"
    /\ status' = [status EXCEPT ![e] = "ended early"]
    /\ UNCHANGED <<busy, since, context, age, report, step, local>>

\* A run is over, with its commands, COMMANDS_FINISH_HOURS before its pending
\* report may be dropped; its commands finish within COMMANDS_FINISH_HOURS of its
\* end unless they overrun.
MayTick(e) ==
    /\ age[e] >= DropTicks - FinishTicks => Ended(e) /\ busy[e] = {}
    /\ Ended(e) /\ busy[e] # {} => since[e] < FinishTicks - 1 \/ "overrun" \in Faults

Tick ==
    /\ \A e \in Run : MayTick(e)
    /\ since' = [e \in Run |->
           IF Ended(e) /\ since[e] < FinishTicks THEN since[e] + 1 ELSE since[e]]
    /\ age' = [e \in Run |->
           IF context[e] = "pending" /\ age[e] < DropTicks THEN age[e] + 1 ELSE age[e]]
    /\ UNCHANGED <<status, busy, context, report, step, local>>

-----------------------------------------------------------------------------
(* _reconcile_pending_reports *)

\* Invoked for the run whose final event has arrived, or for every run.
List(r, only) ==
    /\ step[r] = "idle"
    /\ queue' = [queue EXCEPT ![r] = {e \in only : context[e] = "pending"}]
    /\ Goto(r, "next")
    /\ UNCHANGED <<runs, context, age, report, run, outcome>>

RunEndEvent(r, e) == Ended(e) /\ List(r, {e})

Sweep(r) == List(r, Run)

Take(r, e) ==
    /\ step[r] = "next"
    /\ e \in queue[r]
    /\ queue' = [queue EXCEPT ![r] = @ \ {e}]
    /\ run' = [run EXCEPT ![r] = e]
    /\ Goto(r, "read")
    /\ UNCHANGED <<runs, context, age, report, outcome>>

\* All processed; or out of time, the rest left for the next sweep.
Return(r) ==
    /\ step[r] = "next"
    /\ queue[r] = {} \/ "die" \in Faults
    /\ queue' = [queue EXCEPT ![r] = {}]
    /\ Goto(r, "idle")
    /\ UNCHANGED <<runs, context, age, report, run, outcome>>

\* Another reconciler may have deleted it since it was listed.
ReadContext(r) ==
    /\ step[r] = "read"
    /\ Goto(r, IF context[run[r]] = "pending" THEN "status" ELSE "next")
    /\ UNCHANGED <<runs, context, age, report, local>>

ReadStatus(r) ==
    /\ step[r] = "status"
    /\ Goto(r, IF Ended(run[r]) THEN "check" ELSE "next")
    /\ UNCHANGED <<runs, context, age, report, local>>

CheckReport(r) ==
    /\ step[r] = "check"
    /\ Goto(r, IF report[run[r]] = None THEN "count" ELSE "clean up")
    /\ UNCHANGED <<runs, context, age, report, local>>

ReportUnknown(r) ==
    /\ "head" \in Faults
    /\ step[r] = "check"
    /\ Goto(r, "next")
    /\ UNCHANGED <<runs, context, age, report, local>>

\* _count_execution_outcomes, with what it can't read and what it misses.  A
\* listing of child executions that fails is taken for an empty one.
Count(e, unread, missed) ==
    [final |-> Location \ (busy[e] \union unread \union missed), missed |-> missed, incomplete |-> unread # {}]

Unreadable == IF "unread" \in Faults THEN SUBSET Location ELSE {{}}
Missable == IF "children" \in Faults THEN SUBSET Location ELSE {{}}

\* Mutant: it waits for neither.
CountOutcomesAtOnce(r) ==
    /\ step[r] = "count"
    /\ \E unread \in Unreadable, missed \in Missable :
          outcome' = [outcome EXCEPT ![r] = Count(run[r], unread, missed)]
    /\ Goto(r, "write")
    /\ UNCHANGED <<runs, context, age, report, queue, run>>

\* While the run is recent, its report waits for commands seen going on and for
\* locations that can't be read.
CountOutcomes(r) ==
    LET e == run[r] IN
    /\ step[r] = "count"
    /\ \E unread \in Unreadable, missed \in Missable :
          IF (busy[e] \ (unread \union missed) # {} \/ unread # {}) /\ since[e] < FinishTicks
          THEN Goto(r, "next") /\ UNCHANGED outcome
          ELSE outcome' = [outcome EXCEPT ![r] = Count(e, unread, missed)] /\ Goto(r, "write")
    /\ UNCHANGED <<runs, context, age, report, queue, run>>

\* Mutant: the put is unconditional.
OverwriteReport(r) ==
    /\ step[r] = "write"
    /\ report' = [report EXCEPT ![run[r]] = outcome[r]]
    /\ outcome' = [outcome EXCEPT ![r] = None]
    /\ Goto(r, "delete")
    /\ UNCHANGED <<runs, context, age, queue, run>>

\* Mutant: the report leaves out that it is incomplete.
WriteReportUnmarked(r) ==
    /\ step[r] = "write"
    /\ report' = [report EXCEPT ![run[r]] =
           IF @ = None THEN [final |-> outcome[r].final] ELSE @]
    /\ outcome' = [outcome EXCEPT ![r] = None]
    /\ Goto(r, "delete")
    /\ UNCHANGED <<runs, context, age, queue, run>>

\* put_object with IfNoneMatch; a report written meanwhile stands.
WriteReport(r) ==
    /\ step[r] = "write"
    /\ report' = [report EXCEPT ![run[r]] = IF @ = None THEN outcome[r] ELSE @]
    /\ outcome' = [outcome EXCEPT ![r] = None]
    /\ Goto(r, "delete")
    /\ UNCHANGED <<runs, context, age, queue, run>>

\* After the report, or because it was there already.
DeleteContext(r) ==
    /\ step[r] \in {"delete", "clean up"}
    /\ context' = [context EXCEPT ![run[r]] = "deleted"]
    /\ Goto(r, "next")
    /\ UNCHANGED <<runs, age, report, local>>

Calls == {"read", "status", "check", "count", "write", "delete", "clean up"}

\* The delete for a report that was there already is tried under the same except
\* as head_object: an error of S3's is passed over, whatever the age.
CleanUpFails(r) ==
    /\ "call" \in Faults
    /\ step[r] = "clean up"
    /\ Goto(r, "next")
    /\ UNCHANGED <<runs, context, age, report, local>>

\* Mutant: whatever fails is dropped.
CallFailsAndDrops(r) ==
    /\ "call" \in Faults
    /\ step[r] \in Calls
    /\ context' = [context EXCEPT ![run[r]] = "deleted"]
    /\ outcome' = [outcome EXCEPT ![r] = None]
    /\ Goto(r, "next")
    /\ UNCHANGED <<runs, age, report, queue, run>>

\* Mutant: nothing is ever dropped.
CallFailsAndKeeps(r) ==
    /\ "call" \in Faults
    /\ step[r] \in Calls
    /\ outcome' = [outcome EXCEPT ![r] = None]
    /\ Goto(r, "next")
    /\ UNCHANGED <<runs, context, age, report, queue, run>>

\* A call fails: the pending report is kept, or dropped when it is too old.
CallFails(r) ==
    /\ "call" \in Faults
    /\ step[r] \in Calls
    /\ \/ /\ age[run[r]] < DropTicks \/ "drop" \in Faults
          /\ UNCHANGED context
       \/ /\ age[run[r]] = DropTicks
          /\ context' = [context EXCEPT ![run[r]] = "deleted"]
    /\ outcome' = [outcome EXCEPT ![r] = None]
    /\ Goto(r, "next")
    /\ UNCHANGED <<runs, age, report, queue, run>>

\* The Lambda times out or the server restarts.
Die(r) ==
    /\ "die" \in Faults
    /\ step[r] # "idle"
    /\ Goto(r, "idle")
    /\ queue' = [queue EXCEPT ![r] = {}]
    /\ outcome' = [outcome EXCEPT ![r] = None]
    /\ UNCHANGED <<runs, context, age, report, run>>

-----------------------------------------------------------------------------
Process(r) ==
    \/ Return(r) \/ ReadContext(r) \/ ReadStatus(r) \/ CheckReport(r) \/ ReportUnknown(r)
    \/ CountOutcomes(r) \/ WriteReport(r) \/ DeleteContext(r) \/ CleanUpFails(r) \/ CallFails(r)
    \/ \E e \in Run : Take(r, e)

Automation ==
    \E e \in Run : StartRun(e) \/ WriteContext(e) \/ RunSucceeds(e) \/ RunEndsEarly(e)
                       \/ \E l \in Location : CommandsFinish(e, l)

Next ==
    \/ Automation
    \/ Tick
    \/ \E r \in Reconciler : Process(r) \/ Die(r) \/ Sweep(r) \/ \E e \in Run : RunEndEvent(r, e)

Spec == Init /\ [][Next]_vars

\* EventBridge sweeps on its own schedule, however often runs end meanwhile; a
\* call to the reconciler returns, time passes, and a run ends and its commands
\* finish.
Fairness ==
    /\ \A r \in Reconciler : WF_vars(Process(r)) /\ SF_vars(Sweep(r))
    /\ WF_vars(Tick)
    /\ \A e \in Run : WF_vars(RunSucceeds(e) \/ RunEndsEarly(e))
    /\ \A e \in Run, l \in Location : WF_vars(CommandsFinish(e, l))

FairSpec == Spec /\ Fairness

-----------------------------------------------------------------------------
(* Properties *)

\* Every record and every reconciler's local state has its type.
TypeOK ==
    /\ status \in [Run -> {"none", "active", "success", "ended early"}]
    /\ busy \in [Run -> SUBSET Location]
    /\ since \in [Run -> 0..FinishTicks]
    /\ context \in [Run -> {"none", "pending", "deleted"}]
    /\ age \in [Run -> 0..DropTicks]
    /\ report \in [Run -> Report \union {None}]
    /\ step \in [Reconciler -> {"idle", "next", "read", "status", "check", "count", "write", "delete", "clean up"}]
    /\ queue \in [Reconciler -> SUBSET Run]
    /\ run \in [Reconciler -> Run \union {None}]
    /\ outcome \in [Reconciler -> Report \union {None}]

\* A report that claims to be complete tells every location's final outcome, but
\* where the code never found the location's executions or commands went on for
\* COMMANDS_FINISH_HOURS; no report precedes the run's end, and none is marked
\* incomplete while the run is recent.
ReportTellsAll ==
    \A e \in Run : report[e] # None =>
        /\ Ended(e)
        /\ since[e] < FinishTicks => report[e].final \union report[e].missed = Location /\ ~report[e].incomplete
        /\ \/ report[e].final \union report[e].missed = Location
           \/ report[e].incomplete
           \/ "overrun" \in Faults

\* A report is of every location or marked incomplete (_count_execution_outcomes:
\* "a lookup that fails is logged and skipped, and the counts are partial:
\* incomplete is then True").  Not so with "children" (see the findings).
ReportIsMarked ==
    \A e \in Run : report[e] # None => report[e].final = Location \/ report[e].incomplete

\* A pending report is deleted only once the final one is written, or when it
\* has failed to be processed for PENDING_MAX_AGE_DAYS.
NoReportLost ==
    \A e \in Run : context[e] = "deleted" => report[e] # None \/ age[e] = DropTicks

\* A report once written is never changed, whoever else counts the same run.
ReportStands ==
    [][\A e \in Run : report[e] # None => report'[e] = report[e]]_vars

\* The pending report of a run whose commands finish in time, and are found, stays
\* until they have: the run guard, which knows runs by it, sees every such run.
\* Not so with "children": a report that misses commands is written while they go on.
Life == INSTANCE RunLife WITH
    busy <- {e \in Run : busy[e] # {}},
    report <- [e \in Run |-> IF context[e] = "deleted" THEN "written" ELSE context[e]]

ImplementsRunLife == Life!Spec

\* Whatever can't be read or fails, a run that has ended gets its report, or its
\* pending report is dropped.  (The pending report of one reported already may be
\* kept for good: CleanUpFails knows no age.)
EveryRunSettled ==
    \A e \in Run : (Ended(e) /\ context[e] = "pending") ~> (report[e] # None \/ context[e] = "deleted")

=============================================================================
