-------------------------- MODULE Reconcile_proofs --------------------------
(***************************************************************************)
(* Proofs about Reconcile for every set of runs, locations and             *)
(* reconcilers, and every length of COMMANDS_FINISH_HOURS and              *)
(* PENDING_MAX_AGE_DAYS: types; what a final report tells; that it stands; *)
(* that no pending report is dropped before it, unless it is too old; and  *)
(* that a run lives as RunLife says.                                       *)
(***************************************************************************)
EXTENDS Reconcile, TLAPS

-----------------------------------------------------------------------------
(* The inductive invariant *)

StepName == {"idle", "next", "read", "status", "check", "count", "write", "delete", "clean up"}

\* A reconciler past taking a pending report has a run at hand.
WellFormed ==
    /\ TypeOK
    /\ \A r \in Reconciler : step[r] \notin {"idle", "next"} => run[r] \in Run

Over(s) == s \in {"success", "ended early"}

\* What the times t since a run's end and a since its pending report say of its
\* status s and the locations left where its commands go on.
TimedIn(s, left, t, a) ==
    /\ left # {} => s # "none"
    /\ ~Over(s) => t = 0
    /\ t = FinishTicks => left = {} \/ "overrun" \in Faults
    /\ a > DropTicks - FinishTicks => Over(s) /\ left = {}

Timed == \A e \in Run : TimedIn(status[e], busy[e], since[e], age[e])

\* What an outcome o tells of a run that ended t ticks ago, its commands still
\* going in the locations left: where they do, it has missed them.
Tells(o, t, left) ==
    /\ t < FinishTicks => o.final \union o.missed = Location /\ ~o.incomplete
    /\ o.final \union o.missed = Location \/ o.incomplete \/ "overrun" \in Faults
    /\ left \subseteq o.missed \/ "overrun" \in Faults
    /\ o.missed = {} \/ "children" \in Faults

\* What a reconciler has found out about the run at hand.
Found ==
    \A r \in Reconciler : LET e == run[r] IN
        /\ step[r] \in {"check", "count", "write", "delete", "clean up"} => Over(status[e])
        /\ step[r] = "write" => outcome[r] \in Report /\ Tells(outcome[r], since[e], busy[e])
        /\ step[r] \in {"delete", "clean up"} => report[e] # None

\* What a reconciler has listed or taken had a pending report.
Listed ==
    \A r \in Reconciler :
        /\ \A e \in queue[r] : context[e] # "none"
        /\ step[r] \notin {"idle", "next"} => context[run[r]] # "none"

Reported ==
    \A e \in Run : report[e] # None => Over(status[e]) /\ Tells(report[e], since[e], busy[e])

ReportInv == WellFormed /\ Timed /\ Found /\ Listed /\ Reported /\ NoReportLost

-----------------------------------------------------------------------------
(* Type correctness *)

\* A tick adds at most one to the times, and stays within their bounds.
LEMMA TickBounds ==
    ASSUME WellFormed, Tick
    PROVE  /\ since' \in [Run -> 0..FinishTicks] /\ age' \in [Run -> 0..DropTicks]
           /\ \A e \in Run : since'[e] < FinishTicks => since[e] < FinishTicks
           /\ \A e \in Run : age'[e] = age[e] \/ (age[e] \in Nat /\ age'[e] = age[e] + 1)
<1>1. since \in [Run -> 0..FinishTicks] /\ age \in [Run -> 0..DropTicks]
  BY DEF WellFormed, TypeOK
<1>2. FinishTicks \in Nat /\ DropTicks \in Nat
  BY ReconcileAssumption
<1>3. ASSUME NEW e \in Run
      PROVE  /\ since'[e] \in 0..FinishTicks
             /\ since'[e] < FinishTicks => since[e] < FinishTicks
  <2>1. since'[e] = IF Ended(e) /\ since[e] < FinishTicks THEN since[e] + 1 ELSE since[e]
    BY DEF Tick
  <2>2. since[e] \in 0..FinishTicks
    BY <1>1
  <2>3. QED
    BY <1>2, <2>1, <2>2
<1>4. ASSUME NEW e \in Run
      PROVE  /\ age'[e] \in 0..DropTicks
             /\ age'[e] = age[e] \/ (age[e] \in Nat /\ age'[e] = age[e] + 1)
  <2>1. age'[e] = IF context[e] = "pending" /\ age[e] < DropTicks THEN age[e] + 1 ELSE age[e]
    BY DEF Tick
  <2>2. age[e] \in 0..DropTicks
    BY <1>1
  <2>3. QED
    BY <1>2, <2>1, <2>2
<1>5. since' = [e \in Run |-> since'[e]] /\ age' = [e \in Run |-> age'[e]]
  BY DEF Tick
<1>6. QED
  BY <1>3, <1>4, <1>5

\* Every action keeps the types.
LEMMA WellFormedStep == WellFormed /\ [Next]_vars => WellFormed'
<1>0. SUFFICES ASSUME WellFormed, [Next]_vars PROVE WellFormed'
  OBVIOUS
<1> USE <1>0, ReconcileAssumption DEF WellFormed, TypeOK, Goto, runs, local
<1>1. ASSUME NEW e \in Run, StartRun(e) PROVE WellFormed'
  BY <1>1 DEF StartRun
<1>2. ASSUME NEW e \in Run, WriteContext(e) PROVE WellFormed'
  BY <1>2 DEF WriteContext
<1>3. ASSUME NEW e \in Run, RunSucceeds(e) \/ RunEndsEarly(e) PROVE WellFormed'
  BY <1>3 DEF RunSucceeds, RunEndsEarly
<1>4. ASSUME NEW e \in Run, NEW l \in Location, CommandsFinish(e, l) PROVE WellFormed'
  BY <1>4 DEF CommandsFinish
<1>5. ASSUME Tick PROVE WellFormed'
  <2>1. since' \in [Run -> 0..FinishTicks] /\ age' \in [Run -> 0..DropTicks]
    BY <1>5, TickBounds
  <2>2. QED
    BY <1>5, <2>1 DEF Tick
<1>6. ASSUME NEW r \in Reconciler, NEW only \in SUBSET Run, List(r, only) PROVE WellFormed'
  <2> DEFINE Pending == {e \in only : context[e] = "pending"}
  <2>1. Pending \in SUBSET Run /\ queue' = [queue EXCEPT ![r] = Pending]
    BY <1>6 DEF List
  <2> HIDE DEF Pending
  <2>2. queue' \in [Reconciler -> SUBSET Run]
    BY <2>1
  <2>3. QED
    BY <1>6, <2>2 DEF List
<1>7. ASSUME NEW r \in Reconciler, NEW e \in Run, Take(r, e) PROVE WellFormed'
  BY <1>7 DEF Take
<1>8. ASSUME NEW r \in Reconciler, Return(r) \/ Die(r) PROVE WellFormed'
  BY <1>8 DEF Return, Die
<1>9. ASSUME NEW r \in Reconciler,
             ReadContext(r) \/ ReadStatus(r) \/ CheckReport(r) \/ ReportUnknown(r) \/ CleanUpFails(r)
      PROVE  WellFormed'
  BY <1>9 DEF ReadContext, ReadStatus, CheckReport, ReportUnknown, CleanUpFails
<1>10. ASSUME NEW r \in Reconciler, CountOutcomes(r) PROVE WellFormed'
  <2>1. PICK unread \in SUBSET Location, missed \in SUBSET Location :
          \/ step' = [step EXCEPT ![r] = "next"] /\ UNCHANGED outcome
          \/ /\ outcome' = [outcome EXCEPT ![r] = Count(run[r], unread, missed)]
             /\ step' = [step EXCEPT ![r] = "write"]
    BY <1>10 DEF CountOutcomes, Unreadable, Missable
  <2> DEFINE o == Count(run[r], unread, missed)
  <2>2. o \in Report
    BY DEF Report, Count
  <2>3. outcome' = outcome \/ outcome' = [outcome EXCEPT ![r] = o]
    BY <2>1
  <2> HIDE DEF o
  <2>4. outcome' \in [Reconciler -> Report \union {None}]
    BY <2>2, <2>3
  <2>5. QED
    BY <1>10, <2>1, <2>4 DEF CountOutcomes
<1>11. ASSUME NEW r \in Reconciler, WriteReport(r) PROVE WellFormed'
  BY <1>11 DEF WriteReport
<1>12. ASSUME NEW r \in Reconciler, DeleteContext(r) \/ CallFails(r) PROVE WellFormed'
  BY <1>12 DEF DeleteContext, CallFails
<1>13. CASE UNCHANGED vars
  BY <1>13 DEF vars
<1>14. QED
  BY <1>1, <1>2, <1>3, <1>4, <1>5, <1>6, <1>7, <1>8, <1>9, <1>10, <1>11, <1>12, <1>13
     DEF Next, Automation, Process, Sweep, RunEndEvent

\* Every state's records have their types, for every value of the constants.
THEOREM TypeCorrect == Spec => []TypeOK
<1>1. Init => WellFormed
  BY ReconcileAssumption DEF Init, WellFormed, TypeOK
<1>2. WellFormed => TypeOK
  BY DEF WellFormed
<1>3. QED
  BY <1>1, <1>2, WellFormedStep, PTL DEF Spec

-----------------------------------------------------------------------------
(* What a step may change *)

\* A step of SSM, of the runtime or of the clock.
RunStep == Tick \/ \E e \in Run :
    \/ StartRun(e) \/ WriteContext(e) \/ RunSucceeds(e) \/ RunEndsEarly(e)
    \/ \E l \in Location : CommandsFinish(e, l)

\* A step of reconciler r.
ReconcilerStep(r) ==
    \/ \E only \in SUBSET Run : List(r, only)
    \/ Return(r) \/ ReadContext(r) \/ ReadStatus(r) \/ CheckReport(r) \/ ReportUnknown(r) \/ CleanUpFails(r)
    \/ CountOutcomes(r) \/ WriteReport(r) \/ DeleteContext(r) \/ CallFails(r) \/ Die(r)
    \/ \E e \in Run : Take(r, e)

\* Every step is one or the other.
LEMMA StepKinds ==
    ASSUME [Next]_vars
    PROVE  RunStep \/ (\E r \in Reconciler : ReconcilerStep(r)) \/ UNCHANGED vars
  BY DEF Next, Automation, Process, RunStep, ReconcilerStep, Sweep, RunEndEvent

\* Runs and the clock leave the reconcilers and their reports alone.
LEMMA RunStepLocal == ASSUME RunStep PROVE UNCHANGED <<report, step, queue, run, outcome>>
  BY DEF RunStep, StartRun, WriteContext, RunSucceeds, RunEndsEarly, CommandsFinish, Tick, local

\* A reconciler leaves the runs, the clock and the other reconcilers alone.
LEMMA ReconcilerStepLocal ==
    ASSUME WellFormed, NEW r \in Reconciler, ReconcilerStep(r)
    PROVE  /\ UNCHANGED <<status, busy, since, age>>
           /\ \A q \in Reconciler \ {r} : /\ step'[q] = step[q] /\ queue'[q] = queue[q]
                                          /\ run'[q] = run[q] /\ outcome'[q] = outcome[q]
<1> USE DEF WellFormed, TypeOK, Goto, runs, local
<1>1. ASSUME NEW only \in SUBSET Run, List(r, only)
      PROVE  /\ UNCHANGED <<status, busy, since, age>>
             /\ \A q \in Reconciler \ {r} : /\ step'[q] = step[q] /\ queue'[q] = queue[q]
                                            /\ run'[q] = run[q] /\ outcome'[q] = outcome[q]
  BY <1>1 DEF List
<1>2. CASE Return(r) \/ Die(r)
  BY <1>2 DEF Return, Die
<1>3. CASE ReadContext(r) \/ ReadStatus(r) \/ CheckReport(r) \/ ReportUnknown(r) \/ CleanUpFails(r)
  BY <1>3 DEF ReadContext, ReadStatus, CheckReport, ReportUnknown, CleanUpFails
<1>4. CASE CountOutcomes(r)
  BY <1>4 DEF CountOutcomes
<1>5. CASE WriteReport(r)
  BY <1>5 DEF WriteReport
<1>6. CASE DeleteContext(r) \/ CallFails(r)
  BY <1>6 DEF DeleteContext, CallFails
<1>7. CASE \E e \in Run : Take(r, e)
  BY <1>7 DEF Take
<1>8. QED
  BY <1>1, <1>2, <1>3, <1>4, <1>5, <1>6, <1>7 DEF ReconcilerStep

\* What a step never undoes: a run that has ended stays so and starts no
\* commands, time goes on, a pending report is not forgotten, a report stands.
Onward ==
    \A e \in Run :
        /\ Over(status[e]) => Over(status'[e]) /\ busy'[e] \subseteq busy[e]
        /\ since'[e] < FinishTicks => since[e] < FinishTicks
        /\ context[e] # "none" => context'[e] # "none"
        /\ report[e] # None => report'[e] = report[e]

\* No step undoes any of it.
LEMMA OnwardStep == ASSUME WellFormed, [Next]_vars PROVE Onward
<1> USE DEF WellFormed, TypeOK, Over
<1>1. CASE RunStep
  <2> USE DEF Onward, runs, local
  <2>1. ASSUME NEW e \in Run, StartRun(e) PROVE Onward
    BY <2>1 DEF StartRun
  <2>2. ASSUME NEW e \in Run, WriteContext(e) PROVE Onward
    BY <2>2 DEF WriteContext
  <2>3. ASSUME NEW e \in Run, RunSucceeds(e) \/ RunEndsEarly(e) PROVE Onward
    BY <2>3 DEF RunSucceeds, RunEndsEarly
  <2>4. ASSUME NEW e \in Run, NEW l \in Location, CommandsFinish(e, l) PROVE Onward
    BY <2>4 DEF CommandsFinish
  <2>5. ASSUME Tick PROVE Onward
    <3>1. UNCHANGED <<status, busy, context, report>>
      BY <2>5 DEF Tick
    <3>2. \A e \in Run : since'[e] < FinishTicks => since[e] < FinishTicks
      BY <2>5, TickBounds
    <3>3. QED
      BY <3>1, <3>2
  <2>6. QED
    BY <1>1, <2>1, <2>2, <2>3, <2>4, <2>5 DEF RunStep
<1>2. ASSUME NEW r \in Reconciler, ReconcilerStep(r) PROVE Onward
  <2>1. UNCHANGED <<status, busy, since>>
    BY <1>2, ReconcilerStepLocal
  <2>2. \A e \in Run : context[e] # "none" => context'[e] # "none"
    BY <1>2 DEF ReconcilerStep, List, Return, ReadContext, ReadStatus, CheckReport, ReportUnknown,
         CountOutcomes, WriteReport, DeleteContext, CleanUpFails, CallFails, Die, Take, local
  <2>3. \A e \in Run : report[e] # None => report'[e] = report[e]
    BY <1>2 DEF ReconcilerStep, List, Return, ReadContext, ReadStatus, CheckReport, ReportUnknown,
         CountOutcomes, WriteReport, DeleteContext, CleanUpFails, CallFails, Die, Take, local
  <2>4. QED
    BY <2>1, <2>2, <2>3 DEF Onward
<1>3. CASE UNCHANGED vars
  BY <1>3 DEF vars, Onward
<1>4. QED
  BY <1>1, <1>2, <1>3, StepKinds

\* What an outcome tells of a run that has ended stays true.
LEMMA TellsOn ==
    ASSUME Onward, NEW e \in Run, Over(status[e]), NEW o, Tells(o, since[e], busy[e])
    PROVE  Over(status'[e]) /\ Tells(o, since'[e], busy'[e])
<1>1. /\ Over(status'[e]) /\ busy'[e] \subseteq busy[e]
      /\ since'[e] < FinishTicks => since[e] < FinishTicks
  BY DEF Onward
<1>2. QED
  BY <1>1 DEF Tells

\* A final report stands, whoever else counts the same run.
THEOREM ReportKept == Spec => ReportStands
<1>1. Init => WellFormed
  BY ReconcileAssumption DEF Init, WellFormed, TypeOK
<1>2. WellFormed /\ [Next]_vars => \A e \in Run : report[e] # None => report'[e] = report[e]
  BY OnwardStep DEF Onward
<1>3. QED
  BY <1>1, <1>2, WellFormedStep, PTL DEF Spec, ReportStands

-----------------------------------------------------------------------------
(* What a final report tells *)

\* A tick keeps what the times say.
LEMMA TickTimed ==
    ASSUME WellFormed, Tick, NEW e \in Run, TimedIn(status[e], busy[e], since[e], age[e])
    PROVE  TimedIn(status[e], busy[e], since'[e], age'[e])
<1>1. since[e] \in 0..FinishTicks /\ age[e] \in 0..DropTicks
  BY DEF WellFormed, TypeOK
<1>2. FinishTicks \in Nat \ {0} /\ DropTicks \in Nat /\ 2 * FinishTicks <= DropTicks
  BY ReconcileAssumption
<1>3. /\ since'[e] = IF Ended(e) /\ since[e] < FinishTicks THEN since[e] + 1 ELSE since[e]
      /\ MayTick(e)
  BY DEF Tick
<1>4. ~Over(status[e]) => since'[e] = 0
  BY <1>3 DEF TimedIn, Over, Ended
<1>5. since'[e] = FinishTicks => busy[e] = {} \/ "overrun" \in Faults
  <2>1. Over(status[e]) /\ busy[e] # {} => since[e] < FinishTicks - 1 \/ "overrun" \in Faults
    BY <1>3 DEF MayTick, Over, Ended
  <2>2. since[e] = FinishTicks => busy[e] = {} \/ "overrun" \in Faults
    BY DEF TimedIn
  <2>3. CASE Over(status[e]) /\ since[e] < FinishTicks
    <3>1. since'[e] = since[e] + 1
      BY <1>3, <2>3 DEF Over, Ended
    <3>2. since[e] < FinishTicks - 1 => since[e] + 1 # FinishTicks
      BY <1>1, <1>2
    <3>3. QED
      BY <2>1, <2>3, <3>1, <3>2
  <2>4. CASE ~(Over(status[e]) /\ since[e] < FinishTicks)
    BY <1>3, <2>2, <2>4 DEF Over, Ended
  <2>5. QED
    BY <2>3, <2>4
<1>6. age'[e] > DropTicks - FinishTicks => Over(status[e]) /\ busy[e] = {}
  <2>1. age[e] >= DropTicks - FinishTicks => Over(status[e]) /\ busy[e] = {}
    BY <1>3 DEF MayTick, Over, Ended
  <2>2. age'[e] = age[e] \/ age'[e] = age[e] + 1
    BY TickBounds
  <2>3. age'[e] > DropTicks - FinishTicks => age[e] >= DropTicks - FinishTicks
    <3>1. age[e] \in Int /\ DropTicks - FinishTicks \in Int
      BY <1>1, <1>2
    <3>2. QED
      BY <2>2, <3>1
  <2>4. QED
    BY <2>1, <2>3
<1>7. busy[e] # {} => status[e] # "none"
  BY DEF TimedIn
<1>8. QED
  BY <1>4, <1>5, <1>6, <1>7 DEF TimedIn

\* Commands start with their run and finish by COMMANDS_FINISH_HOURS after it,
\* unless they overrun.
LEMMA TimedStep == ASSUME WellFormed, Timed, [Next]_vars PROVE Timed'
<1>1. /\ status \in [Run -> {"none", "active", "success", "ended early"}]
      /\ busy \in [Run -> SUBSET Location]
  BY DEF WellFormed, TypeOK
<1> DEFINE At(e) == TimedIn(status[e], busy[e], since[e], age[e])
<1>2. \A e \in Run : At(e)
  BY DEF Timed
<1>3. ASSUME NEW e \in Run, StartRun(e) PROVE \A f \in Run : At(f)'
  <2>1. /\ since' = since /\ age' = age /\ status[e] = "none" /\ status'[e] = "active"
        /\ \A f \in Run : f # e => status'[f] = status[f] /\ busy'[f] = busy[f]
    BY <1>1, <1>3 DEF StartRun, local
  <2>2. At(e)'
    <3>1. since[e] = 0 /\ ~(age[e] > DropTicks - FinishTicks)
      BY <1>2, <2>1 DEF TimedIn, Over
    <3>2. FinishTicks # 0
      BY ReconcileAssumption
    <3>3. QED
      BY <2>1, <3>1, <3>2 DEF TimedIn, Over
  <2>3. QED
    BY <1>2, <2>1, <2>2
<1>4. ASSUME NEW e \in Run, RunSucceeds(e) \/ RunEndsEarly(e) PROVE \A f \in Run : At(f)'
  <2>1. /\ since' = since /\ age' = age /\ busy' = busy /\ status[e] = "active"
        /\ \A f \in Run : f # e => status'[f] = status[f]
        /\ status'[e] \in {"success", "ended early"}
    BY <1>1, <1>4 DEF RunSucceeds, RunEndsEarly, local
  <2>2. At(e)'
    BY <1>2, <2>1 DEF TimedIn, Over
  <2>3. QED
    BY <1>2, <2>1, <2>2
<1>5. ASSUME NEW e \in Run, NEW l \in Location, CommandsFinish(e, l) PROVE \A f \in Run : At(f)'
  <2>1. /\ since' = since /\ age' = age /\ status' = status
        /\ \A f \in Run : busy[f] = {} => busy'[f] = {}
    BY <1>1, <1>5 DEF CommandsFinish, local
  <2>2. QED
    BY <1>2, <2>1 DEF TimedIn
<1>6. ASSUME Tick PROVE \A f \in Run : At(f)'
  <2>1. status' = status /\ busy' = busy
    BY <1>6 DEF Tick
  <2>2. QED
    BY <1>2, <1>6, <2>1, TickTimed
<1>7. ASSUME UNCHANGED <<status, busy, since, age>> PROVE \A f \in Run : At(f)'
  BY <1>2, <1>7
<1>8. Timed' <=> \A f \in Run : At(f)'
  BY DEF Timed
<1> HIDE DEF At
<1>9. CASE RunStep
  BY <1>3, <1>4, <1>5, <1>6, <1>7, <1>8, <1>9 DEF RunStep, WriteContext, runs
<1>10. ASSUME NEW r \in Reconciler, ReconcilerStep(r) PROVE Timed'
  BY <1>7, <1>8, <1>10, ReconcilerStepLocal
<1>11. QED
  BY <1>7, <1>8, <1>9, <1>10, StepKinds DEF vars

\* What a reconciler counts once it may is final where its commands have
\* finished, marked incomplete where it could not be read, and else missed.
LEMMA CountTells ==
    ASSUME WellFormed, Timed, NEW r \in Reconciler, CountOutcomes(r), step'[r] = "write"
    PROVE  outcome'[r] \in Report /\ Tells(outcome'[r], since[run[r]], busy[run[r]])
<1> DEFINE e == run[r]
<1>1. /\ e \in Run
      /\ busy[e] \in SUBSET Location /\ since[e] \in 0..FinishTicks
      /\ outcome \in [Reconciler -> Report \union {None}]
  BY DEF CountOutcomes, WellFormed, TypeOK
<1>2. PICK unread \in Unreadable, missed \in Missable :
        /\ ~((busy[e] \ (unread \union missed) # {} \/ unread # {}) /\ since[e] < FinishTicks)
        /\ outcome' = [outcome EXCEPT ![r] = Count(e, unread, missed)]
  <2>1. step \in [Reconciler -> StepName]
    BY DEF WellFormed, TypeOK, StepName
  <2>2. ~(step' = [step EXCEPT ![r] = "next"])
    BY <2>1
  <2>3. QED
    BY <2>2 DEF CountOutcomes, Goto
<1> DEFINE o == Count(e, unread, missed)
<1>3. /\ unread \in SUBSET Location /\ missed \in SUBSET Location
      /\ missed = {} \/ "children" \in Faults
  BY <1>2 DEF Unreadable, Missable
<1>4. /\ o \in Report
      /\ o.final = Location \ (busy[e] \union unread \union missed)
      /\ o.missed = missed /\ o.incomplete = (unread # {})
  BY <1>3 DEF Report, Count
<1>5. outcome'[r] = o
  BY <1>1, <1>2
<1> HIDE DEF o
<1>6. since[e] < FinishTicks => busy[e] \subseteq missed /\ unread = {}
  BY <1>2
<1>7. since[e] = FinishTicks => busy[e] = {} \/ "overrun" \in Faults
  BY <1>1 DEF Timed, TimedIn
<1>8. since[e] < FinishTicks \/ since[e] = FinishTicks
  BY <1>1, ReconcileAssumption
<1>9. busy[e] \subseteq missed \/ "overrun" \in Faults
  BY <1>6, <1>7, <1>8
<1>10. unread = {} /\ busy[e] \subseteq missed => o.final \union o.missed = Location /\ ~o.incomplete
  BY <1>3, <1>4
<1>11. unread # {} => o.incomplete
  BY <1>4
<1>12. Tells(o, since[e], busy[e])
  BY <1>3, <1>4, <1>6, <1>9, <1>10, <1>11 DEF Tells
<1>13. QED
  BY <1>4, <1>5, <1>12

\* What each reconciler has found out stays true.
LEMMA FoundStep ==
    ASSUME ReportInv, [Next]_vars PROVE Found'
<1>1. WellFormed /\ Timed /\ Found /\ Onward
  BY OnwardStep DEF ReportInv
<1> DEFINE FoundBy(q) ==
             /\ step[q] \in {"check", "count", "write", "delete", "clean up"} => Over(status[run[q]])
             /\ step[q] = "write" =>
                  outcome[q] \in Report /\ Tells(outcome[q], since[run[q]], busy[run[q]])
             /\ step[q] \in {"delete", "clean up"} => report[run[q]] # None
<1>2. \A q \in Reconciler : step[q] \notin {"idle", "next"} => run[q] \in Run
  BY <1>1 DEF WellFormed
<1>3. ASSUME NEW q \in Reconciler, step'[q] = step[q], run'[q] = run[q], outcome'[q] = outcome[q]
      PROVE  FoundBy(q)'
  <2>1. FoundBy(q)
    BY <1>1 DEF Found
  <2>2. CASE step[q] \in {"check", "count", "write", "delete", "clean up"}
    <3>1. run[q] \in Run /\ Over(status[run[q]]) /\ Over(status'[run[q]])
      BY <1>1, <1>2, <2>1, <2>2 DEF Onward
    <3>2. step[q] = "write" => Tells(outcome[q], since'[run[q]], busy'[run[q]])
      BY <1>1, <2>1, <3>1, TellsOn
    <3>3. step[q] \in {"delete", "clean up"} => report'[run[q]] # None
      BY <1>1, <2>1, <3>1 DEF Onward
    <3>4. QED
      BY <1>3, <2>1, <3>1, <3>2, <3>3
  <2>3. CASE step[q] \notin {"check", "count", "write", "delete", "clean up"}
    BY <1>3, <2>3
  <2>4. QED
    BY <2>2, <2>3
<1>4. ASSUME NEW r \in Reconciler, ReconcilerStep(r) PROVE FoundBy(r)'
  <2>1. step \in [Reconciler -> StepName] /\ report \in [Run -> Report \union {None}]
    BY <1>1 DEF WellFormed, TypeOK, StepName
  <2>2. UNCHANGED <<status, busy, since>>
    BY <1>1, <1>4, ReconcilerStepLocal
  <2>3. FoundBy(r)
    BY <1>1 DEF Found
  <2>4. None \notin Report
    BY ReconcileAssumption
  <2>5. ASSUME step'[r] \in {"idle", "next", "read", "status"} PROVE FoundBy(r)'
    BY <2>5
  <2>6. ASSUME NEW only \in SUBSET Run, List(r, only) PROVE FoundBy(r)'
    <3>1. step'[r] = "next"
      BY <2>1, <2>6 DEF List, Goto
    <3>2. QED
      BY <2>5, <3>1
  <2>7. ASSUME NEW e \in Run, Take(r, e) PROVE FoundBy(r)'
    <3>1. step'[r] = "read"
      BY <2>1, <2>7 DEF Take, Goto
    <3>2. QED
      BY <2>5, <3>1
  <2>8. ASSUME Return(r) \/ Die(r) \/ ReadContext(r) \/ ReportUnknown(r) \/ DeleteContext(r)
               \/ CleanUpFails(r) \/ CallFails(r)
        PROVE  FoundBy(r)'
    <3>1. step'[r] \in {"idle", "next", "status"}
      BY <2>1, <2>8 DEF Return, Die, ReadContext, ReportUnknown, DeleteContext, CleanUpFails, CallFails, Goto, local
    <3>2. QED
      BY <2>5, <3>1
  <2>9. ASSUME ReadStatus(r) PROVE FoundBy(r)'
    <3>1. run' = run /\ step'[r] = IF Over(status[run[r]]) THEN "check" ELSE "next"
      BY <2>1, <2>9 DEF ReadStatus, Goto, local, Ended, Over
    <3>2. QED
      BY <2>2, <3>1
  <2>10. ASSUME CheckReport(r) PROVE FoundBy(r)'
    <3>1. /\ step[r] = "check" /\ run' = run /\ report' = report
          /\ step'[r] = IF report[run[r]] = None THEN "count" ELSE "clean up"
      BY <2>1, <2>10 DEF CheckReport, Goto, local
    <3>2. QED
      BY <2>2, <2>3, <3>1
  <2>11. ASSUME CountOutcomes(r) PROVE FoundBy(r)'
    <3>1. step[r] = "count" /\ run' = run /\ step'[r] \in {"next", "write"}
      BY <2>1, <2>11 DEF CountOutcomes, Goto
    <3>2. step'[r] = "write" =>
            outcome'[r] \in Report /\ Tells(outcome'[r], since[run[r]], busy[run[r]])
      BY <1>1, <2>11, CountTells
    <3>3. QED
      BY <2>2, <2>3, <3>1, <3>2
  <2>12. ASSUME WriteReport(r) PROVE FoundBy(r)'
    <3>1. /\ step[r] = "write" /\ run' = run /\ step'[r] = "delete" /\ run[r] \in Run
          /\ report'[run[r]] = IF report[run[r]] = None THEN outcome[r] ELSE report[run[r]]
      BY <1>2, <2>1, <2>12 DEF WriteReport, Goto
    <3>2. outcome[r] # None
      BY <2>3, <2>4, <3>1
    <3>3. QED
      BY <2>2, <2>3, <3>1, <3>2
  <2>13. QED
    BY <1>4, <2>6, <2>7, <2>8, <2>9, <2>10, <2>11, <2>12 DEF ReconcilerStep
<1>5. Found' <=> \A q \in Reconciler : FoundBy(q)'
  BY DEF Found
<1> HIDE DEF FoundBy
<1>6. CASE RunStep \/ UNCHANGED vars
  BY <1>3, <1>5, <1>6, RunStepLocal DEF vars
<1>7. ASSUME NEW r \in Reconciler, ReconcilerStep(r) PROVE Found'
  BY <1>1, <1>3, <1>4, <1>5, <1>7, ReconcilerStepLocal
<1>8. QED
  BY <1>6, <1>7, StepKinds

\* What has been written tells what it told when it was counted.
LEMMA ReportedStep == ASSUME ReportInv, [Next]_vars PROVE Reported'
<1>1. WellFormed /\ Found /\ Reported /\ Onward
  BY OnwardStep DEF ReportInv
<1>2. ASSUME NEW e \in Run, report[e] # None
      PROVE  Over(status'[e]) /\ Tells(report'[e], since'[e], busy'[e])
  <2>1. Over(status[e]) /\ Tells(report[e], since[e], busy[e]) /\ report'[e] = report[e]
    BY <1>1, <1>2 DEF Reported, Onward
  <2>2. QED
    BY <1>1, <2>1, TellsOn
<1>3. ASSUME NEW e \in Run, report[e] = None, report'[e] # None
      PROVE  Over(status'[e]) /\ Tells(report'[e], since'[e], busy'[e])
  <2>1. PICK r \in Reconciler : WriteReport(r)
    <3>1. ~(report' = report)
      BY <1>3
    <3>2. ~RunStep /\ ~UNCHANGED vars
      BY <3>1, RunStepLocal DEF vars
    <3>3. PICK r \in Reconciler : ReconcilerStep(r)
      BY <3>2, StepKinds
    <3>4. WriteReport(r)
      BY <3>1, <3>3 DEF ReconcilerStep, List, Return, ReadContext, ReadStatus, CheckReport,
           ReportUnknown, CountOutcomes, DeleteContext, CleanUpFails, CallFails, Die, Take
    <3>5. QED
      BY <3>4
  <2>2. /\ step[r] = "write" /\ run[r] = e /\ report'[e] = outcome[r]
        /\ status' = status /\ since' = since /\ busy' = busy
    BY <1>1, <1>3, <2>1 DEF WriteReport, WellFormed, TypeOK, runs
  <2>3. QED
    BY <1>1, <2>2 DEF Found
<1>4. QED
  BY <1>2, <1>3 DEF Reported

\* No reconciler works on a run that never had a pending report.
LEMMA ListedStep == ASSUME WellFormed, Listed, [Next]_vars PROVE Listed'
<1>1. Onward /\ \A q \in Reconciler : step[q] \notin {"idle", "next"} => run[q] \in Run
  BY OnwardStep DEF WellFormed
<1>2. /\ step \in [Reconciler -> StepName] /\ queue \in [Reconciler -> SUBSET Run]
      /\ run \in [Reconciler -> Run \union {None}]
  BY DEF WellFormed, TypeOK, StepName
<1> DEFINE ListedBy(q) == /\ \A e \in queue[q] : context[e] # "none"
                          /\ step[q] \notin {"idle", "next"} => context[run[q]] # "none"
<1>3. ASSUME NEW q \in Reconciler,
             queue'[q] \subseteq queue[q],
             step'[q] \notin {"idle", "next"} => step[q] \notin {"idle", "next"} /\ run'[q] = run[q]
      PROVE  ListedBy(q)'
  <2>1. \A e \in queue'[q] : e \in Run /\ context[e] # "none"
    BY <1>2, <1>3 DEF Listed
  <2>2. step'[q] \notin {"idle", "next"} => run'[q] \in Run /\ context[run'[q]] # "none"
    BY <1>1, <1>3 DEF Listed
  <2>3. QED
    BY <1>1, <2>1, <2>2 DEF Onward
<1>4. ASSUME NEW r \in Reconciler, ReconcilerStep(r) PROVE ListedBy(r)'
  <2>1. ASSUME NEW only \in SUBSET Run, List(r, only) PROVE ListedBy(r)'
    <3>1. queue'[r] = {e \in only : context[e] = "pending"} /\ step'[r] = "next" /\ context' = context
      BY <1>2, <2>1 DEF List, Goto
    <3>2. QED
      BY <3>1
  <2>2. ASSUME NEW e \in Run, Take(r, e) PROVE ListedBy(r)'
    <3>1. queue'[r] \subseteq queue[r] /\ run'[r] = e /\ e \in queue[r] /\ context' = context
      BY <1>2, <2>2 DEF Take
    <3>2. QED
      BY <3>1 DEF Listed
  <2>3. CASE Return(r) \/ Die(r)
    <3>1. queue'[r] = {} /\ step'[r] = "idle"
      BY <1>2, <2>3 DEF Return, Die, Goto
    <3>2. QED
      BY <3>1
  <2>4. CASE \/ ReadContext(r) \/ ReadStatus(r) \/ CheckReport(r) \/ ReportUnknown(r) \/ CleanUpFails(r)
             \/ CountOutcomes(r) \/ WriteReport(r) \/ DeleteContext(r) \/ CallFails(r)
    <3>1. queue' = queue /\ run' = run /\ step[r] \notin {"idle", "next"}
      BY <2>4 DEF ReadContext, ReadStatus, CheckReport, ReportUnknown, CountOutcomes, WriteReport,
           DeleteContext, CleanUpFails, CallFails, Calls, local
    <3>2. QED
      BY <1>3, <3>1
  <2>5. QED
    BY <1>4, <2>1, <2>2, <2>3, <2>4 DEF ReconcilerStep
<1>5. Listed' <=> \A q \in Reconciler : ListedBy(q)'
  BY DEF Listed
<1>6. CASE RunStep \/ UNCHANGED vars
  <2>1. step' = step /\ queue' = queue /\ run' = run
    BY <1>6, RunStepLocal DEF vars
  <2>2. \A q \in Reconciler : ListedBy(q)'
    BY <1>3, <2>1
  <2>3. QED
    BY <1>5, <2>2
<1>7. ASSUME NEW r \in Reconciler, ReconcilerStep(r) PROVE Listed'
  <2>1. \A q \in Reconciler \ {r} : step'[q] = step[q] /\ queue'[q] = queue[q] /\ run'[q] = run[q]
    BY <1>7, ReconcilerStepLocal
  <2>2. \A q \in Reconciler \ {r} : ListedBy(q)'
    BY <1>3, <2>1
  <2>3. QED
    BY <1>4, <1>5, <1>7, <2>2
<1>8. QED
  BY <1>6, <1>7, StepKinds

\* A pending report goes only after the final one, or when it is too old.
LEMMA NotLostStep == ASSUME ReportInv, [Next]_vars PROVE NoReportLost'
<1>1. WellFormed /\ Found /\ NoReportLost /\ Onward
  BY OnwardStep DEF ReportInv
<1>2. SUFFICES ASSUME NEW e \in Run, context'[e] = "deleted"
               PROVE  report'[e] # None \/ age'[e] = DropTicks
  BY DEF NoReportLost
<1>3. report[e] # None => report'[e] # None
  BY <1>1 DEF Onward
<1>4. CASE context[e] = "deleted"
  <2>1. age[e] = DropTicks => age'[e] = DropTicks
    <3>1. ASSUME age[e] = DropTicks, Tick PROVE age'[e] = DropTicks
      BY <1>4, <3>1 DEF Tick
    <3>2. ~Tick => age' = age
      BY ReconcilerStepLocal, <1>1, StepKinds DEF RunStep, StartRun, WriteContext, RunSucceeds,
         RunEndsEarly, CommandsFinish, vars
    <3>3. QED
      BY <3>1, <3>2
  <2>2. QED
    BY <1>1, <1>3, <1>4, <2>1 DEF NoReportLost
<1>5. CASE context[e] # "deleted"
  <2>1. PICK r \in Reconciler : (DeleteContext(r) \/ CallFails(r)) /\ run[r] = e
    <3>1. ~UNCHANGED vars /\ ~RunStep
      BY <1>1, <1>2, <1>5 DEF vars, RunStep, StartRun, WriteContext, RunSucceeds, RunEndsEarly,
         CommandsFinish, Tick, WellFormed, TypeOK
    <3>2. PICK r \in Reconciler : ReconcilerStep(r)
      BY <3>1, StepKinds
    <3>3. DeleteContext(r) \/ CallFails(r)
      BY <1>2, <1>5, <3>2 DEF ReconcilerStep, List, Return, ReadContext, ReadStatus, CheckReport,
           ReportUnknown, CountOutcomes, WriteReport, CleanUpFails, Die, Take
    <3>4. run[r] = e
      BY <1>1, <1>2, <1>5, <3>3 DEF DeleteContext, CallFails, WellFormed, TypeOK
    <3>5. QED
      BY <3>3, <3>4
  <2>2. CASE DeleteContext(r)
    BY <1>1, <1>3, <2>1, <2>2 DEF DeleteContext, Found
  <2>3. CASE CallFails(r)
    BY <1>2, <1>5, <2>1, <2>3 DEF CallFails
  <2>4. QED
    BY <2>1, <2>2, <2>3
<1>6. QED
  BY <1>4, <1>5

\* The parts together.
LEMMA ReportInvStep == ReportInv /\ [Next]_vars => ReportInv'
  BY WellFormedStep, TimedStep, FoundStep, ReportedStep, ListedStep, NotLostStep DEF ReportInv

\* No run has started, nor a reconciler.
LEMMA ReportInvInit == Init => ReportInv
  BY ReconcileAssumption DEF Init, ReportInv, WellFormed, TypeOK, Timed, Found, Listed, Reported,
     NoReportLost, TimedIn, Over

\* A final report comes after the run's end, and one that is not marked tells the
\* final outcome of every location but those whose executions were never found,
\* whatever fails and whichever reconcilers race.
THEOREM ReportsTellAll == Spec => []ReportTellsAll
<1>1. ReportInv => ReportTellsAll
  BY DEF ReportInv, Reported, Tells, ReportTellsAll, Over, Ended
<1>2. QED
  BY <1>1, ReportInvInit, ReportInvStep, PTL DEF Spec

\* A pending report is dropped only for a final one, or when it is too old.
THEOREM PendingKept == Spec => []NoReportLost
<1>1. ReportInv => NoReportLost
  BY DEF ReportInv
<1>2. QED
  BY <1>1, ReportInvInit, ReportInvStep, PTL DEF Spec

-----------------------------------------------------------------------------
(* A run's life *)

\* The states a run's life is seen in: where its commands go on, and its pending report.
busyRuns == {e \in Run : busy[e] # {}}
lifeReport == [e \in Run |-> IF context[e] = "deleted" THEN "written" ELSE context[e]]

\* A reconciler that drops a pending report does so once the run's commands have
\* finished: as RunLife's Report, or after another has dropped it.
LEMMA DropIsReport ==
    ASSUME ReportInv, "overrun" \notin Faults, "children" \notin Faults, NEW e \in Run, context[e] # "none",
           UNCHANGED <<status, busy>>, context' = [context EXCEPT ![e] = "deleted"],
           report[e] # None \/ age[e] = DropTicks
    PROVE  Life!Report(e) \/ UNCHANGED Life!vars
<1>1. /\ context \in [Run -> {"none", "pending", "deleted"}]
      /\ status \in [Run -> {"none", "active", "success", "ended early"}]
      /\ FinishTicks \in Nat \ {0} /\ DropTicks \in Nat
  BY ReconcileAssumption DEF ReportInv, WellFormed, TypeOK
<1>2. Over(status[e]) /\ busy[e] = {}
  <2>1. CASE report[e] # None
    BY <2>1 DEF ReportInv, Reported, Tells
  <2>2. CASE age[e] = DropTicks
    <3>1. DropTicks > DropTicks - FinishTicks
      BY ReconcileAssumption
    <3>2. TimedIn(status[e], busy[e], since[e], age[e])
      BY DEF ReportInv, Timed
    <3>3. QED
      BY <2>2, <3>1, <3>2 DEF TimedIn
  <2>3. QED
    BY <2>1, <2>2
<1>3. busyRuns' = busyRuns /\ status' = status /\ e \notin busyRuns /\ status[e] # "active"
  BY <1>2 DEF busyRuns, Over
<1>4. CASE context[e] = "deleted"
  <2>1. context' = context
    BY <1>1, <1>4
  <2>2. QED
    BY <1>3, <2>1 DEF Life!vars, busyRuns
<1>5. CASE context[e] = "pending"
  <2>1. lifeReport[e] = "pending"
    BY <1>5 DEF lifeReport
  <2>2. lifeReport' = [lifeReport EXCEPT ![e] = "written"]
    BY <1>1 DEF lifeReport
  <2>3. QED
    BY <1>3, <2>1, <2>2 DEF Life!Report, busyRuns, lifeReport
<1>6. QED
  BY <1>1, <1>4, <1>5

\* Every step is a step of the run's life, or shows nothing of it.
LEMMA LifeStep ==
    ASSUME ReportInv, "overrun" \notin Faults, "children" \notin Faults, [Next]_vars
    PROVE  [Life!Next]_(Life!vars)
<1>1. /\ context \in [Run -> {"none", "pending", "deleted"}]
      /\ status \in [Run -> {"none", "active", "success", "ended early"}]
      /\ busy \in [Run -> SUBSET Location]
  BY DEF ReportInv, WellFormed, TypeOK
<1>2. \A r \in Reconciler : step[r] \notin {"idle", "next"} =>
        run[r] \in Run /\ context[run[r]] # "none"
  BY DEF ReportInv, WellFormed, Listed
<1>3. ASSUME UNCHANGED <<status, busy, context>> PROVE UNCHANGED Life!vars
  BY <1>3 DEF Life!vars
<1>4. ASSUME NEW e \in Run, StartRun(e) PROVE Life!Start(e)
  <2>1. /\ status[e] = "none" /\ status' = [status EXCEPT ![e] = "active"]
        /\ busy' = [busy EXCEPT ![e] = Location] /\ context' = context
    BY <1>4 DEF StartRun
  <2>2. busyRuns' = busyRuns \union {e}
    BY <1>1, <2>1, ReconcileAssumption DEF busyRuns
  <2>3. lifeReport' = lifeReport
    BY <2>1 DEF lifeReport
  <2>4. QED
    BY <2>1, <2>2, <2>3 DEF Life!Start, busyRuns, lifeReport
<1>5. ASSUME NEW e \in Run, WriteContext(e) PROVE Life!Await(e)
  <2>1. /\ status[e] # "none" /\ context[e] = "none" /\ UNCHANGED <<status, busy>>
        /\ context' = [context EXCEPT ![e] = "pending"]
    BY <1>5 DEF WriteContext, runs
  <2>2. lifeReport[e] = "none" /\ lifeReport' = [lifeReport EXCEPT ![e] = "pending"]
    BY <1>1, <2>1 DEF lifeReport
  <2>3. busyRuns' = busyRuns
    BY <2>1 DEF busyRuns
  <2>4. QED
    BY <2>1, <2>2, <2>3 DEF Life!Await, busyRuns, lifeReport
<1>6. ASSUME NEW e \in Run, NEW l \in Location, CommandsFinish(e, l)
      PROVE  Life!FinishCommands(e) \/ UNCHANGED Life!vars
  <2>1. /\ busy' = [busy EXCEPT ![e] = busy[e] \ {l}] /\ status' = status /\ context' = context
        /\ busy[e] # {}
    BY <1>6 DEF CommandsFinish
  <2>2. status[e] # "none" /\ lifeReport' = lifeReport
    BY <2>1 DEF ReportInv, Timed, TimedIn, lifeReport
  <2>3. busyRuns' = busyRuns \/ busyRuns' = busyRuns \ {e}
    BY <1>1, <2>1 DEF busyRuns
  <2>4. QED
    BY <2>1, <2>2, <2>3 DEF Life!FinishCommands, Life!vars, busyRuns, lifeReport
<1>7. ASSUME NEW e \in Run, RunSucceeds(e) PROVE Life!Succeed(e)
  <2>1. /\ status[e] = "active" /\ status' = [status EXCEPT ![e] = "success"] /\ busy[e] = {}
        /\ busy' = busy /\ context' = context
    BY <1>7 DEF RunSucceeds
  <2>2. busyRuns' = busyRuns \ {e} /\ lifeReport' = lifeReport
    BY <2>1 DEF busyRuns, lifeReport
  <2>3. QED
    BY <2>1, <2>2 DEF Life!Succeed, busyRuns, lifeReport
<1>8. ASSUME NEW e \in Run, RunEndsEarly(e) PROVE Life!EndEarly(e)
  <2>1. /\ status[e] = "active" /\ status' = [status EXCEPT ![e] = "ended early"]
        /\ busy' = busy /\ context' = context
    BY <1>8 DEF RunEndsEarly
  <2>2. busyRuns' = busyRuns /\ lifeReport' = lifeReport
    BY <2>1 DEF busyRuns, lifeReport
  <2>3. QED
    BY <2>1, <2>2 DEF Life!EndEarly, busyRuns, lifeReport
<1>9. ASSUME NEW r \in Reconciler, ReconcilerStep(r)
      PROVE  (\E e \in Run : Life!Report(e)) \/ UNCHANGED Life!vars
  <2>1. status' = status /\ busy' = busy
    BY <1>9, ReconcilerStepLocal DEF ReportInv
  <2>2. CASE context' = context
    BY <1>3, <2>1, <2>2
  <2>3. CASE context' # context
    <3>1. DeleteContext(r) \/ CallFails(r)
      BY <1>9, <2>3 DEF ReconcilerStep, List, Return, ReadContext, ReadStatus, CheckReport,
         ReportUnknown, CountOutcomes, WriteReport, CleanUpFails, Die, Take
    <3>2. /\ run[r] \in Run /\ context[run[r]] # "none"
          /\ context' = [context EXCEPT ![run[r]] = "deleted"]
          /\ report[run[r]] # None \/ age[run[r]] = DropTicks
      <4>1. CASE DeleteContext(r)
        BY <1>2, <4>1 DEF DeleteContext, ReportInv, Found
      <4>2. CASE CallFails(r)
        BY <1>2, <2>3, <4>2 DEF CallFails, Calls
      <4>3. QED
        BY <3>1, <4>1, <4>2
    <3>3. QED
      BY <2>1, <3>2, DropIsReport
  <2>4. QED
    BY <2>2, <2>3
<1>10. CASE RunStep
  <2>1. Tick => UNCHANGED <<status, busy, context>>
    BY DEF Tick
  <2>2. QED
    BY <1>3, <1>4, <1>5, <1>6, <1>7, <1>8, <1>10, <2>1 DEF RunStep, Life!Next
<1>11. CASE UNCHANGED vars
  BY <1>3, <1>11 DEF vars
<1>12. QED
  BY <1>9, <1>10, <1>11, StepKinds DEF Life!Next

\* A run whose commands finish in time, and whose executions the reconciler finds,
\* keeps its pending report until they have, whatever fails else: as far as the run guard sees, a run lives as RunLife says.
THEOREM RunLifeKept ==
    ASSUME "overrun" \notin Faults, "children" \notin Faults
    PROVE  Spec => ImplementsRunLife
<1>1. Init => Life!Init
  BY DEF Init, Life!Init
<1>2. ReportInv /\ [Next]_vars => [Life!Next]_(Life!vars)
  BY LifeStep
<1>3. QED
  BY <1>1, <1>2, ReportInvInit, ReportInvStep, PTL DEF Spec, ImplementsRunLife, Life!Spec

=============================================================================
