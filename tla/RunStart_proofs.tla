--------------------------- MODULE RunStart_proofs ---------------------------
(***************************************************************************)
(* Proofs about RunStart for every set of plans, locations and attempts:   *)
(* type correctness; that the start lock excludes; that a plan is started  *)
(* by one attempt, its runs are tracked, two plans' runs stay apart, and a *)
(* rollback waits for the reports; and that every run lives as RunLife     *)
(* says.  Each theorem names the faults it leaves out.                     *)
(***************************************************************************)
EXTENDS RunStart, TLAPS

-----------------------------------------------------------------------------
(* Type correctness *)

\* The executions of a plan.
LEMMA ExecOfPlan == ASSUME NEW p \in Plan PROVE Execs(p) \subseteq Exec
  BY RunStartAssumption DEF Execs, Exec

\* An attempt that has begun has a plan, and one about to record a run has a run.
WellFormed ==
    /\ TypeOK
    /\ \A a \in Attempt : step[a] # "idle" => plan[a] \in Plan
    /\ \A a \in Attempt : step[a] = "record" => current[a] \in Exec

\* What an attempt that has begun puts in the lock's object.
LEMMA LockPutIsLock ==
    ASSUME WellFormed, NEW a \in Attempt, step[a] # "idle", NEW r \in BOOLEAN
    PROVE /\ LockPut(a, r) \in LockRecord
          /\ LockPut(a, r) # None
          /\ LockPut(a, r).by = a
          /\ LockPut(a, r).plan = plan[a]
          /\ LockPut(a, r).released = r
          /\ LockPut(a, r).age = 0
<1>1. LockPut(a, r) \in LockRecord
  BY RunStartAssumption DEF WellFormed, LockPut, LockRecord
<1>2. QED
  BY <1>1, RunStartAssumption DEF LockPut

\* Growing older changes nothing else of the lock's object.
LEMMA OlderIsLock ==
    ASSUME NEW k \in LockRecord, NEW n \in 0..LockSeconds
    PROVE /\ [k EXCEPT !.age = n] \in LockRecord
          /\ [k EXCEPT !.age = n].by = k.by
          /\ [k EXCEPT !.age = n].plan = k.plan
          /\ [k EXCEPT !.age = n].released = k.released
  BY DEF LockRecord

\* A lock that has not run out may age by one.
LEMMA AgeBounds ==
    ASSUME NEW k \in LockRecord, k.age < LockSeconds
    PROVE k.age + 1 \in 0..LockSeconds
<1>1. k.age \in 0..LockSeconds
  BY DEF LockRecord
<1>2. QED
  BY <1>1, RunStartAssumption

\* Every action keeps the types and what they rest on.
LEMMA WellFormedStep == WellFormed /\ [Next]_vars => WellFormed'
<1> SUFFICES ASSUME WellFormed, [Next]_vars PROVE WellFormed'
    OBVIOUS
<1> USE RunStartAssumption DEF WellFormed, TypeOK, Steps, Over, Starting, Goto, FirstCheck, store, runs, local
<1>1. ASSUME NEW a \in Attempt, NEW p \in Plan, Begin(a, p) PROVE WellFormed'
  BY <1>1 DEF Begin
<1>2. ASSUME NEW a \in Attempt, RefuseBeforeLock(a) PROVE WellFormed'
  BY <1>2 DEF RefuseBeforeLock
<1>3. ASSUME NEW a \in Attempt, CreateLock(a) PROVE WellFormed'
  BY <1>3, LockPutIsLock DEF CreateLock
<1>4. ASSUME NEW a \in Attempt, ReadLock(a) PROVE WellFormed'
  <2>1. CASE LockInTheWay(plan[a])
    BY <1>4, <2>1 DEF ReadLock
  <2>2. CASE ~LockInTheWay(plan[a])
    <3>1. ETag(lock) \in Attempt \X BOOLEAN
      BY <1>4 DEF ReadLock, ETag, LockRecord
    <3>2. etag' \in [Attempt -> (Attempt \X BOOLEAN) \union {None}]
      BY <1>4, <2>2, <3>1 DEF ReadLock
    <3>3. QED
      BY <1>4, <2>2, <3>2 DEF ReadLock
  <2>3. QED
    BY <2>1, <2>2
<1>5. ASSUME NEW a \in Attempt, TakeOverLock(a) PROVE WellFormed'
  <2>1. CASE ETag(lock) = etag[a]
    <3>1. step[a] # "idle"
      BY <1>5 DEF TakeOverLock
    <3>2. LockPut(a, FALSE) \in LockRecord
      BY <3>1, LockPutIsLock
    <3>3. QED
      BY <1>5, <2>1, <3>2 DEF TakeOverLock
  <2>2. CASE ETag(lock) # etag[a]
    BY <1>5, <2>2 DEF TakeOverLock
  <2>3. QED
    BY <2>1, <2>2
<1>6. ASSUME NEW a \in Attempt, ListPending(a) PROVE WellFormed'
  BY <1>6 DEF ListPending
<1>7. ASSUME NEW a \in Attempt, CheckUnreported(a) \/ ListingFails(a) PROVE WellFormed'
  BY <1>7 DEF CheckUnreported, ListingFails
<1>8. ASSUME NEW a \in Attempt, PassGuard(a) PROVE WellFormed'
  BY <1>8 DEF PassGuard
<1>9. ASSUME NEW a \in Attempt, RefuseUnderLock(a) PROVE WellFormed'
  BY <1>9 DEF RefuseUnderLock
<1>10. ASSUME NEW a \in Attempt, Claim(a) PROVE WellFormed'
  BY <1>10, ExecOfPlan DEF Claim
<1>11. ASSUME NEW a \in Attempt, NEW e \in Exec, StartLocation(a, e) PROVE WellFormed'
  BY <1>11 DEF StartLocation, Launch
<1>12. ASSUME NEW a \in Attempt, RecordRun(a) PROVE WellFormed'
  <2>1. recorded' \subseteq Exec
    <3>1. current[a] \in Exec /\ recorded' \subseteq recorded \union {current[a]}
      BY <1>12 DEF RecordRun
    <3>2. QED
      BY <3>1
  <2>2. CASE todo[a] = {}
    <3>1. /\ step' = [step EXCEPT ![a] = "report"]
          /\ todo' = [todo EXCEPT ![a] = ran[a]]
          /\ current' = [current EXCEPT ![a] = None]
          /\ UNCHANGED <<lock, runs, claimed, report, listed, plan, etag, seen, ran>>
      BY <1>12, <2>2, Zenon DEF RecordRun
    <3>2. step' \in [Attempt -> Steps] /\ plan' = plan
      BY <3>1
    <3>3. todo' \in [Attempt -> SUBSET Exec]
      BY <3>1
    <3>4. current' \in [Attempt -> Exec \union {None}]
      BY <3>1
    <3>5. \A b \in Attempt : step'[b] # "idle" => plan'[b] \in Plan
      BY <1>12, <3>1 DEF RecordRun
    <3>6. \A b \in Attempt : step'[b] = "record" => current'[b] \in Exec
      BY <3>1
    <3>7. QED
      BY <2>1, <3>1, <3>2, <3>3, <3>4, <3>5, <3>6
  <2>3. CASE todo[a] # {}
    BY <1>12, <2>1, <2>3 DEF RecordRun
  <2>4. QED
    BY <2>2, <2>3
<1>13. ASSUME NEW a \in Attempt, NEW e \in Exec, FailStart(a, e) PROVE WellFormed'
  BY <1>13 DEF FailStart, Launch
<1>14. ASSUME NEW a \in Attempt, NEW e \in Exec, ReportRun(a, e) PROVE WellFormed'
  BY <1>14 DEF ReportRun
<1>15. ASSUME NEW a \in Attempt, ListRuns(a) PROVE WellFormed'
  <2>1. listed' \in [Plan -> SUBSET Exec]
    BY <1>15 DEF ListRuns
  <2>2. QED
    BY <1>15, <2>1 DEF ListRuns
<1>16. ASSUME NEW a \in Attempt, Release(a) PROVE WellFormed'
  <2>1. lock' \in LockRecord \union {None}
    BY <1>16, LockPutIsLock DEF Release
  <2>2. QED
    BY <1>16, <2>1 DEF Release
<1>17. ASSUME NEW a \in Attempt, Crash(a) PROVE WellFormed'
  BY <1>17 DEF Crash
<1>18. ASSUME NEW e \in Exec, RunSucceeds(e) PROVE WellFormed'
  BY <1>18 DEF RunSucceeds
<1>19. ASSUME NEW e \in Exec, RunEndsEarly(e) PROVE WellFormed'
  BY <1>19 DEF RunEndsEarly
<1>20. ASSUME NEW e \in Exec, CommandsFinish(e) PROVE WellFormed'
  BY <1>20 DEF CommandsFinish
<1>21. ASSUME NEW e \in Exec, Reconcile(e) PROVE WellFormed'
  BY <1>21 DEF Reconcile
<1>22. ASSUME Tick PROVE WellFormed'
  <2>1. lock # None /\ lock.age < LockSeconds /\ UNCHANGED <<store, runs, step, local>>
    BY <1>22, Zenon DEF Tick
  <2>2. lock \in LockRecord /\ lock.age + 1 \in 0..LockSeconds
    <3>1. lock \in LockRecord
      BY <2>1
    <3>2. QED
      BY <2>1, <3>1, AgeBounds
  <2>3. lock' \in LockRecord
    BY <1>22, <2>2, OlderIsLock, Zenon DEF Tick
  <2>4. QED
    BY <2>1, <2>3
<1>23. CASE UNCHANGED vars
  BY <1>23 DEF vars
<1>24. QED
  BY <1>1, <1>2, <1>3, <1>4, <1>5, <1>6, <1>7, <1>8, <1>9, <1>10, <1>11, <1>12, <1>13,
     <1>14, <1>15, <1>16, <1>17, <1>18, <1>19, <1>20, <1>21, <1>22, <1>23
       DEF Next, Work, Environment

\* Every state's records have their types, for every value of the constants.
THEOREM TypeCorrect == Spec => []TypeOK
<1>1. Init => WellFormed
  BY RunStartAssumption DEF Init, WellFormed, TypeOK, Steps, Over
<1>2. WellFormed /\ [Next]_vars => WellFormed'
  BY WellFormedStep
<1>3. WellFormed => TypeOK
  BY DEF WellFormed
<1>4. QED
  BY <1>1, <1>2, <1>3, PTL DEF Spec


-----------------------------------------------------------------------------
(* The start lock excludes *)

\* No plan is tried by two live attempts.
NoDuplicate ==
    \A a, b \in Attempt :
        a # b /\ step[a] \notin Over /\ step[b] \notin Over => plan[a] # plan[b]

\* The lock names an attempt that put it, with its plan, and ages only after it.
LockOwner ==
    lock # None =>
        /\ step[lock.by] \notin {"idle", "lock", "takeover"}
        /\ lock.plan = plan[lock.by]
        /\ lock.age > 0 => step[lock.by] \in Over

\* An attempt that is starting holds the lock.
StartersHold ==
    \A a \in Attempt : step[a] \in Starting =>
        lock # None /\ lock.by = a /\ ~lock.released

\* An attempt sets out to take over an unreleased lock only from one that is over.
TakeoverFromOver ==
    \A a, b \in Attempt :
        step[b] = "takeover" /\ etag[b] = <<a, FALSE>> => step[a] \in {"done", "dead"}

LockInv == WellFormed /\ NoDuplicate /\ LockOwner /\ StartersHold /\ TakeoverFromOver

\* A step of attempt a that touches neither the lock nor what a knows of it,
\* and starts nothing that does not hold the lock already.
Move(a, s) ==
    /\ step[a] \notin Over
    /\ s \in Starting \union {"done", "dead"}
    /\ s \in Starting => step[a] \in Starting
    /\ Goto(a, s)
    /\ UNCHANGED <<lock, plan, etag>>

Still == UNCHANGED <<lock, step, plan, etag>>

\* What a step does to the lock and to where the attempts are.
LEMMA StepKinds ==
    ASSUME WellFormed, [Next]_vars
    PROVE  \/ Still
           \/ Tick
           \/ \E a \in Attempt :
                \/ \E s \in Steps : Move(a, s)
                \/ CreateLock(a) \/ ReadLock(a) \/ TakeOverLock(a) \/ Release(a)
                \/ \E p \in Plan : Begin(a, p)
<1> DEFINE Kinds(a) == \/ \E s \in Steps : Move(a, s)
                       \/ CreateLock(a) \/ ReadLock(a) \/ TakeOverLock(a) \/ Release(a)
                       \/ \E p \in Plan : Begin(a, p)
<1> USE DEF Steps, Over, Starting, Goto, store, runs, local, Move
<1>1. ASSUME NEW a \in Attempt, RefuseBeforeLock(a) PROVE Kinds(a)
  BY <1>1 DEF RefuseBeforeLock
<1>2. ASSUME NEW a \in Attempt, ListPending(a) PROVE Kinds(a)
  BY <1>2 DEF ListPending
<1>3. ASSUME NEW a \in Attempt, CheckUnreported(a) \/ ListingFails(a) PROVE Kinds(a)
  BY <1>3 DEF CheckUnreported, ListingFails
<1>4. ASSUME NEW a \in Attempt, PassGuard(a) PROVE Kinds(a)
  BY <1>4 DEF PassGuard
<1>5. ASSUME NEW a \in Attempt, RefuseUnderLock(a) PROVE Kinds(a)
  BY <1>5 DEF RefuseUnderLock
<1>6. ASSUME NEW a \in Attempt, Claim(a) PROVE Kinds(a)
  BY <1>6 DEF Claim
<1>7. ASSUME NEW a \in Attempt, NEW e \in Exec, StartLocation(a, e) PROVE Kinds(a)
  BY <1>7 DEF StartLocation
<1>8. ASSUME NEW a \in Attempt, RecordRun(a) PROVE Kinds(a)
  BY <1>8 DEF RecordRun
<1>9. ASSUME NEW a \in Attempt, NEW e \in Exec, FailStart(a, e) PROVE Kinds(a)
  BY <1>9 DEF FailStart
<1>10. ASSUME NEW a \in Attempt, NEW e \in Exec, ReportRun(a, e) PROVE Kinds(a)
  BY <1>10 DEF ReportRun
<1>11. ASSUME NEW a \in Attempt, ListRuns(a) PROVE Kinds(a)
  BY <1>11 DEF ListRuns
<1>12. ASSUME NEW a \in Attempt, Crash(a) PROVE Kinds(a)
  BY <1>12 DEF Crash
<1>13. ASSUME NEW e \in Exec,
              RunSucceeds(e) \/ RunEndsEarly(e) \/ CommandsFinish(e) \/ Reconcile(e)
       PROVE Still
  BY <1>13 DEF RunSucceeds, RunEndsEarly, CommandsFinish, Reconcile, Still
<1>14. CASE UNCHANGED vars
  BY <1>14 DEF vars, Still
<1> HIDE DEF Kinds, Steps, Over, Starting, Goto, store, runs, local, Move
<1>15. ASSUME NEW a \in Attempt, Work(a) \/ Crash(a) \/ \E p \in Plan : Begin(a, p)
       PROVE Kinds(a)
  <2>1. CreateLock(a) \/ ReadLock(a) \/ TakeOverLock(a) \/ Release(a)
            \/ (\E p \in Plan : Begin(a, p)) => Kinds(a)
    BY DEF Kinds
  <2>2. QED
    BY <1>1, <1>2, <1>3, <1>4, <1>5, <1>6, <1>7, <1>8, <1>9, <1>10, <1>11, <1>12,
       <1>15, <2>1 DEF Work
<1>16. QED
  BY <1>13, <1>14, <1>15 DEF Next, Environment, Kinds

\* Every step keeps the lock its owner's, until the owner gives it back.
LEMMA LockInvStep ==
    ASSUME "slow" \notin Faults, "duplicate" \notin Faults, LockInv, [Next]_vars
    PROVE  LockInv'
<1> USE DEF LockInv
<1>1. WellFormed'
  BY WellFormedStep
<1> DEFINE Inv == NoDuplicate /\ LockOwner /\ StartersHold /\ TakeoverFromOver
<1> USE DEF NoDuplicate, LockOwner, StartersHold, TakeoverFromOver, Steps, Over, Starting, Goto
<1>2. lock # None => lock \in LockRecord /\ lock.by \in Attempt
  BY DEF WellFormed, TypeOK, LockRecord
<1>3. step \in [Attempt -> Steps] /\ plan \in [Attempt -> Plan \union {None}]
      /\ etag \in [Attempt -> (Attempt \X BOOLEAN) \union {None}]
  BY DEF WellFormed, TypeOK
<1>4. ASSUME Still PROVE Inv'
  BY <1>4 DEF Still
<1>5. ASSUME NEW a \in Attempt, NEW s \in Steps, Move(a, s) PROVE Inv'
  <2>1. \A b \in Attempt : step'[b] = IF b = a THEN s ELSE step[b]
    BY <1>3, <1>5 DEF Move
  <2>2. NoDuplicate'
    BY <1>2, <1>3, <1>5, <2>1 DEF Move
  <2>3. LockOwner'
    BY <1>2, <1>3, <1>5, <2>1 DEF Move
  <2>4. StartersHold'
    BY <1>2, <1>3, <1>5, <2>1 DEF Move
  <2>5. TakeoverFromOver'
    BY <1>2, <1>3, <1>5, <2>1 DEF Move
  <2>6. QED
    BY <2>2, <2>3, <2>4, <2>5
<1>6. ASSUME NEW a \in Attempt, NEW p \in Plan, Begin(a, p) PROVE Inv'
  <2>1. /\ \A b \in Attempt : step'[b] = IF b = a THEN "lock" ELSE step[b]
        /\ \A b \in Attempt : plan'[b] = IF b = a THEN p ELSE plan[b]
    BY <1>3, <1>6 DEF Begin
  <2>2. NoDuplicate'
    BY <1>2, <1>3, <1>6, <2>1 DEF Begin
  <2>3. LockOwner'
    BY <1>2, <1>3, <1>6, <2>1 DEF Begin
  <2>4. StartersHold'
    BY <1>2, <1>3, <1>6, <2>1 DEF Begin
  <2>5. TakeoverFromOver'
    BY <1>2, <1>3, <1>6, <2>1 DEF Begin
  <2>6. QED
    BY <2>2, <2>3, <2>4, <2>5
<1>7. ASSUME NEW a \in Attempt, CreateLock(a) PROVE Inv'
  <2>1. /\ \A b \in Attempt : step'[b] = IF b = a THEN FirstCheck(a) ELSE step[b]
        /\ FirstCheck(a) \in {"unreported", "list"}
    BY <1>3, <1>7 DEF CreateLock, FirstCheck
  <2>2. UNCHANGED <<plan, etag>> /\ step[a] = "lock" /\ lock = None /\ lock' = LockPut(a, FALSE)
    BY <1>7 DEF CreateLock, local
  <2>3. lock' # None /\ lock'.by = a /\ lock'.plan = plan[a] /\ ~lock'.released /\ lock'.age = 0
    BY <2>2, LockPutIsLock
  <2>4. NoDuplicate' /\ StartersHold'
    BY <1>3, <2>1, <2>2, <2>3
  <2>5. LockOwner'
    <3>1. step'[a] \in {"unreported", "list"} /\ plan'[a] = plan[a]
      BY <2>1, <2>2
    <3>2. QED
      BY <2>3, <3>1
  <2>6. TakeoverFromOver'
    BY <1>3, <2>1, <2>2
  <2>7. QED
    BY <2>4, <2>5, <2>6
<1>8. ASSUME NEW a \in Attempt, ReadLock(a) PROVE Inv'
  <2>1. \A b \in Attempt : b # a => step'[b] = step[b] /\ etag'[b] = etag[b]
    BY <1>3, <1>8 DEF ReadLock
  <2>2. step'[a] \in {"done", "takeover"}
    BY <1>3, <1>8 DEF ReadLock
  <2>3. NoDuplicate'
    BY <1>2, <1>3, <1>8, <2>1, <2>2 DEF ReadLock, LockInTheWay, ETag
  <2>4. LockOwner'
    BY <1>2, <1>3, <1>8, <2>1, <2>2 DEF ReadLock, LockInTheWay, ETag
  <2>5. StartersHold'
    BY <1>2, <1>3, <1>8, <2>1, <2>2 DEF ReadLock, LockInTheWay, ETag
  <2>6. TakeoverFromOver'
    <3>1. CASE LockInTheWay(plan[a])
      <4>1. etag' = etag /\ step' = [step EXCEPT ![a] = "done"] /\ step[a] = "lock"
        BY <1>8, <3>1 DEF ReadLock
      <4>2. QED
        BY <1>3, <4>1
    <3>2. CASE ~LockInTheWay(plan[a])
      <4>1. lock \in LockRecord /\ lock.by \in Attempt /\ lock.age \in Nat
            /\ lock.released \in BOOLEAN
        BY <1>2, <1>8 DEF ReadLock, LockRecord
      <4>2. ASSUME ~lock.released PROVE step[lock.by] \in {"done", "dead"}
        <5>1. lock.age > 0 \/ lock.plan = plan[a]
          BY <3>2, <4>1, <4>2, RunStartAssumption DEF LockInTheWay
        <5>2. lock.by # a /\ step[a] \notin Over
          BY <1>8 DEF ReadLock
        <5>3. step[lock.by] \in Over
          BY <1>3, <1>8, <4>1, <5>1, <5>2 DEF ReadLock
        <5>4. QED
          BY <1>8, <5>3 DEF ReadLock
      <4>3. etag'[a] = <<lock.by, lock.released>>
        BY <1>3, <1>8, <3>2 DEF ReadLock, ETag
      <4>4. ASSUME NEW c \in Attempt, etag'[a] = <<c, FALSE>>
            PROVE  c = lock.by /\ ~lock.released
        <5>1. <<lock.by, lock.released>> = <<c, FALSE>>
          BY <4>3, <4>4
        <5>2. lock.by = c /\ lock.released = FALSE
          BY <5>1, Zenon
        <5>3. QED
          BY <5>2
      <4>5. \A c \in Attempt : step[c] \in {"done", "dead"} => step'[c] = step[c]
        BY <1>8, <2>1 DEF ReadLock
      <4>6. QED
        BY <2>1, <4>2, <4>4, <4>5
    <3>3. QED
      BY <3>1, <3>2
  <2>7. QED
    BY <2>3, <2>4, <2>5, <2>6
<1>9. ASSUME NEW a \in Attempt, TakeOverLock(a) PROVE Inv'
  <2>1. \A b \in Attempt : b # a => step'[b] = step[b] /\ etag'[b] = etag[b]
    BY <1>3, <1>9 DEF TakeOverLock
  <2>2. step'[a] \in {"done", "unreported", "list"}
    BY <1>3, <1>9 DEF TakeOverLock, FirstCheck
  <2>3. NoDuplicate'
    BY <1>2, <1>3, <1>9, <2>1, <2>2 DEF TakeOverLock, LockPut, ETag
  <2>4. LockOwner'
    BY <1>2, <1>3, <1>9, <2>1, <2>2 DEF TakeOverLock, LockPut, ETag
  <2>5. StartersHold'
    <3>1. CASE ETag(lock) = etag[a]
      <4>1. lock' # None /\ lock'.by = a /\ ~lock'.released
        <5>1. step[a] # "idle" /\ lock' = LockPut(a, FALSE)
          BY <1>9, <3>1 DEF TakeOverLock
        <5>2. QED
          BY <5>1, LockPutIsLock
      <4>2. ASSUME NEW c \in Attempt, step[c] \in Starting PROVE FALSE
        <5>1. etag[a] = <<c, FALSE>>
          BY <1>2, <3>1, <4>2 DEF ETag, WellFormed, TypeOK, LockRecord
        <5>2. QED
          BY <1>9, <4>2, <5>1 DEF TakeOverLock
      <4>3. QED
        BY <2>1, <4>1, <4>2
    <3>2. CASE ETag(lock) # etag[a]
      BY <1>3, <1>9, <2>1, <3>2 DEF TakeOverLock
    <3>3. QED
      BY <3>1, <3>2
  <2>6. TakeoverFromOver'
    <3>1. ASSUME NEW b \in Attempt, NEW c \in Attempt, step'[b] = "takeover",
                 etag'[b] = <<c, FALSE>>
          PROVE step'[c] \in {"done", "dead"}
      <4>1. b # a
        BY <2>2, <3>1
      <4>2. step[c] \in {"done", "dead"}
        <5>1. step[b] = "takeover" /\ etag[b] = <<c, FALSE>>
          BY <2>1, <3>1, <4>1
        <5>2. QED
          BY <5>1
      <4>3. c # a
        BY <1>9, <4>2 DEF TakeOverLock
      <4>4. QED
        BY <2>1, <4>2, <4>3
    <3>2. QED
      BY <3>1
  <2>7. QED
    BY <2>3, <2>4, <2>5, <2>6
<1>10. ASSUME NEW a \in Attempt, Release(a) PROVE Inv'
  <2>1. \A b \in Attempt : step'[b] = IF b = a THEN "done" ELSE step[b]
    BY <1>3, <1>10 DEF Release
  <2>2. NoDuplicate'
    BY <1>2, <1>3, <1>10, <2>1 DEF Release, LockPut, ETag, local
  <2>3. LockOwner'
    <3>1. CASE lock' = lock
      BY <1>2, <1>3, <1>10, <2>1, <3>1 DEF Release, local
    <3>2. CASE lock' = LockPut(a, TRUE)
      <4>1. step[a] = "release" /\ UNCHANGED <<plan, etag>>
        BY <1>10 DEF Release, local
      <4>2. lock'.by = a /\ lock'.plan = plan[a]
        BY <3>2, <4>1, LockPutIsLock
      <4>3. QED
        BY <2>1, <4>1, <4>2
    <3>3. QED
      BY <1>10, <3>1, <3>2 DEF Release
  <2>4. StartersHold'
    BY <1>2, <1>3, <1>10, <2>1 DEF Release, LockPut, ETag, local
  <2>5. TakeoverFromOver'
    BY <1>2, <1>3, <1>10, <2>1 DEF Release, LockPut, ETag, local
  <2>6. QED
    BY <2>2, <2>3, <2>4, <2>5
<1>11. ASSUME Tick PROVE Inv'
  <2>1. lock # None /\ lock.age < LockSeconds /\ UNCHANGED <<store, runs, step, local>>
        /\ lock' = [lock EXCEPT !.age = lock.age + 1]
        /\ step[lock.by] \in Over
    BY <1>11, Zenon DEF Tick
  <2>2. lock \in LockRecord /\ lock.age + 1 \in 0..LockSeconds
    BY <1>2, <2>1, AgeBounds
  <2>3. lock'.by = lock.by /\ lock'.plan = lock.plan /\ lock'.released = lock.released
    BY <2>1, <2>2, OlderIsLock, Zenon
  <2>4. lock' # None
    <3>1. lock' \in LockRecord
      BY <2>1, <2>2, OlderIsLock, Zenon
    <3>2. QED
      BY <3>1, RunStartAssumption
  <2>5. UNCHANGED <<step, plan, etag>>
    BY <2>1 DEF local
  <2>6. step[lock.by] \in Over
    BY <2>1
  <2>7. QED
    BY <2>3, <2>4, <2>5, <2>6, <1>2, <2>1
<1> HIDE DEF Inv, NoDuplicate, LockOwner, StartersHold, TakeoverFromOver, Steps, Over, Starting, Goto
<1>12. Inv'
  BY <1>4, <1>5, <1>6, <1>7, <1>8, <1>9, <1>10, <1>11, StepKinds
<1>13. QED
  BY <1>1, <1>12 DEF Inv

\* Before any attempt, the lock is nobody's.
LEMMA LockInvInit == Init => LockInv
  BY RunStartAssumption DEF Init, LockInv, WellFormed, TypeOK, Steps, Over, Starting,
       NoDuplicate, LockOwner, StartersHold, TakeoverFromOver

\* While no start outlasts the lock's lifetime and no plan is invoked beside a
\* live attempt at it, one plan starts at a time.
THEOREM OneStart ==
    ASSUME "slow" \notin Faults, "duplicate" \notin Faults
    PROVE  Spec => []OneStartAtATime
<1>1. Init => LockInv
  BY LockInvInit
<1>2. LockInv /\ [Next]_vars => LockInv'
  BY LockInvStep
<1>3. LockInv => OneStartAtATime
  BY DEF LockInv, StartersHold, OneStartAtATime
<1>4. QED
  BY <1>1, <1>2, <1>3, PTL DEF Spec

-----------------------------------------------------------------------------
(* What becomes of the runs *)

BeforeClaim == {"idle", "lock", "takeover", "unreported", "list", "guard", "claim"}
AfterClaim  == {"start", "record", "report", "close"}

\* The executions of plan p in the locations it covers.
Own(p) == {e \in Exec : PlanOf(e) = p /\ Overlaps(e, p)}

\* An attempt starts and reports only its own plan's executions.
OwnRuns ==
    \A a \in Attempt :
        /\ ran[a] \subseteq Own(plan[a])
        /\ todo[a] \subseteq Own(plan[a])
        /\ step[a] \in BeforeClaim => ran[a] = {} /\ todo[a] = {}
        /\ step[a] = "record" => current[a] \in ran[a]
        /\ step[a] = "report" => todo[a] \subseteq ran[a]
        /\ \A e \in ran[a] : ssm[e] # "none"

\* What a run's status says of its commands and of its report.
RunRecords ==
    \A e \in Exec :
        /\ e \in busy => ssm[e] \in {"active", "ended early"}
        /\ report[e] # "none" => ssm[e] # "none"
        /\ report[e] = "written" => ssm[e] # "active" /\ e \notin busy

\* Attempt a has claimed its plan and started, or may start, its executions.
Claimant(a) == step[a] \in AfterClaim \/ ran[a] # {}

OneClaimant ==
    /\ \A a \in Attempt : Claimant(a) => plan[a] \in claimed
    /\ \A a, b \in Attempt : a # b /\ Claimant(a) /\ Claimant(b) => plan[a] # plan[b]

RunInv == WellFormed /\ OwnRuns /\ RunRecords /\ OneClaimant

\* A step of attempt a that starts, records and reports no execution.
Walk(a, s) ==
    /\ step' = [step EXCEPT ![a] = s]
    /\ UNCHANGED <<store, runs, todo, ran, current>>
    /\ \A b \in Attempt \ {a} : seen'[b] = seen[b] /\ plan'[b] = plan[b]
    /\ plan'[a] = plan[a] \/ step[a] = "idle"
    /\ \/ step[a] = "idle" /\ s = "lock"
       \/ step[a] \in {"lock", "takeover"} /\ s \in {"takeover", "done", FirstCheck(a)}
       \/ step[a] = "unreported" /\ s = "list" /\ ~Unreported(plan[a])
       \/ step[a] = "list" /\ s = "guard" /\ seen'[a] = {e \in Exec : report[e] = "pending"}
       \/ step[a] = "list" /\ s = "claim" /\ "listing" \in Faults
       \/ step[a] = "guard" /\ s = "claim" /\ ~Blocked(a)
       \/ step[a] \in {"unreported", "guard", "claim"} /\ s = "release"
       \/ step[a] = "release" /\ s = "done"
       \/ step[a] \notin Over /\ s = "dead" /\ "crash" \in Faults

\* A step that leaves the runs, their records and the attempts alone.
Elsewhere == UNCHANGED <<store, runs, step, local>>

\* What a step of an attempt does to its runs.
RunStep(a) ==
    \/ \E s \in Steps : Walk(a, s)
    \/ Claim(a) \/ RecordRun(a) \/ ListRuns(a)
    \/ \E e \in Exec : StartLocation(a, e) \/ FailStart(a, e) \/ ReportRun(a, e)

\* A step of SSM or of the reconciler for one run.
EnvStep(e) == RunSucceeds(e) \/ RunEndsEarly(e) \/ CommandsFinish(e) \/ Reconcile(e)

\* Every step is one of a few kinds, as far as the runs are concerned.
LEMMA RunKinds ==
    ASSUME WellFormed, [Next]_vars
    PROVE  \/ Elsewhere
           \/ \E a \in Attempt : RunStep(a)
           \/ \E e \in Exec : EnvStep(e)
<1> DEFINE Walks(a) == \E s \in Steps : Walk(a, s)
<1> USE DEF WellFormed, TypeOK, Steps, Over, Starting, Goto, store, runs, local, Walk, FirstCheck
<1>1. ASSUME NEW a \in Attempt, RefuseBeforeLock(a) PROVE Walks(a)
  BY <1>1 DEF RefuseBeforeLock
<1>2. ASSUME NEW a \in Attempt, CreateLock(a) PROVE Walks(a)
  BY <1>2 DEF CreateLock
<1>3. ASSUME NEW a \in Attempt, ReadLock(a) PROVE Walks(a)
  BY <1>3 DEF ReadLock
<1>4. ASSUME NEW a \in Attempt, TakeOverLock(a) PROVE Walks(a)
  BY <1>4 DEF TakeOverLock
<1>5. ASSUME NEW a \in Attempt, CheckUnreported(a) PROVE Walks(a)
  BY <1>5 DEF CheckUnreported
<1>6. ASSUME NEW a \in Attempt, ListPending(a) PROVE Walks(a)
  <2>1. /\ step' = [step EXCEPT ![a] = "guard"] /\ step[a] = "list"
        /\ seen' = [seen EXCEPT ![a] = {e \in Exec : report[e] = "pending"}]
        /\ UNCHANGED <<store, runs, todo, ran, current, plan>>
    BY <1>6 DEF ListPending
  <2> DEFINE P == {e \in Exec : report[e] = "pending"}
  <2>2. seen' = [seen EXCEPT ![a] = P]
    BY <2>1
  <2> HIDE DEF P
  <2>3. seen'[a] = P /\ \A b \in Attempt \ {a} : seen'[b] = seen[b]
    BY <2>2
  <2>4. seen'[a] = {e \in Exec : report[e] = "pending"}
    BY <2>3 DEF P
  <2>5. Walk(a, "guard")
    BY <2>1, <2>3, <2>4
  <2>6. QED
    BY <2>5
<1>7. ASSUME NEW a \in Attempt, ListingFails(a) PROVE Walks(a)
  BY <1>7 DEF ListingFails
<1>8. ASSUME NEW a \in Attempt, PassGuard(a) PROVE Walks(a)
  BY <1>8 DEF PassGuard
<1>9. ASSUME NEW a \in Attempt, RefuseUnderLock(a) PROVE Walks(a)
  BY <1>9 DEF RefuseUnderLock
<1>10. ASSUME NEW a \in Attempt, Release(a) PROVE Walks(a)
  BY <1>10 DEF Release
<1>11. ASSUME NEW a \in Attempt, Crash(a) PROVE Walks(a)
  BY <1>11 DEF Crash
<1>12. ASSUME NEW a \in Attempt, NEW p \in Plan, Begin(a, p) PROVE Walks(a)
  BY <1>12 DEF Begin
<1>13. CASE UNCHANGED vars \/ Tick
  BY <1>13 DEF vars, Tick, Elsewhere
<1> HIDE DEF Walks
<1>14. ASSUME NEW a \in Attempt, Work(a) \/ Crash(a) \/ \E p \in Plan : Begin(a, p)
       PROVE RunStep(a)
  <2>1. Walks(a) => RunStep(a)
    BY DEF Walks, RunStep
  <2>2. QED
    BY <1>1, <1>2, <1>3, <1>4, <1>5, <1>6, <1>7, <1>8, <1>9, <1>10, <1>11, <1>12,
       <1>14, <2>1 DEF Work, RunStep
<1>15. QED
  BY <1>13, <1>14 DEF Next, Environment, EnvStep

\* A plan's executions are its own, in the locations it covers.
LEMMA ExecsAreOwn == ASSUME NEW p \in Plan PROVE Execs(p) \subseteq Own(p)
<1>1. SUFFICES ASSUME NEW e \in Execs(p) PROVE e \in Own(p)
  OBVIOUS
<1>2. PICK l \in Scope[p] : e = <<p, l>>
  BY DEF Execs
<1>3. e[1] = p /\ e[2] = l
  BY <1>2
<1>4. e \in Exec
  BY ExecOfPlan
<1>5. QED
  BY <1>3, <1>4 DEF Own, PlanOf, Overlaps, LocationOf

\* What a launch of e does: e is started unless it was already, and no other run.
Launched(e) ==
    /\ \A f \in Exec : ssm'[f] = IF f = e /\ ssm[e] = "none" THEN "active" ELSE ssm[f]
    /\ \A f \in Exec : f \in busy' <=> f \in busy \/ (f = e /\ ssm[e] = "none")

\* A launch does no more than that.
LEMMA LaunchStarts ==
    ASSUME WellFormed, NEW e \in Exec, Launch(e)
    PROVE  Launched(e)
  BY DEF Launch, Launched, WellFormed, TypeOK

\* What each step of an attempt changes, attempt by attempt and run by run.
ClaimEffect(a) ==
    /\ step[a] = "claim" /\ plan[a] \in Plan /\ plan[a] \notin claimed
    /\ claimed' = claimed \union {plan[a]}
    /\ \A b \in Attempt : b # a => todo'[b] = todo[b] /\ step'[b] = step[b]
    /\ todo'[a] = Execs(plan[a])
    /\ step'[a] \in {"start", "release"}
    /\ ssm' = ssm /\ busy' = busy /\ report' = report /\ recorded' = recorded
    /\ listed' = listed /\ plan' = plan /\ ran' = ran /\ current' = current /\ seen' = seen

StartEffect(a, e) ==
    /\ step[a] = "start" /\ e \in todo[a] /\ Launched(e)
    /\ \A b \in Attempt : b # a => todo'[b] = todo[b] /\ ran'[b] = ran[b]
    /\ \A b \in Attempt : b # a => current'[b] = current[b] /\ step'[b] = step[b]
    /\ todo'[a] = todo[a] \ {e} /\ ran'[a] = ran[a] \union {e}
    /\ current'[a] = e /\ step'[a] = "record"
    /\ claimed' = claimed /\ report' = report /\ recorded' = recorded
    /\ listed' = listed /\ plan' = plan /\ seen' = seen

RecordEffect(a) ==
    /\ step[a] = "record"
    /\ \A b \in Attempt : b # a =>
          step'[b] = step[b] /\ todo'[b] = todo[b] /\ current'[b] = current[b]
    /\ \/ step'[a] = "report" /\ todo'[a] = ran[a]
       \/ step'[a] = "start" /\ todo'[a] = todo[a]
    /\ recorded' = recorded \union {current[a]} \/ ("record" \in Faults /\ recorded' = recorded)
    /\ ssm' = ssm /\ busy' = busy /\ claimed' = claimed /\ report' = report
    /\ listed' = listed /\ plan' = plan /\ ran' = ran /\ seen' = seen

FailEffect(a, e) ==
    /\ step[a] = "start" /\ e \in todo[a]
    /\ (ssm' = ssm /\ busy' = busy) \/ ("lost reply" \in Faults /\ Launched(e))
    /\ \A b \in Attempt : b # a => todo'[b] = todo[b] /\ step'[b] = step[b]
    /\ todo'[a] = ran[a]
    /\ step'[a] = IF ran[a] = {} THEN "release" ELSE "report"
    /\ claimed' = claimed /\ report' = report /\ recorded' = recorded /\ listed' = listed
    /\ plan' = plan /\ ran' = ran /\ current' = current /\ seen' = seen

ReportEffect(a, e) ==
    /\ step[a] = "report" /\ e \in todo[a]
    /\ \A b \in Attempt : b # a => todo'[b] = todo[b] /\ step'[b] = step[b]
    /\ todo'[a] = todo[a] \ {e}
    /\ step'[a] = IF todo[a] = {e} THEN "close" ELSE "report"
    /\ \A f \in Exec : f # e => report'[f] = report[f]
    /\ report'[e] = report[e] \/ (report[e] = "none" /\ report'[e] = "pending")
    /\ report'[e] # "none" \/ "report" \in Faults
    /\ ssm' = ssm /\ busy' = busy /\ claimed' = claimed /\ recorded' = recorded
    /\ listed' = listed /\ plan' = plan /\ ran' = ran /\ current' = current /\ seen' = seen

ListEffect(a) ==
    /\ step[a] = "close"
    /\ \A b \in Attempt : b # a => step'[b] = step[b]
    /\ step'[a] = "release"
    /\ \A p \in Plan : p # plan[a] => listed'[p] = listed[p]
    /\ \/ listed'[plan[a]] = IF listed[plan[a]] = {} THEN ran[a] ELSE listed[plan[a]]
       \/ "record" \in Faults /\ listed' = listed
    /\ ssm' = ssm /\ busy' = busy /\ claimed' = claimed /\ report' = report
    /\ recorded' = recorded /\ plan' = plan /\ ran' = ran /\ todo' = todo
    /\ current' = current /\ seen' = seen

\* What SSM and the reconciler change: one run's status, commands or report.
EnvEffect(e) ==
    /\ ssm[e] # "none" /\ ssm'[e] # "none"
    /\ \A f \in Exec : f # e => ssm'[f] = ssm[f] /\ report'[f] = report[f]
    /\ busy' \subseteq busy
    /\ \A f \in Exec : f \in busy' => ssm'[f] \in {"active", "ended early"}
    /\ report'[e] = report[e] \/ (report[e] = "pending" /\ report'[e] = "written")
    /\ report'[e] = "written" => ssm'[e] # "active" /\ e \notin busy'
    /\ claimed' = claimed /\ recorded' = recorded /\ listed' = listed /\ step' = step
    /\ plan' = plan /\ ran' = ran /\ todo' = todo /\ current' = current /\ seen' = seen

\* What a walk changes.
WalkEffect(a, s) ==
    /\ step'[a] = s
    /\ \A b \in Attempt : b # a => step'[b] = step[b] /\ plan'[b] = plan[b] /\ seen'[b] = seen[b]
    /\ plan'[a] = plan[a] \/ (step[a] = "idle" /\ s = "lock")
    /\ s \notin AfterClaim
    /\ s \in BeforeClaim => step[a] \in BeforeClaim
    /\ s \notin BeforeClaim => s \in {"release", "done", "dead"}
    /\ step[a] \notin BeforeClaim =>
           (step[a] = "release" /\ s = "done") \/ (s = "dead" /\ "crash" \in Faults)
    /\ s = "dead" => "crash" \in Faults
    /\ s = "list" => plan[a] \notin Rollback \/ ~Unreported(plan[a])
    /\ s = "guard" => step[a] = "list" /\ seen'[a] = {e \in Exec : report[e] = "pending"}
    /\ s = "claim" => (step[a] = "list" /\ "listing" \in Faults) \/ (step[a] = "guard" /\ ~Blocked(a))
    /\ claimed' = claimed /\ ssm' = ssm /\ busy' = busy /\ report' = report
    /\ recorded' = recorded /\ listed' = listed /\ todo' = todo /\ ran' = ran /\ current' = current

\* Each action has its effect.
LEMMA Effects ==
    ASSUME WellFormed, RunRecords
    PROVE  /\ \A a \in Attempt :
                /\ \A s \in Steps : Walk(a, s) => WalkEffect(a, s)
                /\ Claim(a) => ClaimEffect(a)
                /\ RecordRun(a) => RecordEffect(a)
                /\ ListRuns(a) => ListEffect(a)
                /\ \A e \in Exec :
                     /\ StartLocation(a, e) => StartEffect(a, e)
                     /\ FailStart(a, e) => FailEffect(a, e)
                     /\ ReportRun(a, e) => ReportEffect(a, e)
           /\ \A e \in Exec : EnvStep(e) => EnvEffect(e)
<1> USE DEF WellFormed, TypeOK, Goto, store, runs, local
<1>1. ASSUME NEW a \in Attempt, NEW s \in Steps, Walk(a, s) PROVE WalkEffect(a, s)
  BY <1>1 DEF Walk, WalkEffect, FirstCheck, BeforeClaim, AfterClaim, Steps, Over, Starting
<1>2. ASSUME NEW a \in Attempt, Claim(a) PROVE ClaimEffect(a)
  BY <1>2 DEF Claim, ClaimEffect
<1>3. ASSUME NEW a \in Attempt, RecordRun(a) PROVE RecordEffect(a)
  BY <1>3 DEF RecordRun, RecordEffect
<1>4. ASSUME NEW a \in Attempt, ListRuns(a) PROVE ListEffect(a)
  BY <1>4 DEF ListRuns, ListEffect
<1>5. ASSUME NEW a \in Attempt, NEW e \in Exec, StartLocation(a, e) PROVE StartEffect(a, e)
  <2>1. Launched(e)
    BY <1>5, LaunchStarts DEF StartLocation
  <2>2. QED
    BY <1>5, <2>1 DEF StartLocation, StartEffect
<1>6. ASSUME NEW a \in Attempt, NEW e \in Exec, FailStart(a, e) PROVE FailEffect(a, e)
  <2>1. Launch(e) => Launched(e)
    BY LaunchStarts
  <2>2. QED
    BY <1>6, <2>1 DEF FailStart, FailEffect
<1>7. ASSUME NEW a \in Attempt, NEW e \in Exec, ReportRun(a, e) PROVE ReportEffect(a, e)
  BY <1>7 DEF ReportRun, ReportEffect
<1>8. ASSUME NEW e \in Exec, EnvStep(e) PROVE EnvEffect(e)
  <2> USE DEF RunRecords, EnvEffect
  <2>1. CASE RunSucceeds(e)
    BY <2>1 DEF RunSucceeds
  <2>2. CASE RunEndsEarly(e)
    BY <2>2 DEF RunEndsEarly
  <2>3. CASE CommandsFinish(e)
    BY <2>3 DEF CommandsFinish
  <2>4. CASE Reconcile(e)
    BY <2>4 DEF Reconcile
  <2>5. QED
    BY <1>8, <2>1, <2>2, <2>3, <2>4 DEF EnvStep
<1>9. QED
  BY <1>1, <1>2, <1>3, <1>4, <1>5, <1>6, <1>7, <1>8

\* Every step has one of these effects.
Effect ==
    \/ Elsewhere
    \/ \E a \in Attempt :
          \/ \E s \in Steps : WalkEffect(a, s)
          \/ ClaimEffect(a) \/ RecordEffect(a) \/ ListEffect(a)
          \/ \E e \in Exec : StartEffect(a, e) \/ FailEffect(a, e) \/ ReportEffect(a, e)
    \/ \E e \in Exec : EnvEffect(e)

\* Every step has an effect.
LEMMA StepEffect ==
    ASSUME WellFormed, RunRecords, [Next]_vars PROVE Effect
  BY RunKinds, Effects DEF RunStep, Effect

\* What the attempts know of their runs stays true, whatever goes wrong.
LEMMA RunInvStep == RunInv /\ [Next]_vars => RunInv'
<1>0. SUFFICES ASSUME RunInv, [Next]_vars PROVE RunInv'
  OBVIOUS
<1>1. WellFormed' /\ WellFormed /\ OwnRuns /\ RunRecords /\ OneClaimant
  BY <1>0, WellFormedStep DEF RunInv
<1>2. /\ step \in [Attempt -> Steps] /\ plan \in [Attempt -> Plan \union {None}]
      /\ todo \in [Attempt -> SUBSET Exec] /\ ran \in [Attempt -> SUBSET Exec]
      /\ busy \subseteq Exec /\ claimed \subseteq Plan
  BY <1>1 DEF WellFormed, TypeOK
<1> DEFINE Inv == OwnRuns /\ RunRecords /\ OneClaimant
<1> USE DEF OwnRuns, RunRecords, OneClaimant, Claimant, BeforeClaim, AfterClaim
<1>3. ASSUME Elsewhere PROVE Inv'
  BY <1>1, <1>2, <1>3 DEF Elsewhere, store, runs, local
<1>4. ASSUME NEW a \in Attempt, NEW s \in Steps, WalkEffect(a, s) PROVE Inv'
  <2>1. \A b \in Attempt :
          plan'[b] = plan[b] \/ (step[b] = "idle" /\ ran[b] = {} /\ todo[b] = {})
    BY <1>1, <1>2, <1>4 DEF WalkEffect
  <2>2. ssm' = ssm /\ busy' = busy /\ report' = report
    BY <1>4 DEF WalkEffect
  <2>3. OwnRuns'
    <3>1. ASSUME NEW b \in Attempt
          PROVE  ran'[b] \subseteq Own(plan'[b]) /\ todo'[b] \subseteq Own(plan'[b])
      BY <1>1, <1>4, <2>1 DEF WalkEffect
    <3>2. ASSUME NEW b \in Attempt
          PROVE  /\ step'[b] \in BeforeClaim => ran'[b] = {} /\ todo'[b] = {}
                 /\ step'[b] = "record" => current'[b] \in ran'[b]
                 /\ step'[b] = "report" => todo'[b] \subseteq ran'[b]
                 /\ \A e \in ran'[b] : ssm'[e] # "none"
      BY <1>1, <1>4 DEF WalkEffect
    <3>3. QED
      BY <3>1, <3>2
  <2>4. RunRecords'
    BY <1>1, <2>2
  <2>5. OneClaimant'
    <3>1. \A b \in Attempt : Claimant(b)' => Claimant(b) /\ plan'[b] = plan[b]
      BY <1>1, <1>4, <2>1 DEF WalkEffect
    <3>2. claimed' = claimed
      BY <1>4 DEF WalkEffect
    <3>3. QED
      BY <1>1, <3>1, <3>2
  <2>6. QED
    BY <2>3, <2>4, <2>5
<1>5. ASSUME NEW a \in Attempt, ClaimEffect(a) PROVE Inv'
  <2>1. Execs(plan[a]) \subseteq Own(plan[a])
    BY <1>5, ExecsAreOwn DEF ClaimEffect
  <2>2. OwnRuns'
    <3>1. ASSUME NEW b \in Attempt
          PROVE  ran'[b] \subseteq Own(plan'[b]) /\ todo'[b] \subseteq Own(plan'[b])
      BY <1>1, <1>5, <2>1 DEF ClaimEffect
    <3>2. ASSUME NEW b \in Attempt
          PROVE  /\ step'[b] \in BeforeClaim => ran'[b] = {} /\ todo'[b] = {}
                 /\ step'[b] = "record" => current'[b] \in ran'[b]
                 /\ step'[b] = "report" => todo'[b] \subseteq ran'[b]
                 /\ \A e \in ran'[b] : ssm'[e] # "none"
      BY <1>1, <1>5 DEF ClaimEffect
    <3>3. QED
      BY <3>1, <3>2
  <2>3. RunRecords'
    BY <1>1, <1>5 DEF ClaimEffect
  <2>4. OneClaimant'
    <3>1. ran[a] = {} /\ \A b \in Attempt : b # a /\ Claimant(b) => plan[b] # plan[a]
      BY <1>1, <1>5 DEF ClaimEffect
    <3>2. \A b \in Attempt : Claimant(b)' => b = a \/ Claimant(b)
      BY <1>1, <1>5 DEF ClaimEffect
    <3>3. plan' = plan /\ claimed' = claimed \union {plan[a]}
      BY <1>5 DEF ClaimEffect
    <3>4. ASSUME NEW b \in Attempt, NEW c \in Attempt, b # c, Claimant(b)', Claimant(c)'
          PROVE  plan[b] # plan[c]
      BY <1>1, <3>1, <3>2, <3>4
    <3>5. \A b \in Attempt : Claimant(b)' => plan[b] \in claimed'
      BY <1>1, <3>2, <3>3
    <3>6. QED
      BY <3>3, <3>4, <3>5
  <2>5. QED
    BY <2>2, <2>3, <2>4
<1>6. ASSUME NEW a \in Attempt, NEW e \in Exec, StartEffect(a, e) PROVE Inv'
  <2>1. \A f \in Exec : ssm'[f] # ssm[f] => f = e /\ ssm[e] = "none" /\ ssm'[e] = "active"
    BY <1>6 DEF StartEffect, Launched
  <2>2. OwnRuns'
    <3>1. ran'[a] \subseteq Own(plan'[a]) /\ todo'[a] \subseteq Own(plan'[a])
      BY <1>1, <1>6 DEF StartEffect
    <3>2. step'[a] = "record" /\ current'[a] \in ran'[a]
      BY <1>6 DEF StartEffect
    <3>3. ASSUME NEW f \in ran'[a] PROVE ssm'[f] # "none"
      <4>1. f = e \/ (f \in ran[a] /\ f \in Exec /\ ssm[f] # "none")
        BY <1>1, <1>2, <1>6, <3>3 DEF StartEffect
      <4>2. QED
        BY <1>6, <4>1 DEF StartEffect, Launched
    <3>4. ASSUME NEW b \in Attempt, b # a
          PROVE  /\ ran'[b] = ran[b] /\ todo'[b] = todo[b] /\ plan'[b] = plan[b]
                 /\ step'[b] = step[b] /\ current'[b] = current[b]
      BY <1>6, <3>4 DEF StartEffect
    <3>5. ASSUME NEW b \in Attempt, NEW f \in ran[b] PROVE ssm'[f] # "none"
      BY <1>1, <1>2, <2>1
    <3>6. ASSUME NEW b \in Attempt
          PROVE  /\ ran'[b] \subseteq Own(plan'[b]) /\ todo'[b] \subseteq Own(plan'[b])
                 /\ step'[b] \in BeforeClaim => ran'[b] = {} /\ todo'[b] = {}
                 /\ step'[b] = "record" => current'[b] \in ran'[b]
                 /\ step'[b] = "report" => todo'[b] \subseteq ran'[b]
                 /\ \A f \in ran'[b] : ssm'[f] # "none"
      <4>1. CASE b = a
        BY <3>1, <3>2, <3>3, <4>1
      <4>2. CASE b # a
        BY <1>1, <3>4, <3>5, <4>2
      <4>3. QED
        BY <4>1, <4>2
    <3>7. QED
      BY <3>6
  <2>3. RunRecords'
    BY <1>1, <1>6 DEF StartEffect, Launched
  <2>4. OneClaimant'
    <3>1. \A b \in Attempt : Claimant(b)' <=> Claimant(b)
      BY <1>1, <1>6 DEF StartEffect
    <3>2. plan' = plan /\ claimed' = claimed
      BY <1>6 DEF StartEffect
    <3>3. QED
      BY <1>1, <3>1, <3>2
  <2>5. QED
    BY <2>2, <2>3, <2>4
<1>7. ASSUME NEW a \in Attempt, RecordEffect(a) PROVE Inv'
  <2>1. OwnRuns'
    BY <1>1, <1>7 DEF RecordEffect
  <2>2. RunRecords'
    BY <1>1, <1>7 DEF RecordEffect
  <2>3. OneClaimant'
    <3>1. \A b \in Attempt : Claimant(b)' <=> Claimant(b)
      BY <1>1, <1>7 DEF RecordEffect
    <3>2. plan' = plan /\ claimed' = claimed
      BY <1>7 DEF RecordEffect
    <3>3. QED
      BY <1>1, <3>1, <3>2
  <2>4. QED
    BY <2>1, <2>2, <2>3
<1>8. ASSUME NEW a \in Attempt, NEW e \in Exec, FailEffect(a, e) PROVE Inv'
  <2>1. /\ \A f \in Exec : ssm[f] # "none" => ssm'[f] # "none"
        /\ \A f \in Exec : f \in busy' => ssm'[f] \in {"active", "ended early"}
        /\ \A f \in Exec : report[f] = "written" => ssm'[f] # "active" /\ f \notin busy'
    BY <1>1, <1>2, <1>8 DEF FailEffect, Launched
  <2>2. OwnRuns'
    <3>1. ASSUME NEW b \in Attempt
          PROVE  ran'[b] \subseteq Own(plan'[b]) /\ todo'[b] \subseteq Own(plan'[b])
      BY <1>1, <1>8 DEF FailEffect
    <3>2. ASSUME NEW b \in Attempt
          PROVE  /\ step'[b] \in BeforeClaim => ran'[b] = {} /\ todo'[b] = {}
                 /\ step'[b] = "record" => current'[b] \in ran'[b]
                 /\ step'[b] = "report" => todo'[b] \subseteq ran'[b]
      BY <1>1, <1>8 DEF FailEffect
    <3>3. ASSUME NEW b \in Attempt, NEW f \in ran'[b] PROVE ssm'[f] # "none"
      BY <1>1, <1>2, <1>8, <2>1, <3>3 DEF FailEffect
    <3>4. QED
      BY <3>1, <3>2, <3>3
  <2>3. RunRecords'
    BY <1>1, <1>8, <2>1 DEF FailEffect
  <2>4. OneClaimant'
    <3>1. \A b \in Attempt : Claimant(b)' => Claimant(b)
      BY <1>1, <1>8 DEF FailEffect
    <3>2. plan' = plan /\ claimed' = claimed
      BY <1>8 DEF FailEffect
    <3>3. QED
      BY <1>1, <3>1, <3>2
  <2>5. QED
    BY <2>2, <2>3, <2>4
<1>9. ASSUME NEW a \in Attempt, NEW e \in Exec, ReportEffect(a, e) PROVE Inv'
  <2>1. OwnRuns'
    <3>1. ASSUME NEW b \in Attempt
          PROVE  ran'[b] \subseteq Own(plan'[b]) /\ todo'[b] \subseteq Own(plan'[b])
      BY <1>1, <1>9 DEF ReportEffect
    <3>2. ASSUME NEW b \in Attempt
          PROVE  /\ step'[b] \in BeforeClaim => ran'[b] = {} /\ todo'[b] = {}
                 /\ step'[b] = "record" => current'[b] \in ran'[b]
                 /\ step'[b] = "report" => todo'[b] \subseteq ran'[b]
                 /\ \A f \in ran'[b] : ssm'[f] # "none"
      BY <1>1, <1>9 DEF ReportEffect
    <3>3. QED
      BY <3>1, <3>2
  <2>2. RunRecords'
    <3>1. ssm[e] # "none"
      BY <1>1, <1>9 DEF ReportEffect
    <3>2. QED
      BY <1>1, <1>9, <3>1 DEF ReportEffect
  <2>3. OneClaimant'
    <3>1. \A b \in Attempt : Claimant(b)' <=> Claimant(b)
      BY <1>1, <1>9 DEF ReportEffect
    <3>2. plan' = plan /\ claimed' = claimed
      BY <1>9 DEF ReportEffect
    <3>3. QED
      BY <1>1, <3>1, <3>2
  <2>4. QED
    BY <2>1, <2>2, <2>3
<1>10. ASSUME NEW a \in Attempt, ListEffect(a) PROVE Inv'
  <2>1. OwnRuns'
    BY <1>1, <1>10 DEF ListEffect
  <2>2. RunRecords'
    BY <1>1, <1>10 DEF ListEffect
  <2>3. OneClaimant'
    <3>1. \A b \in Attempt : Claimant(b)' => Claimant(b)
      BY <1>1, <1>10 DEF ListEffect
    <3>2. plan' = plan /\ claimed' = claimed
      BY <1>10 DEF ListEffect
    <3>3. QED
      BY <1>1, <3>1, <3>2
  <2>4. QED
    BY <2>1, <2>2, <2>3
<1>11. ASSUME NEW e \in Exec, EnvEffect(e) PROVE Inv'
  <2>1. OwnRuns'
    <3>1. \A f \in Exec : ssm[f] # "none" => ssm'[f] # "none"
      BY <1>11 DEF EnvEffect
    <3>2. QED
      BY <1>1, <1>2, <1>11, <3>1 DEF EnvEffect
  <2>2. RunRecords'
    BY <1>1, <1>11 DEF EnvEffect
  <2>3. OneClaimant'
    BY <1>1, <1>11 DEF EnvEffect
  <2>4. QED
    BY <2>1, <2>2, <2>3
<1> HIDE DEF Inv, OwnRuns, RunRecords, OneClaimant
<1>12. Inv'
  BY <1>0, <1>1, <1>3, <1>4, <1>5, <1>6, <1>7, <1>8, <1>9, <1>10, <1>11, StepEffect DEF Effect
<1>13. QED
  BY <1>1, <1>12 DEF Inv, RunInv

\* The attempts begin with no runs.
LEMMA RunInvInit == Init => RunInv
  BY RunStartAssumption DEF Init, RunInv, WellFormed, TypeOK, OwnRuns, RunRecords, OneClaimant,
       Claimant, BeforeClaim, AfterClaim, Steps, Over, Starting

\* However often a plan is invoked, and whatever goes wrong, one attempt at most
\* starts its executions.
THEOREM ClaimedOnce == Spec => []StartedByOneAttempt
<1>1. RunInv => StartedByOneAttempt
  BY DEF RunInv, OneClaimant, Claimant, StartedByOneAttempt
<1>2. QED
  BY <1>1, RunInvInit, RunInvStep, PTL DEF Spec

-----------------------------------------------------------------------------
(* Every run is tracked *)

\* A run started is in the records the further its attempt has come.
RunRecorded(a, e) ==
    /\ e \in recorded \/ (step[a] = "record" /\ e = current[a])
    /\ step[a] = "report" => e \in todo[a] \/ report[e] # "none"
    /\ step[a] \notin AfterClaim => report[e] # "none" /\ e \in listed[plan[a]]
    /\ step[a] = "close" => report[e] # "none"

Recorded == \A a \in Attempt : \A e \in ran[a] : RunRecorded(a, e)

ListedByOwner ==
    \A p \in Plan : listed[p] # {} =>
        \E a \in Attempt : plan[a] = p /\ ran[a] # {} /\ step[a] \in {"release", "done"}

RunsHaveStarter == \A e \in Exec : ssm[e] # "none" => \E a \in Attempt : e \in ran[a]

NoneDead == \A a \in Attempt : step[a] # "dead"

TrackInv == RunInv /\ Recorded /\ ListedByOwner /\ RunsHaveStarter /\ NoneDead

\* With no crash, and every record and report written, a step loses no run.
LEMMA TrackInvStep ==
    ASSUME {"crash", "lost reply", "record", "report"} \intersect Faults = {},
           TrackInv, [Next]_vars
    PROVE  TrackInv'
<1>1. RunInv' /\ RunInv /\ WellFormed /\ RunRecords
  BY RunInvStep DEF TrackInv, RunInv
<1>2. /\ step \in [Attempt -> Steps] /\ listed \in [Plan -> SUBSET Exec]
      /\ ran \in [Attempt -> SUBSET Exec] /\ busy \subseteq Exec
  BY <1>1 DEF WellFormed, TypeOK
<1>3. /\ "crash" \notin Faults /\ "lost reply" \notin Faults
      /\ "record" \notin Faults /\ "report" \notin Faults
  OBVIOUS
<1>4. \A a \in Attempt : /\ step[a] \in BeforeClaim => ran[a] = {}
                         /\ ran[a] # {} => plan[a] \in Plan
  BY <1>1 DEF WellFormed, RunInv, OwnRuns, BeforeClaim
<1>5. Recorded
  BY DEF TrackInv
<1>6. ListedByOwner
  BY DEF TrackInv
<1>7. RunsHaveStarter /\ NoneDead
  BY DEF TrackInv
<1> DEFINE Inv == Recorded /\ ListedByOwner /\ RunsHaveStarter /\ NoneDead
<1>8. ASSUME Elsewhere PROVE Inv'
  <2>1. UNCHANGED <<ssm, report, recorded, listed, step, plan, ran, todo, current>>
    BY <1>8 DEF Elsewhere, store, runs, local
  <2>2. Recorded'
    BY <1>5, <2>1 DEF Recorded, RunRecorded
  <2>3. ListedByOwner'
    BY <1>6, <2>1 DEF ListedByOwner
  <2>4. QED
    BY <1>7, <2>1, <2>2, <2>3 DEF RunsHaveStarter, NoneDead
<1>9. ASSUME NEW a \in Attempt, NEW s \in Steps, WalkEffect(a, s) PROVE Inv'
  <2>1. ASSUME NEW b \in Attempt, NEW f \in ran'[b] PROVE RunRecorded(b, f)'
    BY <1>2, <1>3, <1>4, <1>5, <1>9, <2>1 DEF Recorded, RunRecorded, AfterClaim, WalkEffect
  <2>2. ListedByOwner'
    <3>1. \A b \in Attempt : ran[b] # {} /\ step[b] \in {"release", "done"} =>
            step'[b] \in {"release", "done"} /\ plan'[b] = plan[b]
      BY <1>3, <1>4, <1>9 DEF WalkEffect, BeforeClaim
    <3>2. listed' = listed /\ ran' = ran
      BY <1>9 DEF WalkEffect
    <3>3. ASSUME NEW p \in Plan, listed'[p] # {}
          PROVE  \E b \in Attempt : plan'[b] = p /\ ran'[b] # {} /\ step'[b] \in {"release", "done"}
      <4>1. PICK b \in Attempt : plan[b] = p /\ ran[b] # {} /\ step[b] \in {"release", "done"}
        BY <1>6, <3>2, <3>3 DEF ListedByOwner
      <4>2. plan'[b] = p /\ ran'[b] # {} /\ step'[b] \in {"release", "done"}
        BY <3>1, <3>2, <4>1
      <4>3. QED
        BY <4>2
    <3>4. QED
      BY <3>3 DEF ListedByOwner
  <2>3. RunsHaveStarter' /\ NoneDead'
    BY <1>3, <1>7, <1>9 DEF RunsHaveStarter, NoneDead, WalkEffect
  <2>4. QED
    BY <2>1, <2>2, <2>3 DEF Recorded
<1>10. ASSUME NEW a \in Attempt, ClaimEffect(a) PROVE Inv'
  <2>1. ASSUME NEW b \in Attempt, NEW f \in ran'[b] PROVE RunRecorded(b, f)'
    BY <1>2, <1>3, <1>4, <1>5, <1>10, <2>1 DEF Recorded, RunRecorded, AfterClaim, ClaimEffect
  <2>2. ListedByOwner'
    BY <1>3, <1>4, <1>6, <1>10 DEF ListedByOwner, ClaimEffect
  <2>3. RunsHaveStarter' /\ NoneDead'
    BY <1>3, <1>7, <1>10 DEF RunsHaveStarter, NoneDead, ClaimEffect
  <2>4. QED
    BY <2>1, <2>2, <2>3 DEF Recorded
<1>11. ASSUME NEW a \in Attempt, NEW e \in Exec, StartEffect(a, e) PROVE Inv'
  <2>1. ASSUME NEW b \in Attempt, NEW f \in ran'[b] PROVE RunRecorded(b, f)'
    <3>1. CASE b = a
      <4>1. f = e \/ (f # e /\ f \in ran[a])
        BY <1>11, <2>1, <3>1 DEF StartEffect
      <4>2. f \in ran[a] => f \in recorded
        BY <1>5, <1>11 DEF Recorded, RunRecorded, StartEffect
      <4>3. QED
        BY <1>11, <3>1, <4>1, <4>2 DEF RunRecorded, AfterClaim, StartEffect
    <3>2. CASE b # a
      <4>1. f \in ran[b] /\ RunRecorded(b, f)
        BY <1>5, <1>11, <2>1, <3>2 DEF Recorded, StartEffect
      <4>2. QED
        BY <1>11, <3>2, <4>1 DEF RunRecorded, StartEffect
    <3>3. QED
      BY <3>1, <3>2
  <2>2. ListedByOwner'
    <3>1. \A b \in Attempt : ran[b] # {} /\ step[b] \in {"release", "done"} =>
            ran'[b] = ran[b] /\ step'[b] = step[b]
      BY <1>11 DEF StartEffect
    <3>2. listed' = listed /\ plan' = plan
      BY <1>11 DEF StartEffect
    <3>3. ASSUME NEW p \in Plan, listed'[p] # {}
          PROVE  \E b \in Attempt : plan'[b] = p /\ ran'[b] # {} /\ step'[b] \in {"release", "done"}
      <4>1. PICK b \in Attempt : plan[b] = p /\ ran[b] # {} /\ step[b] \in {"release", "done"}
        BY <1>6, <3>2, <3>3 DEF ListedByOwner
      <4>2. plan'[b] = p /\ ran'[b] # {} /\ step'[b] \in {"release", "done"}
        BY <3>1, <3>2, <4>1
      <4>3. QED
        BY <4>2
    <3>4. QED
      BY <3>3 DEF ListedByOwner
  <2>3. RunsHaveStarter' /\ NoneDead'
    <3>1. e \in ran'[a] /\ \A b \in Attempt : ran[b] \subseteq ran'[b]
      <4>1. \A b \in Attempt : b # a => ran'[b] = ran[b]
        BY <1>11 DEF StartEffect
      <4>2. ran'[a] = ran[a] \union {e}
        BY <1>11 DEF StartEffect
      <4>3. QED
        BY <4>1, <4>2
    <3>2. \A f \in Exec : f # e => ssm'[f] = ssm[f]
      BY <1>11 DEF StartEffect, Launched
    <3>3. NoneDead'
      BY <1>7, <1>11 DEF NoneDead, StartEffect
    <3>4. QED
      BY <1>7, <3>1, <3>2, <3>3 DEF RunsHaveStarter
  <2>4. QED
    BY <2>1, <2>2, <2>3 DEF Recorded
<1>12. ASSUME NEW a \in Attempt, RecordEffect(a) PROVE Inv'
  <2>1. ASSUME NEW b \in Attempt, NEW f \in ran'[b] PROVE RunRecorded(b, f)'
    BY <1>2, <1>3, <1>4, <1>5, <1>12, <2>1 DEF Recorded, RunRecorded, AfterClaim, RecordEffect
  <2>2. ListedByOwner'
    BY <1>3, <1>4, <1>6, <1>12 DEF ListedByOwner, RecordEffect
  <2>3. RunsHaveStarter' /\ NoneDead'
    BY <1>3, <1>7, <1>12 DEF RunsHaveStarter, NoneDead, RecordEffect
  <2>4. QED
    BY <2>1, <2>2, <2>3 DEF Recorded
<1>13. ASSUME NEW a \in Attempt, NEW e \in Exec, FailEffect(a, e) PROVE Inv'
  <2>1. ASSUME NEW b \in Attempt, NEW f \in ran'[b] PROVE RunRecorded(b, f)'
    BY <1>2, <1>3, <1>4, <1>5, <1>13, <2>1 DEF Recorded, RunRecorded, AfterClaim, FailEffect
  <2>2. ListedByOwner'
    BY <1>3, <1>4, <1>6, <1>13 DEF ListedByOwner, FailEffect
  <2>3. RunsHaveStarter' /\ NoneDead'
    BY <1>3, <1>7, <1>13 DEF RunsHaveStarter, NoneDead, FailEffect, Launched
  <2>4. QED
    BY <2>1, <2>2, <2>3 DEF Recorded
<1>14. ASSUME NEW a \in Attempt, NEW e \in Exec, ReportEffect(a, e) PROVE Inv'
  <2>1. ASSUME NEW b \in Attempt, NEW f \in ran'[b] PROVE RunRecorded(b, f)'
    <3>1. RunRecorded(b, f) /\ f \in Exec
      BY <1>2, <1>5, <1>14, <2>1 DEF Recorded, ReportEffect
    <3>2. report[f] # "none" => report'[f] # "none"
      BY <1>3, <1>14, <3>1 DEF ReportEffect
    <3>3. CASE b = a
      <4>1. f \in todo[a] \/ report[f] # "none"
        BY <1>14, <3>1, <3>3 DEF RunRecorded, ReportEffect
      <4>2. f \in todo'[a] \/ report'[f] # "none"
        BY <1>3, <1>14, <3>2, <4>1 DEF ReportEffect
      <4>3. step'[a] = "report" \/ (step'[a] = "close" /\ todo'[a] = {})
        BY <1>14 DEF ReportEffect
      <4>4. QED
        BY <1>14, <3>1, <3>3, <4>2, <4>3 DEF RunRecorded, AfterClaim, ReportEffect
    <3>4. CASE b # a
      BY <1>14, <3>1, <3>2, <3>4 DEF RunRecorded, ReportEffect
    <3>5. QED
      BY <3>3, <3>4
  <2>2. ListedByOwner'
    BY <1>3, <1>4, <1>6, <1>14 DEF ListedByOwner, ReportEffect
  <2>3. RunsHaveStarter' /\ NoneDead'
    BY <1>3, <1>7, <1>14 DEF RunsHaveStarter, NoneDead, ReportEffect
  <2>4. QED
    BY <2>1, <2>2, <2>3 DEF Recorded
<1>15. ASSUME NEW a \in Attempt, ListEffect(a) PROVE Inv'
  <2>0. plan[a] \in Plan /\ \A b \in Attempt : b # a /\ ran[b] # {} => plan[b] # plan[a]
    BY <1>1, <1>15 DEF ListEffect, WellFormed, RunInv, OneClaimant, Claimant, AfterClaim
  <2>5. listed[plan[a]] = {}
    BY <1>6, <1>15, <2>0 DEF ListEffect, ListedByOwner
  <2>1. ASSUME NEW b \in Attempt, NEW f \in ran'[b] PROVE RunRecorded(b, f)'
    BY <1>2, <1>3, <1>4, <1>5, <1>15, <2>0, <2>5, <2>1 DEF Recorded, RunRecorded, AfterClaim, ListEffect
  <2>2. ListedByOwner'
    BY <1>3, <1>4, <1>6, <1>15, <2>0, <2>5 DEF ListedByOwner, ListEffect
  <2>3. RunsHaveStarter' /\ NoneDead'
    BY <1>3, <1>7, <1>15 DEF RunsHaveStarter, NoneDead, ListEffect
  <2>4. QED
    BY <2>1, <2>2, <2>3 DEF Recorded
<1>16. ASSUME NEW e \in Exec, EnvEffect(e) PROVE Inv'
  <2>1. ASSUME NEW b \in Attempt, NEW f \in ran'[b] PROVE RunRecorded(b, f)'
    <3>1. RunRecorded(b, f) /\ f \in Exec
      BY <1>2, <1>5, <1>16, <2>1 DEF Recorded, EnvEffect
    <3>2. report[f] # "none" => report'[f] # "none"
      BY <1>16, <3>1 DEF EnvEffect
    <3>3. QED
      BY <1>16, <3>1, <3>2 DEF RunRecorded, EnvEffect
  <2>2. ListedByOwner'
    BY <1>3, <1>4, <1>6, <1>16 DEF ListedByOwner, EnvEffect
  <2>3. RunsHaveStarter' /\ NoneDead'
    BY <1>3, <1>7, <1>16 DEF RunsHaveStarter, NoneDead, EnvEffect
  <2>4. QED
    BY <2>1, <2>2, <2>3 DEF Recorded
<1> HIDE DEF Inv
<1>17. QED
  BY <1>1, <1>8, <1>9, <1>10, <1>11, <1>12, <1>13, <1>14, <1>15, <1>16, StepEffect
       DEF Effect, Inv, TrackInv

\* With no crash, and every record and report written, every execution SSM has
\* started is in the hands of its attempt or in all of the records, however many
\* starts fail, listings fail, and plans are invoked again.
THEOREM NoRunLost ==
    ASSUME {"crash", "lost reply", "record", "report"} \intersect Faults = {}
    PROVE  Spec => []EveryRunTracked
<1>1. Init => TrackInv
  <2>1. Init => Recorded /\ ListedByOwner /\ RunsHaveStarter /\ NoneDead
    BY DEF Init, Recorded, ListedByOwner, RunsHaveStarter, NoneDead
  <2>2. QED
    BY <2>1, RunInvInit DEF TrackInv
<1>2. TrackInv /\ [Next]_vars => TrackInv'
  BY TrackInvStep
<1>3. TrackInv => EveryRunTracked
  <2>1. SUFFICES ASSUME TrackInv, NEW e \in Exec, ssm[e] # "none"
                 PROVE  \/ \E a \in Attempt : step[a] \in Starting /\ e \in ran[a]
                        \/ e \in recorded /\ report[e] # "none" /\ e \in listed[PlanOf(e)]
    BY DEF EveryRunTracked
  <2>2. PICK a \in Attempt : e \in ran[a]
    BY <2>1 DEF TrackInv, RunsHaveStarter
  <2>3. /\ step[a] \in Steps /\ step[a] \notin BeforeClaim /\ step[a] # "dead"
        /\ PlanOf(e) = plan[a]
    BY <2>1, <2>2 DEF TrackInv, RunInv, OwnRuns, Own, NoneDead, WellFormed, TypeOK
  <2>4. step[a] \in Starting \/ step[a] = "done"
    BY <2>3 DEF Steps, Over, BeforeClaim
  <2>5. CASE step[a] = "done"
    BY <2>1, <2>2, <2>3, <2>5 DEF TrackInv, Recorded, RunRecorded, AfterClaim
  <2>6. QED
    BY <2>2, <2>4, <2>5
<1>4. QED
  BY <1>1, <1>2, <1>3, PTL DEF Spec

-----------------------------------------------------------------------------
(* Two plans' runs stay apart *)

\* At the guard, every pending report has been listed.
SeenAll ==
    \A a \in Attempt : step[a] = "guard" => {e \in Exec : report[e] = "pending"} \subseteq seen[a]

\* Past the guard, no other plan's reported run is busy in the plan's locations.
PastGuardClear ==
    \A a \in Attempt : step[a] \in {"claim"} \union AfterClaim =>
        \A f \in busy : PlanOf(f) # plan[a] /\ report[f] # "none" => ~Overlaps(f, plan[a])

GuardInv == LockInv /\ RunInv /\ SeenAll /\ PastGuardClear /\ NoReportedOverlap

\* One attempt at most is between taking the lock and giving it back.
OneStarter == \A a, b \in Attempt : step[a] \in Starting /\ step[b] \in Starting => a = b

\* The lock excludes two attempts, of one plan too.
LEMMA LockExcludes == LockInv => OneStarter
  BY DEF LockInv, StartersHold, OneStarter

\* A run that is busy in a plan's locations and has a report in sight blocks the
\* plan at the guard.
LEMMA GuardBlocks ==
    ASSUME WellFormed, RunRecords, SeenAll, NEW a \in Attempt, step[a] = "guard", ~Blocked(a),
           NEW f \in busy, report[f] # "none"
    PROVE  ~Overlaps(f, plan[a])
<1>1. f \in Exec /\ report[f] = "pending" /\ ssm[f] \in {"active", "ended early"}
  BY DEF WellFormed, TypeOK, RunRecords
<1>2. f \in seen[a]
  BY <1>1 DEF SeenAll
<1>3. Active(f)
  BY <1>1 DEF Active
<1>4. QED
  BY <1>2, <1>3 DEF Blocked

\* A plan's executions lie in its locations.
LEMMA OwnOverlaps ==
    ASSUME NEW p, NEW e \in Own(p), NEW f \in Exec, LocationOf(f) = LocationOf(e)
    PROVE  PlanOf(e) = p /\ Overlaps(f, p)
  BY DEF Own, Overlaps

\* While the lock excludes and the guard can list, no step joins a run to one
\* that is busy and reported.
LEMMA GuardInvStep ==
    ASSUME {"slow", "duplicate", "listing"} \intersect Faults = {}, GuardInv, [Next]_vars
    PROVE  GuardInv'
<1>1. LockInv' /\ RunInv'
  BY LockInvStep, RunInvStep DEF GuardInv
<1>2. /\ WellFormed /\ RunRecords /\ OwnRuns /\ "listing" \notin Faults
  BY DEF GuardInv, RunInv
<1>3. OneStarter
  BY LockExcludes DEF GuardInv
<1>4. SeenAll
  BY DEF GuardInv
<1>5. PastGuardClear
  BY DEF GuardInv
<1>6. NoReportedOverlap
  BY DEF GuardInv
<1>7. busy \subseteq Exec
  BY <1>2 DEF WellFormed, TypeOK
<1> DEFINE Inv == SeenAll /\ PastGuardClear /\ NoReportedOverlap
<1>8. ASSUME Elsewhere PROVE Inv'
  <2>1. UNCHANGED <<busy, report, step, plan, seen>>
    BY <1>8 DEF Elsewhere, store, runs, local
  <2>2. SeenAll' /\ PastGuardClear'
    BY <1>4, <1>5, <2>1 DEF SeenAll, PastGuardClear
  <2>3. QED
    BY <1>6, <2>1, <2>2 DEF NoReportedOverlap
\* Steps that leave the runs and their reports alone.
<1>9. ASSUME NEW a \in Attempt, NEW s \in Steps, WalkEffect(a, s) PROVE Inv'
  <2>1. busy' = busy /\ report' = report
    BY <1>9 DEF WalkEffect
  <2>2. ASSUME NEW b \in Attempt, step'[b] = "guard"
        PROVE  {f \in Exec : report'[f] = "pending"} \subseteq seen'[b]
    <3>1. CASE b = a
      BY <1>9, <2>1, <2>2, <3>1 DEF WalkEffect
    <3>2. CASE b # a
      BY <1>4, <1>9, <2>1, <2>2, <3>2 DEF SeenAll, WalkEffect
    <3>3. QED
      BY <3>1, <3>2
  <2>3. ASSUME NEW b \in Attempt, step'[b] \in {"claim"} \union AfterClaim,
               NEW f \in busy, PlanOf(f) # plan'[b], report[f] # "none"
        PROVE  ~Overlaps(f, plan'[b])
    <3>1. CASE b = a
      <4>1. step[a] = "guard" /\ ~Blocked(a) /\ plan'[a] = plan[a]
        BY <1>2, <1>9, <2>3, <3>1 DEF WalkEffect
      <4>2. QED
        BY <1>2, <1>4, <2>3, <3>1, <4>1, GuardBlocks
    <3>2. CASE b # a
      BY <1>5, <1>9, <2>3, <3>2 DEF PastGuardClear, WalkEffect
    <3>3. QED
      BY <3>1, <3>2
  <2>4. SeenAll'
    BY <2>2 DEF SeenAll
  <2>5. PastGuardClear'
    BY <2>1, <2>3 DEF PastGuardClear
  <2>6. NoReportedOverlap'
    BY <1>6, <2>1 DEF NoReportedOverlap
  <2>7. QED
    BY <2>4, <2>5, <2>6
<1>10. ASSUME NEW a \in Attempt, ClaimEffect(a) \/ RecordEffect(a) \/ ListEffect(a) PROVE Inv'
  <2>1. /\ busy' = busy /\ report' = report /\ plan' = plan /\ seen' = seen
        /\ \A b \in Attempt : b # a => step'[b] = step[b]
        /\ step[a] \in {"claim"} \union AfterClaim /\ step'[a] # "guard"
    BY <1>10 DEF ClaimEffect, RecordEffect, ListEffect, AfterClaim
  <2>2. SeenAll'
    BY <1>4, <2>1 DEF SeenAll
  <2>3. PastGuardClear'
    BY <1>5, <2>1 DEF PastGuardClear
  <2>4. NoReportedOverlap'
    BY <1>6, <2>1 DEF NoReportedOverlap
  <2>5. QED
    BY <2>2, <2>3, <2>4
\* Steps that make execution e of attempt a's plan busy, or report it.
<1>11. ASSUME NEW a \in Attempt, NEW e \in Exec,
              StartEffect(a, e) \/ FailEffect(a, e) \/ ReportEffect(a, e)
       PROVE  Inv'
  <2>1. /\ step[a] \in AfterClaim /\ e \in todo[a] /\ plan' = plan /\ seen' = seen
        /\ \A b \in Attempt : b # a => step'[b] = step[b]
        /\ step'[a] \notin {"guard", "claim"}
    BY <1>11 DEF StartEffect, FailEffect, ReportEffect, AfterClaim
  <2>2. /\ \A f \in Exec : f # e => report'[f] = report[f] /\ (f \in busy' <=> f \in busy)
        /\ busy' \subseteq Exec
    BY <1>1, <1>11 DEF StartEffect, FailEffect, ReportEffect, Launched, RunInv, WellFormed, TypeOK
  <2>3. \A b \in Attempt : step'[b] \in {"guard", "claim"} \union AfterClaim => b = a
    BY <1>3, <2>1 DEF OneStarter, Starting, AfterClaim
  <2>4. e \in Own(plan[a])
    BY <1>2, <2>1 DEF OwnRuns
  <2>5. SeenAll'
    BY <2>1, <2>3 DEF SeenAll
  <2>6. \A f \in busy : PlanOf(f) # plan[a] /\ report[f] # "none" => ~Overlaps(f, plan[a])
    BY <1>5, <2>1 DEF PastGuardClear
  <2>7. PlanOf(e) = plan[a]
    BY <2>4, OwnOverlaps
  <2>8. PastGuardClear'
    BY <2>1, <2>2, <2>3, <2>6, <2>7 DEF PastGuardClear
  <2>9. ASSUME NEW f \in busy', f # e, LocationOf(f) = LocationOf(e), PlanOf(f) # PlanOf(e)
        PROVE  report'[f] = "none"
    BY <2>2, <2>4, <2>6, <2>7, <2>9, OwnOverlaps
  <2>10. NoReportedOverlap'
    <3>1. ASSUME NEW f \in busy', NEW g \in busy',
                 LocationOf(f) = LocationOf(g), PlanOf(f) # PlanOf(g)
          PROVE  report'[f] = "none" \/ report'[g] = "none"
      <4>1. CASE f = e
        BY <2>9, <3>1, <4>1
      <4>2. CASE g = e
        BY <2>9, <3>1, <4>2
      <4>3. CASE f # e /\ g # e
        BY <1>6, <2>2, <3>1, <4>3 DEF NoReportedOverlap
      <4>4. QED
        BY <4>1, <4>2, <4>3
    <3>2. QED
      BY <3>1 DEF NoReportedOverlap
  <2>11. QED
    BY <2>5, <2>8, <2>10
<1>12. ASSUME NEW e \in Exec, EnvEffect(e) PROVE Inv'
  <2>1. /\ busy' \subseteq busy /\ step' = step /\ plan' = plan /\ seen' = seen
        /\ \A f \in Exec : report'[f] = report[f] \/ (report[f] = "pending" /\ report'[f] = "written")
    BY <1>12 DEF EnvEffect
  <2>2. SeenAll'
    BY <1>4, <2>1 DEF SeenAll
  <2>3. PastGuardClear'
    BY <1>5, <1>7, <2>1 DEF PastGuardClear
  <2>4. NoReportedOverlap'
    BY <1>6, <1>7, <2>1 DEF NoReportedOverlap
  <2>5. QED
    BY <2>2, <2>3, <2>4
<1> HIDE DEF Inv
<1>13. Inv'
  BY <1>2, <1>8, <1>9, <1>10, <1>11, <1>12, StepEffect DEF Effect
<1>14. QED
  BY <1>1, <1>13 DEF Inv, GuardInv

\* Before any attempt, nothing is busy and nothing is past the guard.
LEMMA GuardInvInit == Init => GuardInv
  BY LockInvInit, RunInvInit DEF Init, GuardInv, SeenAll, PastGuardClear, AfterClaim, NoReportedOverlap

\* Whatever crashes or is lost, no plan's run is joined to another's that has a
\* report in sight, while the lock excludes and the guard can list the reports.
THEOREM ReportedRunsApart ==
    ASSUME {"slow", "duplicate", "listing"} \intersect Faults = {}
    PROVE  Spec => []NoReportedOverlap
<1>1. GuardInv /\ [Next]_vars => GuardInv'
  BY GuardInvStep
<1>2. GuardInv => NoReportedOverlap
  BY DEF GuardInv
<1>3. QED
  BY <1>1, <1>2, GuardInvInit, PTL DEF Spec

\* A run with no report yet is in the hands of the attempt that is starting.
UnreportedInHand ==
    \A e \in Exec : ssm[e] # "none" /\ report[e] = "none" =>
        \E a \in Attempt :
            /\ step[a] \in {"start", "record", "report"}
            /\ e \in ran[a]
            /\ step[a] = "report" => e \in todo[a]

\* With no crash, lost reply or lost report, a run that has no report yet stays
\* with the attempt that is starting.
LEMMA UnreportedInHandStep ==
    ASSUME {"crash", "lost reply", "report"} \intersect Faults = {},
           RunInv, UnreportedInHand, [Next]_vars
    PROVE  UnreportedInHand'
<1> DEFINE Hand(a, e) == /\ step[a] \in {"start", "record", "report"}
                         /\ e \in ran[a]
                         /\ step[a] = "report" => e \in todo[a]
<1>1. WellFormed /\ RunRecords
  BY DEF RunInv
<1>2. /\ "crash" \notin Faults /\ "lost reply" \notin Faults /\ "report" \notin Faults
  OBVIOUS
<1>3. SUFFICES ASSUME NEW f \in Exec, ssm'[f] # "none", report'[f] = "none"
               PROVE  \E b \in Attempt : Hand(b, f)'
  BY DEF UnreportedInHand
<1>4. ssm[f] # "none" /\ report[f] = "none" => \E b \in Attempt : Hand(b, f)
  BY DEF UnreportedInHand
<1>5. ASSUME ssm'[f] = ssm[f], report'[f] = report[f],
             \A b \in Attempt : Hand(b, f) => Hand(b, f)'
      PROVE  \E b \in Attempt : Hand(b, f)'
  BY <1>3, <1>4, <1>5
<1>6. CASE Elsewhere
  <2>1. UNCHANGED <<ssm, report, step, ran, todo>>
    BY <1>6 DEF Elsewhere, store, runs, local
  <2>2. QED
    BY <1>5, <2>1
<1>7. ASSUME NEW a \in Attempt, NEW s \in Steps, WalkEffect(a, s)
      PROVE  \E b \in Attempt : Hand(b, f)'
  <2>1. \A b \in Attempt : Hand(b, f) => Hand(b, f)'
    BY <1>2, <1>7 DEF WalkEffect, BeforeClaim
  <2>2. QED
    BY <1>5, <1>7, <2>1 DEF WalkEffect
<1>8. ASSUME NEW a \in Attempt, ClaimEffect(a) \/ RecordEffect(a) \/ ListEffect(a)
      PROVE  \E b \in Attempt : Hand(b, f)'
  <2>1. ssm' = ssm /\ report' = report /\ ran' = ran
    BY <1>8 DEF ClaimEffect, RecordEffect, ListEffect
  <2>2. \A b \in Attempt : Hand(b, f) => Hand(b, f)'
    BY <1>8 DEF ClaimEffect, RecordEffect, ListEffect
  <2>3. QED
    BY <1>5, <2>1, <2>2
<1>9. ASSUME NEW a \in Attempt, NEW e \in Exec, StartEffect(a, e)
      PROVE  \E b \in Attempt : Hand(b, f)'
  <2>1. CASE f = e
    BY <1>9, <2>1 DEF StartEffect
  <2>2. CASE f # e
    <3>1. ssm'[f] = ssm[f] /\ report'[f] = report[f]
      BY <1>9, <2>2 DEF StartEffect, Launched
    <3>2. \A b \in Attempt : Hand(b, f) => Hand(b, f)'
      BY <1>9 DEF StartEffect
    <3>3. QED
      BY <1>5, <3>1, <3>2
  <2>3. QED
    BY <2>1, <2>2
<1>10. ASSUME NEW a \in Attempt, NEW e \in Exec, FailEffect(a, e)
       PROVE  \E b \in Attempt : Hand(b, f)'
  <2>1. ssm' = ssm /\ report' = report
    BY <1>2, <1>10 DEF FailEffect
  <2>2. \A b \in Attempt : Hand(b, f) => Hand(b, f)'
    BY <1>10 DEF FailEffect
  <2>3. QED
    BY <1>5, <2>1, <2>2
<1>11. ASSUME NEW a \in Attempt, NEW e \in Exec, ReportEffect(a, e)
       PROVE  \E b \in Attempt : Hand(b, f)'
  <2>1. f # e /\ ssm' = ssm /\ report'[f] = report[f]
    BY <1>2, <1>3, <1>11 DEF ReportEffect
  <2>2. \A b \in Attempt : Hand(b, f) => Hand(b, f)'
    <3>1. ASSUME Hand(a, f) PROVE Hand(a, f)'
      <4>1. step[a] = "report" /\ f \in todo[a] /\ f \in ran[a]
        BY <1>11, <3>1 DEF ReportEffect
      <4>2. todo[a] # {e}
        BY <2>1, <4>1
      <4>3. step'[a] = "report" /\ todo'[a] = todo[a] \ {e} /\ ran'[a] = ran[a]
        BY <1>11, <4>2 DEF ReportEffect
      <4>4. f \in todo'[a] /\ f \in ran'[a]
        BY <2>1, <4>1, <4>3
      <4>5. QED
        BY <4>3, <4>4
    <3>2. ASSUME NEW b \in Attempt, b # a, Hand(b, f) PROVE Hand(b, f)'
      BY <1>11, <3>2 DEF ReportEffect
    <3>3. QED
      BY <3>1, <3>2
  <2>3. QED
    BY <1>5, <2>1, <2>2
<1>12. ASSUME NEW e \in Exec, EnvEffect(e) PROVE \E b \in Attempt : Hand(b, f)'
  <2>1. ssm[f] # "none" /\ report[f] = "none"
    BY <1>3, <1>12 DEF EnvEffect
  <2>2. step' = step /\ ran' = ran /\ todo' = todo
    BY <1>12 DEF EnvEffect
  <2>3. QED
    BY <1>4, <2>1, <2>2
<1> HIDE DEF Hand
<1>13. QED
  BY <1>1, <1>6, <1>7, <1>8, <1>9, <1>10, <1>11, <1>12, StepEffect DEF Effect

\* While starts fail, records are lost and locks are not released, but no attempt
\* dies, no start is slow, duplicated or lost, and every report is listed and
\* written: two plans' commands never run at one location at once.
THEOREM RunsApart ==
    ASSUME {"crash", "lost reply", "report", "listing", "slow", "duplicate"} \intersect Faults = {}
    PROVE  Spec => []NoOverlap
<1> DEFINE Inv == GuardInv /\ UnreportedInHand
<1>1. Init => Inv
  BY GuardInvInit DEF Init, UnreportedInHand
<1>2. Inv /\ [Next]_vars => Inv'
  <2>1. SUFFICES ASSUME Inv, [Next]_vars PROVE Inv'
    OBVIOUS
  <2>2. GuardInv'
    BY <2>1, GuardInvStep
  <2>3. UnreportedInHand'
    BY <2>1, UnreportedInHandStep DEF GuardInv
  <2>4. QED
    BY <2>2, <2>3
<1>3. Inv => NoOverlap
  <2>1. SUFFICES ASSUME Inv, NEW e \in busy, NEW f \in busy,
                        LocationOf(e) = LocationOf(f), PlanOf(e) # PlanOf(f)
                 PROVE  FALSE
    BY DEF NoOverlap
  <2>2. /\ OneStarter /\ OwnRuns /\ PastGuardClear /\ NoReportedOverlap /\ busy \subseteq Exec
        /\ \A g \in busy : ssm[g] # "none"
    BY <2>1, LockExcludes DEF GuardInv, RunInv, RunRecords, WellFormed, TypeOK
  <2>3. ASSUME NEW g \in busy, report[g] = "none"
        PROVE  \E a \in Attempt : step[a] \in Starting \intersect AfterClaim /\ g \in Own(plan[a])
    <3>1. PICK a \in Attempt : step[a] \in {"start", "record", "report"} /\ g \in ran[a]
      BY <2>1, <2>2, <2>3 DEF UnreportedInHand
    <3>2. QED
      BY <2>2, <3>1 DEF OwnRuns, Starting, AfterClaim
  <2>4. ASSUME NEW g \in busy, NEW h \in busy, report[g] = "none",
               LocationOf(g) = LocationOf(h), PlanOf(g) # PlanOf(h)
        PROVE  FALSE
    <3>1. PICK a \in Attempt : step[a] \in Starting \intersect AfterClaim /\ g \in Own(plan[a])
      BY <2>3, <2>4
    <3>2. PlanOf(g) = plan[a] /\ Overlaps(h, plan[a])
      BY <2>2, <2>4, <3>1, OwnOverlaps
    <3>3. CASE report[h] = "none"
      <4>1. PICK b \in Attempt : step[b] \in Starting \intersect AfterClaim /\ h \in Own(plan[b])
        BY <2>3, <3>3
      <4>2. a = b
        BY <2>2, <3>1, <4>1 DEF OneStarter
      <4>3. QED
        BY <2>4, <3>1, <4>1, <4>2 DEF Own
    <3>4. CASE report[h] # "none"
      BY <2>2, <2>4, <3>1, <3>2, <3>4 DEF PastGuardClear
    <3>5. QED
      BY <3>3, <3>4
  <2>5. report[e] = "none" \/ report[f] = "none"
    BY <2>1, <2>2 DEF NoReportedOverlap
  <2>6. QED
    BY <2>1, <2>4, <2>5
<1> HIDE DEF Inv
<1>4. QED
  BY <1>1, <1>2, <1>3, PTL DEF Spec

-----------------------------------------------------------------------------
(* A rollback waits for the reports *)

\* A rollback past its first check has no patch run of its locations pending.
RollbackClear ==
    \A a \in Attempt :
        plan[a] \in Rollback /\ step[a] \in Starting \ {"unreported", "release"} => ~Unreported(plan[a])

\* While the lock excludes, nothing that awaits its report comes between a
\* rollback's first check and its starts.
LEMMA RollbackClearStep ==
    ASSUME OneStarter, RunInv, RollbackClear, [Next]_vars
    PROVE  RollbackClear'
<1>1. WellFormed /\ RunRecords /\ OwnRuns
  BY DEF RunInv
<1> DEFINE Past(a) == plan[a] \in Rollback /\ step[a] \in Starting \ {"unreported", "release"}
<1>2. SUFFICES ASSUME NEW b \in Attempt, Past(b)', NEW f \in Exec,
                      report'[f] = "pending", PlanOf(f) \notin Rollback, Overlaps(f, plan'[b])
               PROVE  FALSE
  BY DEF RollbackClear, Unreported
<1>3. ASSUME report[f] = "pending", plan'[b] = plan[b], Past(b) PROVE FALSE
  BY <1>2, <1>3 DEF RollbackClear, Unreported
<1>4. CASE Elsewhere
  <2>1. UNCHANGED <<report, step, plan>>
    BY <1>4 DEF Elsewhere, store, local
  <2>2. QED
    BY <1>2, <1>3, <2>1
<1>5. ASSUME NEW a \in Attempt, NEW s \in Steps, WalkEffect(a, s) PROVE FALSE
  <2>1. CASE b = a
    <3>1. s \in {"list", "guard", "claim"} /\ plan'[a] = plan[a] /\ report' = report
      BY <1>2, <1>5, <2>1 DEF WalkEffect, Starting, AfterClaim
    <3>2. CASE s = "list"
      BY <1>2, <1>5, <2>1, <3>1, <3>2 DEF WalkEffect, Unreported
    <3>3. CASE s \in {"guard", "claim"}
      <4>1. step[a] \in {"list", "guard"}
        BY <1>5, <3>3 DEF WalkEffect
      <4>2. QED
        BY <1>2, <1>3, <2>1, <3>1, <4>1 DEF Starting
    <3>4. QED
      BY <3>1, <3>2, <3>3
  <2>2. CASE b # a
    BY <1>2, <1>3, <1>5, <2>2 DEF WalkEffect
  <2>3. QED
    BY <2>1, <2>2
<1>6. ASSUME NEW a \in Attempt,
             \/ ClaimEffect(a) \/ RecordEffect(a) \/ ListEffect(a)
             \/ \E e \in Exec : StartEffect(a, e) \/ FailEffect(a, e)
      PROVE  FALSE
  <2>1. /\ report' = report /\ plan' = plan
        /\ step[a] \in {"claim", "start", "record", "close"}
        /\ \A c \in Attempt : c # a => step'[c] = step[c]
    BY <1>6 DEF ClaimEffect, RecordEffect, ListEffect, StartEffect, FailEffect
  <2>2. Past(b)
    BY <1>2, <2>1 DEF Starting
  <2>3. QED
    BY <1>2, <1>3, <2>1, <2>2
<1>7. ASSUME NEW a \in Attempt, NEW e \in Exec, ReportEffect(a, e) PROVE FALSE
  <2>1. /\ step[a] = "report" /\ e \in Own(plan[a]) /\ plan' = plan
        /\ \A c \in Attempt : c # a => step'[c] = step[c]
        /\ \A g \in Exec : g # e => report'[g] = report[g]
    BY <1>1, <1>7 DEF OwnRuns, ReportEffect
  <2>2. b = a
    BY <1>2, <2>1 DEF OneStarter, Starting
  <2>3. f # e
    BY <1>2, <2>1, <2>2 DEF Own
  <2>4. QED
    BY <1>2, <1>3, <2>1, <2>2, <2>3 DEF Starting
<1>8. ASSUME NEW e \in Exec, EnvEffect(e) PROVE FALSE
  BY <1>2, <1>3, <1>8 DEF EnvEffect
<1> HIDE DEF Past
<1>9. QED
  BY <1>1, <1>4, <1>5, <1>6, <1>7, <1>8, StepEffect DEF Effect

\* While no start is slow and no plan is invoked twice at once, a rollback starts
\* only when no patch run of its locations awaits its report: whatever crashes,
\* is lost, or can't be listed.
THEOREM RollbackWaits ==
    ASSUME {"slow", "duplicate"} \intersect Faults = {}
    PROVE  Spec => RollbackAfterReports
<1> DEFINE Inv == LockInv /\ RunInv /\ RollbackClear
<1> DEFINE Waits ==
      \A e \in Exec :
          PlanOf(e) \in Rollback /\ ssm[e] = "none" /\ ssm'[e] # "none"
              => \A f \in Exec : PlanOf(f) \notin Rollback /\ Overlaps(f, PlanOf(e))
                                     => report[f] # "pending"
<1>1. Init => Inv
  BY LockInvInit, RunInvInit DEF Init, RollbackClear, Starting
<1>2. Inv /\ [Next]_vars => Inv'
  <2>1. SUFFICES ASSUME Inv, [Next]_vars PROVE Inv'
    OBVIOUS
  <2>2. LockInv' /\ RunInv'
    BY <2>1, LockInvStep, RunInvStep
  <2>3. RollbackClear'
    BY <2>1, LockExcludes, RollbackClearStep
  <2>4. QED
    BY <2>2, <2>3
<1>3. Inv /\ [Next]_vars => Waits
  <2>1. SUFFICES ASSUME Inv, [Next]_vars, NEW e \in Exec, PlanOf(e) \in Rollback,
                        ssm[e] = "none", ssm'[e] # "none"
                 PROVE  ~Unreported(PlanOf(e))
    BY DEF Unreported
  <2>2. WellFormed /\ RunRecords /\ OwnRuns /\ RollbackClear
    BY <2>1 DEF RunInv
  <2>3. ASSUME NEW a \in Attempt, NEW g \in Exec, StartEffect(a, g) \/ FailEffect(a, g)
        PROVE  ~Unreported(PlanOf(e))
    <3>1. g = e /\ step[a] = "start" /\ e \in todo[a]
      BY <2>1, <2>3 DEF StartEffect, FailEffect, Launched
    <3>2. PlanOf(e) = plan[a]
      BY <2>2, <3>1 DEF OwnRuns, Own
    <3>3. QED
      BY <2>1, <2>2, <3>1, <3>2 DEF RollbackClear, Starting
  <2>4. ~(ssm' = ssm)
    BY <2>1
  <2>5. ASSUME NEW a \in Attempt, NEW s \in Steps PROVE ~WalkEffect(a, s)
    BY <2>4 DEF WalkEffect
  <2>6. ASSUME NEW a \in Attempt
        PROVE  /\ ~ClaimEffect(a) /\ ~RecordEffect(a) /\ ~ListEffect(a)
               /\ \A g \in Exec : ~ReportEffect(a, g)
    BY <2>4 DEF ClaimEffect, RecordEffect, ListEffect, ReportEffect
  <2>7. ASSUME NEW g \in Exec PROVE ~EnvEffect(g)
    BY <2>1 DEF EnvEffect
  <2>8. ~Elsewhere
    BY <2>4 DEF Elsewhere, runs
  <2>9. QED
    BY <2>1, <2>2, <2>3, <2>5, <2>6, <2>7, <2>8, StepEffect DEF Effect
<1> HIDE DEF Inv
<1>4. QED
  BY <1>1, <1>2, <1>3, PTL DEF Spec, RollbackAfterReports

-----------------------------------------------------------------------------
(* Every run lives as RunLife says *)

\* Every step of every attempt, of SSM and of the reconciler is a step of the
\* run's life, or leaves it alone.
LEMMA RunLifeStep ==
    ASSUME RunInv, [Next]_vars PROVE [Life!Next]_(Life!vars)
<1> DEFINE Lives == Life!Next \/ UNCHANGED <<ssm, busy, report>>
<1>1. WellFormed /\ RunRecords /\ OwnRuns
  BY DEF RunInv
<1> USE DEF Life!Next
<1>2. ASSUME NEW e \in Exec, Launch(e), report' = report PROVE Lives
  <2>1. CASE ssm[e] = "none"
    BY <1>2, <2>1 DEF Launch, Life!Start
  <2>2. CASE ssm[e] # "none"
    <3>1. ssm' = ssm
      BY <1>1, <1>2, <2>2 DEF Launch, WellFormed, TypeOK
    <3>2. QED
      BY <1>2, <2>2, <3>1 DEF Launch
  <2>3. QED
    BY <2>1, <2>2
<1>3. ASSUME NEW a \in Attempt, NEW e \in Exec, StartLocation(a, e) PROVE Lives
  BY <1>2, <1>3 DEF StartLocation, store
<1>4. ASSUME NEW a \in Attempt, NEW e \in Exec, FailStart(a, e) PROVE Lives
  BY <1>2, <1>4 DEF FailStart, store, runs
<1>5. ASSUME NEW a \in Attempt, NEW e \in Exec, ReportRun(a, e) PROVE Lives
  <2>1. ssm[e] # "none" /\ UNCHANGED <<ssm, busy>>
    BY <1>1, <1>5 DEF ReportRun, OwnRuns, runs
  <2>2. CASE report[e] = "none" /\ report' = [report EXCEPT ![e] = "pending"]
    BY <2>1, <2>2 DEF Life!Await
  <2>3. CASE report' = report
    BY <2>1, <2>3
  <2>4. report' = report \/ (report[e] = "none" /\ report' = [report EXCEPT ![e] = "pending"])
    <3>1. report \in [Exec -> {"none", "pending", "written"}]
      BY <1>1 DEF WellFormed, TypeOK
    <3>2. report' = [report EXCEPT ![e] = IF report[e] = "none" THEN "pending" ELSE report[e]]
             \/ report' = report
      BY <1>5 DEF ReportRun
    <3>3. CASE report[e] = "none"
      BY <3>2, <3>3
    <3>4. CASE report[e] # "none"
      BY <3>1, <3>2, <3>4
    <3>5. QED
      BY <3>3, <3>4
  <2>5. QED
    BY <2>2, <2>3, <2>4
<1>6. ASSUME NEW a \in Attempt, NEW s \in Steps, Walk(a, s) PROVE Lives
  BY <1>6 DEF Walk, store, runs
<1>7. ASSUME NEW a \in Attempt, Claim(a) \/ RecordRun(a) \/ ListRuns(a) PROVE Lives
  BY <1>7 DEF Claim, RecordRun, ListRuns, runs
<1>8. ASSUME NEW e \in Exec, EnvStep(e) PROVE Lives
  <2>1. CASE RunSucceeds(e)
    BY <2>1 DEF RunSucceeds, store, Life!Succeed
  <2>2. CASE RunEndsEarly(e)
    BY <2>2 DEF RunEndsEarly, store, Life!EndEarly
  <2>3. CASE CommandsFinish(e)
    BY <2>3 DEF CommandsFinish, store, Life!FinishCommands
  <2>4. CASE Reconcile(e)
    BY <2>4 DEF Reconcile, runs, Life!Report
  <2>5. QED
    BY <1>8, <2>1, <2>2, <2>3, <2>4 DEF EnvStep
<1>9. ASSUME Elsewhere PROVE Lives
  BY <1>9 DEF Elsewhere, store, runs
<1> HIDE DEF Lives
<1>10. Lives
  BY <1>1, <1>3, <1>4, <1>5, <1>6, <1>7, <1>8, <1>9, RunKinds DEF RunStep
<1>11. QED
  BY <1>10 DEF Lives, Life!vars

\* Whatever crashes or is lost, and whoever starts a plan again, every run lives
\* as RunLife says: the runtime's side of that contract.
THEOREM RunLifeRefined == Spec => ImplementsRunLife
<1>1. Init => Life!Init
  BY DEF Init, Life!Init
<1>2. RunInv /\ [Next]_vars => [Life!Next]_(Life!vars)
  BY RunLifeStep
<1>3. QED
  BY <1>1, <1>2, RunInvInit, RunInvStep, PTL DEF Spec, ImplementsRunLife, Life!Spec

=============================================================================
