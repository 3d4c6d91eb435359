--------------------------- MODULE Promotion_proofs ---------------------------
(* Proofs about Promotion for every set of plans, executions, locations and      *)
(* alarms and every length of the settling times: types; that ROLLBACK is        *)
(* answered for what failed; and, where the plan and its list of runs can be     *)
(* read, that PROCEED is answered when all is well and that a stage passes only  *)
(* after the one before it was verified.  And of the verification of a CVE's fix *)
(* (FixVerification), that "fixed", and the cause of a finding that is open, are  *)
(* true.                                                                         *)
EXTENDS Promotion, FiniteSetTheorems, WellFoundedInduction, TLAPS

\* What the constants are: each execution is one of a plan, in its locations, and
\* times are numbers.
PromotionConstants ==
    /\ PlanOf \in [Executions -> Plans] /\ "none" \notin Executions
    /\ LocationsOf \in [Executions -> SUBSET Locations] /\ IsFiniteSet(Locations)
    /\ Stage \in [Plans -> Nat] /\ Scope \in [Plans -> Scopes]
    /\ MinSettle \in Nat /\ Margin \in Nat /\ MaxSettle \in Nat
    /\ \E n \in Nat : Evaluation \in [Alarms -> 0..n]
    /\ MaxAge \in Nat /\ MaxClock \in Nat

-----------------------------------------------------------------------------
(* The inductive invariant *)

Status == {"none", "InProgress"} \union Ended
RunsOf(p) == {e \in Executions : PlanOf[e] = p}
Key(e) == <<Stage[PlanOf[e]], Scope[PlanOf[e]]>>
EndTimes(p) == {run[e].ended : e \in Begun(p)}

WellFormed ==
    /\ TypeOK
    /\ run = [e \in Executions |-> run[e]]
    /\ \A e \in Executions :
         run[e] \in [status: Status, began: Nat, ended: Nat, child: Children(e)]
    /\ promotion \in [{Stage[p] : p \in Plans} \X Scopes -> Records \union {None}]

\* A plan's runs begin together, and its record lists them.
Together ==
    \A e \in Executions : run[e].status # "none" =>
        /\ \A f \in RunsOf(PlanOf[e]) : run[f].status # "none"
        /\ PlanOf[e] \in listed \/ "list" \in Faults

Done(p) ==
    \A e \in RunsOf(p) :
        run[e].status = "Success" /\ \A l \in LocationsOf[e] : run[e].child[l] = "Success"

DonePlans == {p \in Plans : Done(p)}
LastEnds == [p \in Plans |-> Greatest(EndTimes(p))]

\* A record tells of a plan that is done, and when the last of its runs ended.
Backed(rec, done, ends) ==
    PlanOf[rec.execution] \in done /\ rec.ended = ends[PlanOf[rec.execution]]

RecordsBacked ==
    /\ \A rec \in inFlight : Backed(rec, DonePlans, LastEnds)
    /\ \A k \in DOMAIN promotion : promotion[k] # None =>
         k = Key(promotion[k].execution) /\ Backed(promotion[k], DonePlans, LastEnds)

-----------------------------------------------------------------------------
(* The times of a plan's runs *)

\* A set of times up to n has a greatest one.
LEMMA GreatestIs ==
    ASSUME NEW n \in Nat, NEW S \in SUBSET (0..n), S # {}
    PROVE  Greatest(S) \in S /\ \A m \in S : m <= Greatest(S)
<1> DEFINE T == {k \in 0..n : n - k \in S}
           R == OpToRel(<, Nat)
<1>1. T \subseteq Nat /\ T # {}
  <2>1. PICK s \in S : TRUE
    OBVIOUS
  <2>2. s \in 0..n /\ n - s \in 0..n /\ n - (n - s) = s
    OBVIOUS
  <2>3. n - s \in T
    BY <2>2
  <2>4. QED
    BY <2>3
<1>2. PICK k \in T : \A j \in T : ~(<<j, k>> \in R)
  <2> HIDE DEF T, R
  <2>1. IsWellFoundedOn(R, Nat)
    BY NatLessThanWellFounded DEF R
  <2>2. QED
    BY <1>1, <2>1, WFMin
<1>3. \A j \in T : k <= j
  <2>1. ASSUME NEW j \in T PROVE k <= j
    <3>1. j \in Nat /\ k \in Nat
      BY <1>1
    <3>2. j < k => <<j, k>> \in R
      BY <3>1 DEF OpToRel
    <3> HIDE DEF T, R
    <3>3. QED
      BY <1>2, <3>1, <3>2
  <2>2. QED
    BY <2>1
<1>4. \A m \in S : m <= n - k
  <2>1. ASSUME NEW m \in S PROVE m <= n - k
    <3>1. m \in 0..n /\ n - m \in 0..n /\ n - (n - m) = m
      OBVIOUS
    <3>2. n - m \in T
      BY <3>1
    <3>3. k <= n - m /\ k \in Nat
      BY <1>1, <1>3, <3>2
    <3>4. QED
      BY <3>1, <3>3
  <2>2. QED
    BY <2>1
<1>5. n - k \in S
  OBVIOUS
<1> HIDE DEF T, R
<1>6. QED
  BY <1>4, <1>5 DEF Greatest

-----------------------------------------------------------------------------
(* What each action does to the runs *)

\* A plan's start begins all of its runs, and no other.
LEMMA StartPlanEffect ==
    ASSUME WellFormed, NEW p \in Plans, StartPlan(p)
    PROVE  /\ UNCHANGED <<clock, inFlight, promotion, verified, last>>
           /\ listed \subseteq listed' /\ listed' \subseteq listed \union {p}
           /\ p \in listed' \/ "list" \in Faults
           /\ \A e \in Executions : PlanOf[e] = p =>
                /\ run[e].status = "none"
                /\ run'[e].status = "InProgress" /\ run'[e].began = clock /\ run'[e].ended = 0
                /\ run'[e] \in [status: Status, began: Nat, ended: Nat, child: Children(e)]
           /\ \A e \in Executions : PlanOf[e] # p => run'[e] = run[e]
           /\ run' = [e \in Executions |-> run'[e]]
<1>1. Begun(p) = {} /\ UNCHANGED <<clock, inFlight, promotion, verified, last>>
  BY DEF StartPlan
<1>2. run' = [e \in Executions |->
         IF PlanOf[e] = p THEN [NotRun(e) EXCEPT !.status = "InProgress", !.began = clock] ELSE run[e]]
  BY DEF StartPlan
<1>3. ASSUME NEW e \in Executions, PlanOf[e] = p
      PROVE  /\ run[e].status = "none"
             /\ run'[e].status = "InProgress" /\ run'[e].began = clock /\ run'[e].ended = 0
             /\ run'[e] \in [status: Status, began: Nat, ended: Nat, child: Children(e)]
  <2>1. run'[e] = [NotRun(e) EXCEPT !.status = "InProgress", !.began = clock]
    BY <1>2, <1>3
  <2>2. NotRun(e) \in [status: Status, began: Nat, ended: Nat, child: Children(e)] /\ NotRun(e).ended = 0
    BY DEF NotRun, Status, Children
  <2>3. clock \in Nat /\ "InProgress" \in Status
    BY DEF WellFormed, TypeOK, Status
  <2>4. run[e].status = "none"
    BY <1>1, <1>3 DEF Begun
  <2>5. QED
    BY <2>1, <2>2, <2>3, <2>4
<1>4. listed' = listed \union {p} \/ ("list" \in Faults /\ listed' = listed)
  BY DEF StartPlan
<1>5. QED
  BY <1>1, <1>2, <1>3, <1>4

\* A location's outcome is the only thing its end changes.
LEMMA LocationEndsEffect ==
    ASSUME WellFormed, NEW e \in Executions, NEW l \in LocationsOf[e], NEW outcome \in Ended,
           LocationEnds(e, l, outcome)
    PROVE  /\ UNCHANGED <<clock, listed, inFlight, promotion, verified, last>>
           /\ run[e].status # "none" /\ run[e].child[l] = "InProgress"
           /\ run'[e].status = run[e].status
           /\ run'[e].began = run[e].began /\ run'[e].ended = run[e].ended
           /\ run'[e] \in [status: Status, began: Nat, ended: Nat, child: Children(e)]
           /\ \A f \in Executions : f # e => run'[f] = run[f]
           /\ run' = [f \in Executions |-> run'[f]]
<1>1. /\ run' = [run EXCEPT ![e].child[l] = outcome]
      /\ UNCHANGED <<clock, listed, inFlight, promotion, verified, last>>
      /\ run[e].status # "none" /\ run[e].child[l] = "InProgress"
  BY DEF LocationEnds
<1>2. /\ run = [f \in Executions |-> run[f]]
      /\ run[e] \in [status: Status, began: Nat, ended: Nat, child: Children(e)]
  BY DEF WellFormed
<1>3. run'[e] = [run[e] EXCEPT !.child[l] = outcome]
  BY <1>1, <1>2
<1>4. [run[e].child EXCEPT ![l] = outcome] \in Children(e)
  BY <1>2 DEF Children
<1>5. run'[e] = [run[e] EXCEPT !.child = [run[e].child EXCEPT ![l] = outcome]]
  BY <1>3
<1>6. QED
  BY <1>1, <1>2, <1>4, <1>5

\* A run's end gives it its status and the time.
LEMMA RunEndsEffect ==
    ASSUME WellFormed, NEW e \in Executions, NEW status \in Ended, RunEnds(e, status)
    PROVE  /\ UNCHANGED <<clock, listed, inFlight, promotion, verified, last>>
           /\ run[e].status = "InProgress"
           /\ run'[e].status = status /\ run'[e].ended = clock
           /\ run'[e].began = run[e].began /\ run'[e].child = run[e].child
           /\ run'[e] \in [status: Status, began: Nat, ended: Nat, child: Children(e)]
           /\ \A f \in Executions : f # e => run'[f] = run[f]
           /\ run' = [f \in Executions |-> run'[f]]
<1>1. /\ run' = [run EXCEPT ![e].status = status, ![e].ended = clock]
      /\ UNCHANGED <<clock, listed, inFlight, promotion, verified, last>>
      /\ run[e].status = "InProgress"
  BY DEF RunEnds
<1>2. /\ run = [f \in Executions |-> run[f]]
      /\ run[e] \in [status: Status, began: Nat, ended: Nat, child: Children(e)]
      /\ clock \in Nat
  BY DEF WellFormed, TypeOK
<1>3. run'[e] = [run[e] EXCEPT !.status = status, !.ended = clock]
  BY <1>1, <1>2
<1>4. QED
  BY <1>1, <1>2, <1>3 DEF Status

\* The other steps leave the runs alone.
LEMMA RunSteps ==
    ASSUME [Next]_vars
    PROVE  \/ \E p \in Plans : StartPlan(p)
           \/ \E e \in Executions : \E l \in LocationsOf[e], outcome \in Ended : LocationEnds(e, l, outcome)
           \/ \E e \in Executions, status \in Ended : RunEnds(e, status)
           \/ UNCHANGED <<run, listed>>
  BY DEF Next, VerifyRuns, VerifyHealth, RecordPromotion, Tick, vars

\* A plan that succeeded everywhere stays as it is.
LEMMA DoneStays ==
    ASSUME WellFormed, [Next]_vars, NEW p, Done(p)
    PROVE  Done(p)' /\ EndTimes(p)' = EndTimes(p)
<1>1. ASSUME \A e \in RunsOf(p) : run'[e] = run[e] PROVE Done(p)' /\ EndTimes(p)' = EndTimes(p)
  <2>1. Done(p)'
    BY <1>1 DEF Done, RunsOf
  <2>2. \A e \in Executions : PlanOf[e] = p => run'[e] = run[e]
    BY <1>1 DEF RunsOf
  <2>3. Begun(p)' = Begun(p) /\ \A e \in Begun(p) : run'[e] = run[e]
    BY <2>2 DEF Begun
  <2>4. QED
    BY <2>1, <2>3 DEF EndTimes
<1>2. \A e \in RunsOf(p) : /\ e \in Executions /\ PlanOf[e] = p /\ run[e].status = "Success"
                           /\ \A l \in LocationsOf[e] : run[e].child[l] = "Success"
  BY DEF Done, RunsOf
<1>3. ASSUME NEW q \in Plans, StartPlan(q) PROVE \A e \in RunsOf(p) : run'[e] = run[e]
  BY <1>2, <1>3, StartPlanEffect
<1>4. ASSUME NEW e \in Executions, NEW l \in LocationsOf[e], NEW outcome \in Ended,
             LocationEnds(e, l, outcome)
      PROVE  \A f \in RunsOf(p) : run'[f] = run[f]
  BY <1>2, <1>4, LocationEndsEffect
<1>5. ASSUME NEW e \in Executions, NEW status \in Ended, RunEnds(e, status)
      PROVE  \A f \in RunsOf(p) : run'[f] = run[f]
  BY <1>2, <1>5, RunEndsEffect
<1>6. QED
  BY <1>1, <1>3, <1>4, <1>5, RunSteps

-----------------------------------------------------------------------------
(* Type correctness *)

\* The latest end of the runs that are read is a time that has been.
LEMMA EndedAtIs ==
    ASSUME PromotionConstants, WellFormed, NEW e \in Executions
    PROVE  /\ EndedAt(e) \in 0..clock
           /\ \A f \in ListedSiblings(e) \union {e} : run[f].ended <= EndedAt(e)
<1> DEFINE S == {run[f].ended : f \in ListedSiblings(e) \union {e}}
<1>1. clock \in Nat /\ \A f \in Executions : run[f].ended \in 0..clock
  BY DEF WellFormed, TypeOK, PromotionConstants
<1>2. ListedSiblings(e) \union {e} \subseteq Executions
  BY DEF ListedSiblings, Siblings
<1>3. S \in SUBSET (0..clock) /\ S # {}
  BY <1>1, <1>2
<1>4. Greatest(S) \in S /\ \A m \in S : m <= Greatest(S)
  <2> HIDE DEF S
  <2>1. QED
    BY <1>1, <1>3, GreatestIs
<1>5. EndedAt(e) = Greatest(S)
  BY DEF EndedAt
<1>6. QED
  BY <1>3, <1>4, <1>5

\* The answer of one look at the instances and alarms of e's plan.
VerdictOn(e, w, look, named, kept) ==
    LET elapsed == clock - EndedAt(e)
        silent == \E l \in look.checked : \E a \in kept[l] : w.alarm[l][a] = "no data since"
    IN  IF elapsed < MinSettle \/ elapsed < SettleTime(Longest(look.checked, w, named)) THEN "WAIT"
        ELSE HealthVerdict(InstanceHealth(look.checked, w.ping),
                           AlarmHealth(look.checked, w, named), silent, look.unlisted)

\* What one look answers, and whether it is about to record the run.
AnswersOn(e, w, look, named, kept) ==
    LET verdict == VerdictOn(e, w, look, named, kept)
    IN  /\ \A l \in look.checked : kept[l] \in KeptNoData(NoData(w, named, l))
        /\ Answer(verdict, [well |-> Well(PlanOf[e], w, named), clean |-> Clean(PlanOf[e], w, named),
                            failed |-> \E l \in look.checked : w.ping[l] = "ConnectionLost",
                            unplaced |-> \E l \in look.checked : w.ping[l] = "unplaced"])
        /\ inFlight' = IF verdict = "PROCEED"
                       THEN inFlight \union {[execution |-> e, ended |-> EndedAt(e)]} ELSE inFlight

\* A check of the instances is one look at them; it leaves the runs alone, and may be
\* about to record its own.
LEMMA VerifyHealthEffect ==
    ASSUME NEW e \in Executions, VerifyHealth(e)
    PROVE  /\ UNCHANGED <<clock, run, listed, promotion, verified>>
           /\ run[e].status # "none"
           /\ \A f \in ListedSiblings(e) \union {e} : RunOutcome(f, "all") = "SUCCEEDED"
           /\ \E w \in Worlds(PlanOf[e]), look \in CheckedInstances(PlanOf[e]), named \in SUBSET Alarms :
              \E kept \in [look.checked -> SUBSET named] : AnswersOn(e, w, look, named, kept)
  BY Zenon DEF VerifyHealth, AnswersOn, VerdictOn

\* The verdict on instances and alarms is one of the answers.
LEMMA HealthVerdicts ==
    ASSUME NEW ssm, NEW alarms, NEW silent, NEW unlisted
    PROVE  HealthVerdict(ssm, alarms, silent, unlisted) \in {"ROLLBACK", "HOLD", "PROCEED"}
  BY DEF HealthVerdict

\* Every answer has its type.
LEMMA AnswerTyped ==
    ASSUME WellFormed, [Next]_vars
    PROVE  last' \in [recommendation: Recommendations, truth: Truths]
<1>1. last \in [recommendation: Recommendations, truth: Truths]
  BY DEF WellFormed, TypeOK
<1>2. ASSUME NEW e \in Executions, VerifyRuns(e)
      PROVE  last' \in [recommendation: Recommendations, truth: Truths]
  <2>1. ASSUME NEW o PROVE RunVerdict(o) \in {"INVESTIGATE", "WAIT", "HOLD", "ROLLBACK", "go on"}
    BY DEF RunVerdict
  <2>2. ASSUME NEW seen, NEW v \in SiblingVerdicts(e, seen) PROVE v \in {"WAIT", "HOLD", "go on"}
    BY DEF SiblingVerdicts
  <2>3. PICK seen \in [Executions -> Seen] :
          LET own == RunVerdict(RunOutcome(e, seen[e])) IN
          \/ own # "go on" /\ Answer(own, [NothingTrue EXCEPT !.failed = own = "ROLLBACK" /\ run[e].status = "Failed"])
          \/ Answer("HOLD", NothingTrue)
          \/ \E v \in SiblingVerdicts(e, seen) \ {"go on"} : Answer(v, NothingTrue)
    BY <1>2 DEF VerifyRuns
  <2>4. \E v \in Recommendations, truth \in Truths : Answer(v, truth)
    <3>1. CASE \E v \in SiblingVerdicts(e, seen) \ {"go on"} : Answer(v, NothingTrue)
      BY <2>2, <3>1 DEF Recommendations, NothingTrue, Truths
    <3>2. CASE Answer("HOLD", NothingTrue)
      BY <3>2 DEF Recommendations, NothingTrue, Truths
    <3> DEFINE own == RunVerdict(RunOutcome(e, seen[e]))
    <3>3. own \in {"INVESTIGATE", "WAIT", "HOLD", "ROLLBACK", "go on"}
      BY <2>1
    <3>4. ASSUME own # "go on", Answer(own, [NothingTrue EXCEPT !.failed = own = "ROLLBACK" /\ run[e].status = "Failed"])
          PROVE  \E v \in Recommendations, truth \in Truths : Answer(v, truth)
      <4> HIDE DEF own
      <4>1. own \in Recommendations
        BY <3>3, <3>4 DEF Recommendations
      <4>2. [NothingTrue EXCEPT !.failed = own = "ROLLBACK" /\ run[e].status = "Failed"] \in Truths
        BY DEF NothingTrue, Truths
      <4>3. QED
        BY <3>4, <4>1, <4>2
    <3>5. QED
      BY <2>3, <3>1, <3>2, <3>4
  <2>5. QED
    BY <2>4 DEF Answer
<1>3. ASSUME NEW e \in Executions, VerifyHealth(e)
      PROVE  last' \in [recommendation: Recommendations, truth: Truths]
  <2>1. \E verdict \in {"WAIT", "ROLLBACK", "HOLD", "PROCEED"}, truth \in Truths : Answer(verdict, truth)
    <3>1. PICK w, look, named, kept : AnswersOn(e, w, look, named, kept)
      BY <1>3, VerifyHealthEffect
    <3>2. VerdictOn(e, w, look, named, kept) \in {"WAIT", "ROLLBACK", "HOLD", "PROCEED"}
      BY HealthVerdicts DEF VerdictOn
    <3>3. Clean(PlanOf[e], w, named) \in BOOLEAN /\ Well(PlanOf[e], w, named) \in BOOLEAN
      BY DEF Clean, Well
    <3>4. \A x : (\E l \in look.checked : w.ping[l] = x) \in BOOLEAN
      OBVIOUS
    <3>5. QED
      BY <3>1, <3>2, <3>3, <3>4 DEF AnswersOn, Truths
  <2>2. QED
    BY <2>1 DEF Answer, Recommendations
<1>4. CASE UNCHANGED last
  BY <1>1, <1>4
<1>5. QED
  BY <1>2, <1>3, <1>4
     DEF Next, StartPlan, LocationEnds, RunEnds, RecordPromotion, Tick, vars

\* Every step keeps the types.
LEMMA WellFormedStep ==
    ASSUME PromotionConstants, WellFormed, [Next]_vars
    PROVE  WellFormed'
<1> DEFINE Run(e) == /\ run[e] \in [status: Status, began: Nat, ended: Nat, child: Children(e)]
                     /\ run[e].began \in 0..clock /\ run[e].ended \in 0..clock
           Rest == /\ clock \in 0..MaxClock /\ listed \subseteq Plans
                   /\ inFlight \subseteq Records /\ verified \subseteq Records
                   /\ promotion \in [{Stage[p] : p \in Plans} \X Scopes -> Records \union {None}]
<1>1. Rest /\ \A e \in Executions : Run(e)
  BY DEF WellFormed, TypeOK
<1>2. run = [e \in Executions |-> run[e]] /\ MaxClock \in Nat /\ clock \in Nat
  BY DEF WellFormed, TypeOK, PromotionConstants
<1>3. ASSUME Rest', \A e \in Executions : Run(e)', run' = [e \in Executions |-> run'[e]]
      PROVE  WellFormed'
  <2>1. last' \in [recommendation: Recommendations, truth: Truths]
    BY AnswerTyped
  <2>2. TypeOK'
    <3>1. \A e \in Executions : /\ run'[e].status \in {"none", "InProgress"} \union Ended
                                /\ run'[e].began \in 0..clock' /\ run'[e].ended \in 0..clock'
                                /\ run'[e].child \in Children(e)
      BY <1>3 DEF Status
    <3>2. \A k \in DOMAIN promotion' : promotion'[k] \in Records \union {None}
      BY <1>3
    <3>3. QED
      BY <1>3, <2>1, <3>1, <3>2 DEF TypeOK
  <2>3. QED
    BY <1>3, <2>2 DEF WellFormed
<1>4. ASSUME NEW p \in Plans, StartPlan(p) PROVE WellFormed'
  <2>1. Rest'
    BY <1>1, <1>4, StartPlanEffect
  <2>2. run' = [e \in Executions |-> run'[e]]
    BY <1>4, StartPlanEffect
  <2>3. ASSUME NEW e \in Executions PROVE Run(e)'
    <3>1. clock' = clock
      BY <1>4, StartPlanEffect
    <3>2. CASE PlanOf[e] = p
      <4>1. /\ run'[e].began = clock /\ run'[e].ended = 0
            /\ run'[e] \in [status: Status, began: Nat, ended: Nat, child: Children(e)]
        BY <1>4, <3>2, StartPlanEffect
      <4>2. QED
        BY <1>2, <3>1, <4>1
    <3>3. CASE PlanOf[e] # p
      <4>1. run'[e] = run[e]
        BY <1>4, <3>3, StartPlanEffect
      <4>2. QED
        BY <1>1, <3>1, <4>1
    <3>4. QED
      BY <3>2, <3>3
  <2> HIDE DEF Rest, Run
  <2>4. QED
    BY <1>3, <2>1, <2>2, <2>3
<1>5. ASSUME NEW e \in Executions, NEW l \in LocationsOf[e], NEW outcome \in Ended,
             LocationEnds(e, l, outcome)
      PROVE  WellFormed'
  <2>1. Rest' /\ run' = [f \in Executions |-> run'[f]]
    BY <1>1, <1>5, LocationEndsEffect
  <2>2. ASSUME NEW f \in Executions PROVE Run(f)'
    <3>1. /\ clock' = clock
          /\ f # e => run'[f] = run[f]
          /\ run'[e].began = run[e].began /\ run'[e].ended = run[e].ended
          /\ run'[e] \in [status: Status, began: Nat, ended: Nat, child: Children(e)]
      BY <1>5, LocationEndsEffect
    <3>2. QED
      BY <1>1, <3>1
  <2> HIDE DEF Rest, Run
  <2>3. QED
    BY <1>3, <2>1, <2>2
<1>6. ASSUME NEW e \in Executions, NEW status \in Ended, RunEnds(e, status) PROVE WellFormed'
  <2>1. Rest' /\ run' = [f \in Executions |-> run'[f]]
    BY <1>1, <1>6, RunEndsEffect
  <2>2. ASSUME NEW f \in Executions PROVE Run(f)'
    <3>1. /\ clock' = clock
          /\ f # e => run'[f] = run[f]
          /\ run'[e].began = run[e].began /\ run'[e].ended = clock
          /\ run'[e] \in [status: Status, began: Nat, ended: Nat, child: Children(e)]
      BY <1>6, RunEndsEffect
    <3>2. QED
      BY <1>1, <1>2, <3>1
  <2> HIDE DEF Rest, Run
  <2>3. QED
    BY <1>3, <2>1, <2>2
<1>7. ASSUME run' = run, clock' = clock \/ clock' = clock + 1, Rest' PROVE WellFormed'
  <2>1. \A e \in Executions : Run(e)'
    BY <1>1, <1>2, <1>7
  <2>2. run' = [e \in Executions |-> run'[e]]
    BY <1>2, <1>7, Zenon
  <2> HIDE DEF Rest, Run
  <2>3. QED
    BY <1>3, <1>7, <2>1, <2>2
<1>8. ASSUME Tick PROVE WellFormed'
  <2>1. run' = run /\ clock' = clock + 1 /\ Rest'
    BY <1>1, <1>2, <1>8 DEF Tick
  <2> HIDE DEF Rest
  <2>2. QED
    BY <1>7, <2>1
<1>9. ASSUME NEW e \in Executions, VerifyRuns(e) PROVE WellFormed'
  <2>1. run' = run /\ clock' = clock /\ Rest'
    BY <1>1, <1>9 DEF VerifyRuns
  <2> HIDE DEF Rest
  <2>2. QED
    BY <1>7, <2>1
<1>10. ASSUME NEW e \in Executions, VerifyHealth(e) PROVE WellFormed'
  <2>1. /\ UNCHANGED <<clock, run, listed, promotion, verified>>
        /\ \/ inFlight' = inFlight
           \/ inFlight' = inFlight \union {[execution |-> e, ended |-> EndedAt(e)]}
    BY <1>10, VerifyHealthEffect DEF AnswersOn
  <2>2. EndedAt(e) \in 0..MaxClock
    BY <1>1, <1>2, EndedAtIs
  <2>3. [execution |-> e, ended |-> EndedAt(e)] \in Records
    BY <2>2 DEF Records
  <2>4. Rest'
    BY <1>1, <2>1, <2>3
  <2> HIDE DEF Rest
  <2>5. QED
    BY <1>7, <2>1, <2>4
<1>11. ASSUME NEW rec \in inFlight, RecordPromotion(rec) PROVE WellFormed'
  <2>1. run' = run /\ clock' = clock /\ listed' = listed /\ rec \in Records
    BY <1>1, <1>11 DEF RecordPromotion
  <2>2. /\ inFlight' \subseteq Records /\ verified' \subseteq Records
        /\ promotion' \in [{Stage[p] : p \in Plans} \X Scopes -> Records \union {None}]
    BY <1>1, <1>11, <2>1 DEF RecordPromotion
  <2>3. Rest'
    BY <1>1, <2>1, <2>2
  <2> HIDE DEF Rest
  <2>4. QED
    BY <1>7, <2>1, <2>3
<1>12. CASE UNCHANGED vars
  <2>1. run' = run /\ clock' = clock /\ Rest'
    BY <1>1, <1>12 DEF vars
  <2> HIDE DEF Rest
  <2>2. QED
    BY <1>7, <2>1
<1> HIDE DEF Rest, Run
<1>13. QED
  BY <1>4, <1>5, <1>6, <1>8, <1>9, <1>10, <1>11, <1>12 DEF Next

\* Nothing has begun, and nothing has been recorded.
LEMMA WellFormedInit == ASSUME PromotionConstants, Init PROVE WellFormed
<1>1. \A e \in Executions :
        /\ NotRun(e) \in [status: Status, began: Nat, ended: Nat, child: Children(e)]
        /\ NotRun(e).began = 0 /\ NotRun(e).ended = 0
  BY DEF NotRun, Status, Children
<1>2. clock = 0 /\ 0 \in 0..MaxClock
  BY DEF Init, PromotionConstants
<1>3. run = [e \in Executions |-> NotRun(e)]
  BY DEF Init
<1>4. \A e \in Executions : run[e] = NotRun(e)
  BY <1>3
<1>5. run = [e \in Executions |-> run[e]]
  BY <1>3
<1>6. \A e \in Executions : /\ run[e].status \in {"none", "InProgress"} \union Ended
                            /\ run[e].began \in 0..clock /\ run[e].ended \in 0..clock
                            /\ run[e].child \in Children(e)
  BY <1>1, <1>2, <1>4 DEF Status
<1>7. promotion \in [{Stage[p] : p \in Plans} \X Scopes -> Records \union {None}]
  BY DEF Init
<1>8. last \in [recommendation: Recommendations, truth: Truths]
  BY DEF Init, Recommendations, NothingTrue, Truths
<1>9. QED
  BY <1>1, <1>2, <1>4, <1>5, <1>6, <1>7, <1>8 DEF WellFormed, TypeOK, Init

\* Every state's records have their types, for every value of the constants.
THEOREM PromotionTypeCorrect ==
    ASSUME PromotionConstants
    PROVE  Spec => []TypeOK
<1>1. Init => WellFormed
  BY WellFormedInit
<1>2. WellFormed /\ [Next]_vars => WellFormed'
  BY WellFormedStep
<1>3. WellFormed => TypeOK
  BY DEF WellFormed
<1>4. QED
  BY <1>1, <1>2, <1>3, PTL DEF Spec

-----------------------------------------------------------------------------
(* Recommending a rollback *)

\* Of the instances that could be read, one that is not online has lost its connection
\* or wasn't found where it is.
LEMMA RollbackHasCause ==
    ASSUME NEW S, IsFiniteSet(S), NEW ping \in [S -> Ping], NEW checked \in SUBSET S,
           InstanceHealth(checked, ping) = "ROLLBACK_RECOMMENDED"
    PROVE  \E l \in checked : ping[l] \in {"ConnectionLost", "unplaced"}
<1> DEFINE scored == {l \in checked : ping[l] # "unread"}
           online == {l \in scored : ping[l] = "Online"}
<1>1. 2 * Cardinality(online) < Cardinality(scored)
  BY DEF InstanceHealth
<1>2. IsFiniteSet(scored)
  BY FS_Subset
<1>3. Cardinality(scored) \in Nat
  BY <1>2, FS_CardinalityType
<1>4. online # scored
  <2> HIDE DEF scored
  <2>1. ASSUME online = scored PROVE FALSE
    <3>1. 2 * Cardinality(scored) < Cardinality(scored)
      BY <1>1, <2>1
    <3>2. QED
      BY <1>3, <3>1
  <2>2. QED
    BY <2>1
<1>5. PICK l \in scored : ping[l] # "Online"
  BY <1>4
<1>6. ping[l] \in Ping
  OBVIOUS
<1>7. QED
  BY <1>5, <1>6 DEF Ping

\* The instances that are checked are the plan's.
LEMMA CheckedArePlans ==
    ASSUME NEW p, NEW look \in CheckedInstances(p)
    PROVE  look.checked \subseteq PlanLocations(p)
  BY DEF CheckedInstances

\* A plan's locations are finitely many.
LEMMA PlanLocationsFinite ==
    ASSUME PromotionConstants, NEW p
    PROVE  IsFiniteSet(PlanLocations(p))
<1>1. PlanLocations(p) \in SUBSET Locations
  BY DEF PlanLocations, PromotionConstants
<1>2. QED
  BY <1>1, FS_Subset DEF PromotionConstants

\* A rollback is recommended because a run failed, or an instance is unreachable or isn't
\* found where it is, whatever else can't be read or fails.
THEOREM RollbackForFailure ==
    ASSUME PromotionConstants
    PROVE  Spec => []RollbackIsForFailure
<1>1. Init => RollbackIsForFailure
  BY DEF Init, RollbackIsForFailure
<1>2. ASSUME RollbackIsForFailure, [Next]_vars PROVE RollbackIsForFailure'
  <2>1. ASSUME NEW e \in Executions, VerifyRuns(e) PROVE RollbackIsForFailure'
    <3>1. PICK seen \in [Executions -> Seen] :
            LET own == RunVerdict(RunOutcome(e, seen[e])) IN
            \/ Answer(own, [NothingTrue EXCEPT !.failed = own = "ROLLBACK" /\ run[e].status = "Failed"])
            \/ Answer("HOLD", NothingTrue)
            \/ \E v \in SiblingVerdicts(e, seen) \ {"go on"} : Answer(v, NothingTrue)
      BY <2>1 DEF VerifyRuns
    <3>2. ASSUME NEW v \in SiblingVerdicts(e, seen) PROVE v # "ROLLBACK"
      BY DEF SiblingVerdicts
    <3> DEFINE outcome == RunOutcome(e, seen[e])
    <3>3. RunVerdict(outcome) = "ROLLBACK" => run[e].status = "Failed"
      <4>1. RunVerdict(outcome) = "ROLLBACK" => outcome = "FAILED"
        <5> HIDE DEF outcome
        <5>1. QED
          BY DEF RunVerdict
      <4>2. outcome = "FAILED" => run[e].status = "Failed"
        BY DEF RunOutcome
      <4>3. QED
        BY <4>1, <4>2
    <3> HIDE DEF outcome
    <3>4. CASE \E v \in SiblingVerdicts(e, seen) \ {"go on"} : Answer(v, NothingTrue)
      BY <3>2, <3>4 DEF Answer, RollbackIsForFailure
    <3>5. CASE Answer("HOLD", NothingTrue)
      BY <3>5 DEF Answer, RollbackIsForFailure
    <3>6. ASSUME Answer(RunVerdict(outcome), [NothingTrue EXCEPT !.failed =
                        RunVerdict(outcome) = "ROLLBACK" /\ run[e].status = "Failed"])
          PROVE  RollbackIsForFailure'
      BY <3>3, <3>6 DEF Answer, NothingTrue, RollbackIsForFailure
    <3>7. QED
      BY <3>1, <3>4, <3>5, <3>6 DEF outcome
  <2>2. ASSUME NEW e \in Executions, VerifyHealth(e) PROVE RollbackIsForFailure'
    <3> DEFINE S == PlanLocations(PlanOf[e])
    <3>1. PICK w \in Worlds(PlanOf[e]), look \in CheckedInstances(PlanOf[e]), named \in SUBSET Alarms :
            \E kept \in [look.checked -> SUBSET named] : AnswersOn(e, w, look, named, kept)
      BY <2>2, VerifyHealthEffect
    <3>2. IsFiniteSet(S) /\ look.checked \subseteq S /\ w.ping \in [S -> Ping]
      BY CheckedArePlans, PlanLocationsFinite DEF Worlds
    <3>7. PICK kept \in [look.checked -> SUBSET named] : AnswersOn(e, w, look, named, kept)
      BY <3>1
    <3> DEFINE verdict == VerdictOn(e, w, look, named, kept)
               failed == \E l \in look.checked : w.ping[l] = "ConnectionLost"
               unplaced == \E l \in look.checked : w.ping[l] = "unplaced"
    <3>3. verdict = "ROLLBACK" => InstanceHealth(look.checked, w.ping) = "ROLLBACK_RECOMMENDED"
      BY DEF VerdictOn, HealthVerdict
    <3>4. verdict = "ROLLBACK" => failed \/ unplaced
      <4> HIDE DEF S, verdict
      <4>1. verdict = "ROLLBACK" => \E l \in look.checked : w.ping[l] \in {"ConnectionLost", "unplaced"}
        BY <3>2, <3>3, RollbackHasCause
      <4>2. QED
        BY <4>1
    <3>5. last'.recommendation = verdict /\ last'.truth.failed = failed /\ last'.truth.unplaced = unplaced
      BY <3>7 DEF AnswersOn, Answer
    <3> HIDE DEF verdict, failed, unplaced
    <3>6. QED
      BY <3>4, <3>5 DEF RollbackIsForFailure
  <2>3. CASE UNCHANGED last
    BY <1>2, <2>3 DEF RollbackIsForFailure
  <2>4. QED
    BY <1>2, <2>1, <2>2, <2>3
       DEF Next, StartPlan, LocationEnds, RunEnds, RecordPromotion, Tick, vars
<1>3. QED
  BY <1>1, <1>2, PTL DEF Spec

-----------------------------------------------------------------------------
(* What is verified *)

\* Every step keeps a plan's runs together.
LEMMA TogetherStep ==
    ASSUME WellFormed, Together, [Next]_vars
    PROVE  Together'
<1>1. ASSUME NEW p \in Plans, StartPlan(p) PROVE Together'
  <2>1. ASSUME NEW e \in Executions, run'[e].status # "none"
        PROVE  /\ \A f \in Executions : PlanOf[f] = PlanOf[e] => run'[f].status # "none"
               /\ PlanOf[e] \in listed' \/ "list" \in Faults
    <3>1. CASE PlanOf[e] = p
      BY <1>1, <3>1, StartPlanEffect
    <3>2. CASE PlanOf[e] # p
      <4>1. \A f \in Executions : PlanOf[f] = PlanOf[e] => run'[f] = run[f]
        BY <1>1, <3>2, StartPlanEffect
      <4>2. listed \subseteq listed'
        BY <1>1, StartPlanEffect
      <4>3. QED
        BY <2>1, <4>1, <4>2 DEF Together, RunsOf
    <3>3. QED
      BY <3>1, <3>2
  <2>2. QED
    BY <2>1 DEF Together, RunsOf
<1>2. ASSUME listed' = listed,
             \A e \in Executions : run'[e].status = "none" <=> run[e].status = "none"
      PROVE  Together'
  BY <1>2 DEF Together, RunsOf
<1>3. ASSUME NEW e \in Executions, NEW l \in LocationsOf[e], NEW outcome \in Ended,
             LocationEnds(e, l, outcome)
      PROVE  Together'
  BY <1>2, <1>3, LocationEndsEffect
<1>4. ASSUME NEW e \in Executions, NEW status \in Ended, RunEnds(e, status) PROVE Together'
  <2>1. status # "none"
    BY DEF Ended
  <2>2. QED
    BY <1>2, <1>4, <2>1, RunEndsEffect
<1>5. CASE UNCHANGED <<run, listed>>
  BY <1>2, <1>5
<1>6. QED
  BY <1>1, <1>3, <1>4, <1>5, RunSteps

\* Where the plan's list of runs can be read, a check of instances comes after all of
\* its runs succeeded everywhere, and takes the time of the last.
LEMMA SeenIsDone ==
    ASSUME WellFormed, Together, "list" \notin Faults, NEW e \in Executions, run[e].status # "none",
           \A f \in ListedSiblings(e) \union {e} : RunOutcome(f, "all") = "SUCCEEDED"
    PROVE  Done(PlanOf[e]) /\ EndedAt(e) = Greatest(EndTimes(PlanOf[e]))
<1> DEFINE p == PlanOf[e]
<1>1. p \in listed /\ \A f \in RunsOf(p) : run[f].status # "none"
  BY DEF Together
<1>2. ListedSiblings(e) \union {e} = RunsOf(p)
  BY <1>1 DEF ListedSiblings, Siblings, RunsOf
<1>3. ASSUME NEW f \in RunsOf(p)
      PROVE  run[f].status = "Success" /\ \A l \in LocationsOf[f] : run[f].child[l] = "Success"
  <2>1. f \in Executions /\ RunOutcome(f, "all") = "SUCCEEDED" /\ run[f].status # "none"
    BY <1>1, <1>2 DEF RunsOf
  <2>2. run[f].status \in Status /\ run[f].child \in Children(f)
    BY <2>1 DEF WellFormed
  <2> DEFINE children == {run[f].child[l] : l \in LocationsOf[f]}
  <2>3. /\ run[f].status \notin {"InProgress", "Cancelled", "Failed"}
        /\ children \intersect {"InProgress", "Failed", "Cancelled"} = {}
    BY <2>1 DEF RunOutcome
  <2>4. run[f].status = "Success"
    BY <2>1, <2>2, <2>3 DEF Status, Ended
  <2>5. ASSUME NEW l \in LocationsOf[f] PROVE run[f].child[l] = "Success"
    <3>1. run[f].child[l] \in children
      OBVIOUS
    <3>2. run[f].child[l] \in {"InProgress"} \union Ended
      BY <2>2 DEF Children
    <3> HIDE DEF children
    <3>3. QED
      BY <2>3, <3>1, <3>2 DEF Ended
  <2>6. QED
    BY <2>4, <2>5
<1>4. Done(p)
  BY <1>3 DEF Done
<1>5. Begun(p) = RunsOf(p)
  BY <1>1 DEF Begun, RunsOf
<1>6. {run[f].ended : f \in ListedSiblings(e) \union {e}} = EndTimes(p)
  BY <1>2, <1>5 DEF EndTimes
<1>7. QED
  BY <1>4, <1>6 DEF EndedAt

\* Every step keeps the records backed.
LEMMA RecordsBackedStep ==
    ASSUME PromotionConstants, WellFormed, Together, RecordsBacked, "list" \notin Faults, [Next]_vars
    PROVE  RecordsBacked'
<1> DEFINE On(rec) == Backed(rec, DonePlans', LastEnds')
<1>1. ASSUME NEW rec, Backed(rec, DonePlans, LastEnds) PROVE On(rec)
  <2> DEFINE p == PlanOf[rec.execution]
  <2>1. p \in Plans /\ Done(p) /\ rec.ended = LastEnds[p]
    BY <1>1 DEF Backed, DonePlans
  <2>2. Done(p)' /\ EndTimes(p)' = EndTimes(p)
    <3> HIDE DEF p
    <3>1. QED
      BY <2>1, DoneStays
  <2> HIDE DEF p
  <2>3. p \in DonePlans' /\ LastEnds'[p] = LastEnds[p]
    BY <2>1, <2>2 DEF DonePlans, LastEnds
  <2>4. QED
    BY <2>1, <2>3 DEF Backed, p
<1>2. ASSUME \A rec \in inFlight' : On(rec),
             \A k \in DOMAIN promotion' : promotion'[k] # None =>
               k = Key(promotion'[k].execution) /\ On(promotion'[k])
      PROVE  RecordsBacked'
  BY <1>2 DEF RecordsBacked
<1>3. \A rec \in inFlight : On(rec)
  BY <1>1 DEF RecordsBacked
<1>4. \A k \in DOMAIN promotion : promotion[k] # None =>
        k = Key(promotion[k].execution) /\ On(promotion[k])
  BY <1>1 DEF RecordsBacked
<1>5. ASSUME NEW e \in Executions, VerifyHealth(e)
      PROVE  RecordsBacked'
  <2> DEFINE rec == [execution |-> e, ended |-> EndedAt(e)]
  <2>1. promotion' = promotion /\ (inFlight' = inFlight \/ inFlight' = inFlight \union {rec})
    BY <1>5, VerifyHealthEffect DEF AnswersOn
  <2>2. Done(PlanOf[e]) /\ EndedAt(e) = Greatest(EndTimes(PlanOf[e]))
    BY <1>5, SeenIsDone, VerifyHealthEffect
  <2>3. rec.execution = e /\ rec.ended = EndedAt(e)
    OBVIOUS
  <2> HIDE DEF rec
  <2>4. Backed(rec, DonePlans, LastEnds)
    BY <2>2, <2>3 DEF Backed, DonePlans, LastEnds, PromotionConstants
  <2>5. On(rec)
    BY <1>1, <2>4
  <2> HIDE DEF On
  <2>6. QED
    BY <1>2, <1>3, <1>4, <2>1, <2>5
<1>6. ASSUME NEW rec \in inFlight, RecordPromotion(rec) PROVE RecordsBacked'
  <2> DEFINE key == <<Stage[PlanOf[rec.execution]], Scope[PlanOf[rec.execution]]>>
  <2>1. On(rec)
    BY <1>3
  <2>2. /\ inFlight' \subseteq inFlight
        /\ promotion' = promotion \/ promotion' = [promotion EXCEPT ![key] = rec]
    BY <1>6 DEF RecordPromotion
  <2>3. key = Key(rec.execution)
    BY DEF Key
  <2> HIDE DEF On, key
  <2>4. QED
    BY <1>2, <1>3, <1>4, <2>1, <2>2, <2>3
<1>7. CASE UNCHANGED <<inFlight, promotion>>
  <2> HIDE DEF On
  <2>1. QED
    BY <1>2, <1>3, <1>4, <1>7
<1>8. QED
  BY <1>5, <1>6, <1>7
     DEF Next, StartPlan, LocationEnds, RunEnds, VerifyRuns, Tick, vars

\* Nothing has been verified.
LEMMA VerifiedInit ==
    ASSUME PromotionConstants, Init
    PROVE  Together /\ RecordsBacked
<1>1. \A e \in Executions : run[e].status = "none"
  BY DEF Init, NotRun
<1>2. QED
  BY <1>1 DEF Init, Together, RecordsBacked

\* A stage that passes has a recent record in the stage before it.
LEMMA PassedHasRecord ==
    ASSUME NEW stage \in Nat, NEW scope, ~MissingStage(stage + 1, scope)
    PROVE  /\ promotion[<<stage, scope>>] # None
           /\ ~(clock - promotion[<<stage, scope>>].ended > MaxAge)
<1>1. stage + 1 > 0 /\ stage + 1 - 1 = stage
  OBVIOUS
<1>2. QED
  BY <1>1 DEF MissingStage

\* A stage passes the promotion check only when a plan of its scope in the stage
\* before succeeded everywhere and ended recently, where the plans' lists of runs
\* can be read.
THEOREM PassedVerified ==
    ASSUME PromotionConstants, "list" \notin Faults
    PROVE  Spec => []PassedStageIsVerified
<1> DEFINE Inv == WellFormed /\ Together /\ RecordsBacked
<1>1. Init => Inv
  BY WellFormedInit, VerifiedInit
<1>2. Inv /\ [Next]_vars => Inv'
  BY WellFormedStep, TogetherStep, RecordsBackedStep
<1>3. Inv => PassedStageIsVerified
  <2>1. SUFFICES ASSUME Inv, NEW k \in DOMAIN promotion, ~MissingStage(k[1] + 1, k[2])
                 PROVE  \E p \in Plans :
                          /\ Stage[p] = k[1] /\ Scope[p] = k[2] /\ Begun(p) # {}
                          /\ AllSucceeded(p)
                          /\ clock - Greatest({run[e].ended : e \in Begun(p)}) <= MaxAge
    BY DEF PassedStageIsVerified
  <2>2. k \in {Stage[p] : p \in Plans} \X Scopes
    BY <2>1 DEF WellFormed
  <2>3. k = <<k[1], k[2]>> /\ k[1] \in Nat
    BY <2>2 DEF PromotionConstants
  <2> DEFINE rec == promotion[k]
             p == PlanOf[rec.execution]
  <2>4. rec # None /\ ~(clock - rec.ended > MaxAge)
    <3>1. ~MissingStage(k[1] + 1, k[2])
      BY <2>1
    <3>2. promotion[<<k[1], k[2]>>] = rec
      BY <2>3
    <3>3. QED
      BY <2>3, <3>1, <3>2, PassedHasRecord
  <2>5. rec \in Records
    BY <2>1, <2>2, <2>4 DEF WellFormed
  <2>6. rec.execution \in Executions /\ rec.ended \in 0..MaxClock /\ p \in Plans
    BY <2>5 DEF Records, PromotionConstants
  <2>7. k = Key(rec.execution) /\ Backed(rec, DonePlans, LastEnds)
    BY <2>1, <2>4 DEF RecordsBacked
  <2>8. Stage[p] = k[1] /\ Scope[p] = k[2]
    BY <2>7 DEF Key
  <2>9. Done(p) /\ rec.ended = Greatest(EndTimes(p))
    BY <2>6, <2>7 DEF Backed, DonePlans, LastEnds
  <2>10. rec.execution \in Begun(p) /\ AllSucceeded(p)
    BY <2>6, <2>9 DEF Done, Begun, RunsOf, AllSucceeded
  <2>11. clock - rec.ended <= MaxAge
    <3>1. clock \in Nat /\ rec.ended \in Nat /\ MaxAge \in Nat
      BY <2>1, <2>6 DEF WellFormed, TypeOK, PromotionConstants
    <3>2. QED
      BY <2>4, <3>1
  <2>12. clock - Greatest({run[e].ended : e \in Begun(p)}) <= MaxAge
    BY <2>9, <2>11 DEF EndTimes
  <2>13. QED
    BY <2>6, <2>8, <2>10, <2>12
<1>4. QED
  BY <1>1, <1>2, <1>3, PTL DEF Spec

-----------------------------------------------------------------------------
(* Going on *)

\* When its instances are healthy, every one of them that was checked is online.
LEMMA HealthyIsOnline ==
    ASSUME NEW checked, NEW ping, InstanceHealth(checked, ping) = "HEALTHY"
    PROVE  \A l \in checked : ping[l] = "Online"
<1> DEFINE scored == {l \in checked : ping[l] # "unread"}
           online == {l \in scored : ping[l] = "Online"}
<1>1. online = scored /\ scored = checked
  BY DEF InstanceHealth
<1>2. QED
  BY <1>1

\* When alarms are healthy, every instance's were read and none that is seen fires.
LEMMA HealthyIsQuiet ==
    ASSUME NEW checked, NEW w, NEW named, AlarmHealth(checked, w, named) = "HEALTHY"
    PROVE  \A l \in checked : l \notin w.unread /\ \A a \in AlarmsSeen(w, named, l) : w.alarm[l][a] # "ALARM"
<1> DEFINE firing == {l \in checked : \E a \in AlarmsSeen(w, named, l) : w.alarm[l][a] = "ALARM"}
<1>1. firing = {} /\ checked \intersect w.unread = {}
  BY DEF AlarmHealth
<1>2. QED
  BY <1>1

\* How long the slowest alarm takes to evaluate is a number.
LEMMA LongestIs ==
    ASSUME PromotionConstants, NEW checked, NEW w, NEW named \in SUBSET Alarms
    PROVE  Longest(checked, w, named) \in Nat
<1> DEFINE S == {0} \union {Evaluation[a] : a \in UNION {AlarmsSeen(w, named, l) : l \in checked}}
<1>1. PICK n \in Nat : Evaluation \in [Alarms -> 0..n]
  BY DEF PromotionConstants
<1>2. \A l : AlarmsSeen(w, named, l) \subseteq Alarms
  BY DEF AlarmsSeen
<1>3. S \in SUBSET (0..n) /\ S # {}
  BY <1>1, <1>2
<1>4. Greatest(S) \in S
  <2> HIDE DEF S
  <2>1. QED
    BY <1>1, <1>3, GreatestIs
<1>5. QED
  BY <1>3, <1>4 DEF Longest

\* An answer keeps every alarm without data, when it may keep that many.
LEMMA AllKept ==
    ASSUME IsFiniteSet(Alarms), Shown \in Nat, Cardinality(Alarms) <= Shown,
           NEW noData \in SUBSET Alarms, NEW kept \in KeptNoData(noData)
    PROVE  kept = noData
<1>1. IsFiniteSet(noData) /\ Cardinality(noData) <= Cardinality(Alarms)
  BY FS_Subset
<1>2. Cardinality(noData) \in Nat /\ Cardinality(Alarms) \in Nat
  BY <1>1, FS_CardinalityType
<1>3. kept \in SUBSET noData
      /\ Cardinality(kept) = IF Cardinality(noData) < Shown THEN Cardinality(noData) ELSE Shown
  BY DEF KeptNoData
<1>4. Cardinality(kept) = Cardinality(noData)
  BY <1>1, <1>2, <1>3
<1>5. QED
  BY <1>1, <1>3, <1>4, FS_Subset

\* Without the plan, the request's own instances are not taken for the plan's.
LEMMA AllChecked ==
    ASSUME NEW p, "plan" \notin Faults, NEW look \in CheckedInstances(p), look.unlisted = {}
    PROVE  look.checked = PlanLocations(p)
<1>1. PICK unlisted \in SUBSET PlanLocations(p) :
        look = [checked |-> PlanLocations(p) \ unlisted, unlisted |-> unlisted]
  BY DEF CheckedInstances
<1>2. look.checked = PlanLocations(p) \ unlisted /\ look.unlisted = unlisted
  BY <1>1
<1>3. QED
  BY <1>2

\* A look that answers PROCEED found the plan's runs, instances and alarms all well.
LEMMA ProceedHasCause ==
    ASSUME PromotionConstants, "list" \notin Faults, "plan" \notin Faults,
           IsFiniteSet(Alarms), Shown \in Nat, Cardinality(Alarms) <= Shown,
           WellFormed, Together, NEW e \in Executions, VerifyHealth(e),
           NEW w \in Worlds(PlanOf[e]), NEW look \in CheckedInstances(PlanOf[e]),
           NEW named \in SUBSET Alarms, NEW kept,
           AnswersOn(e, w, look, named, kept), VerdictOn(e, w, look, named, kept) = "PROCEED"
    PROVE  Well(PlanOf[e], w, named)
<1> DEFINE S == PlanLocations(PlanOf[e])
           elapsed == clock - EndedAt(e)
           settle == SettleTime(Longest(look.checked, w, named))
           silent == \E l \in look.checked : \E a \in kept[l] : w.alarm[l][a] = "no data since"
<1>1. ~(elapsed < settle)
  BY HealthVerdicts DEF VerdictOn
<1>2. HealthVerdict(InstanceHealth(look.checked, w.ping), AlarmHealth(look.checked, w, named),
                    silent, look.unlisted) = "PROCEED"
  BY DEF VerdictOn
<1>3. /\ InstanceHealth(look.checked, w.ping) = "HEALTHY"
      /\ AlarmHealth(look.checked, w, named) = "HEALTHY"
      /\ ~silent /\ look.unlisted = {}
  <2> HIDE DEF silent
  <2>1. QED
    BY <1>2 DEF HealthVerdict
<1>4. look.checked = S
  BY <1>3, AllChecked
<1>5. ASSUME NEW l \in S
      PROVE  w.ping[l] = "Online" /\ l \notin w.unread
             /\ \A a \in AlarmsSeen(w, named, l) : w.alarm[l][a] \in {"OK", "no data before"}
  <2>1. /\ w.ping[l] = "Online" /\ l \notin w.unread
        /\ \A a \in AlarmsSeen(w, named, l) : w.alarm[l][a] # "ALARM"
    <3>1. \A m \in look.checked : w.ping[m] = "Online"
      BY <1>3, HealthyIsOnline
    <3>2. \A m \in look.checked :
            m \notin w.unread /\ \A a \in AlarmsSeen(w, named, m) : w.alarm[m][a] # "ALARM"
      BY <1>3, HealthyIsQuiet
    <3>3. QED
      BY <1>4, <3>1, <3>2
  <2>2. AlarmsSeen(w, named, l) \subseteq Alarms
    BY DEF AlarmsSeen
  <2>3. kept[l] \in KeptNoData(NoData(w, named, l)) /\ NoData(w, named, l) \in SUBSET Alarms
    BY <1>4, <2>2 DEF AnswersOn, NoData
  <2>4. kept[l] = NoData(w, named, l)
    BY <2>3, AllKept
  <2>5. \A a \in NoData(w, named, l) : w.alarm[l][a] # "no data since"
    BY <1>3, <1>4, <2>4 DEF silent
  <2>6. \A a \in AlarmsSeen(w, named, l) : w.alarm[l][a] \in AlarmStates
    BY <2>2 DEF Worlds
  <2>7. QED
    BY <2>1, <2>5, <2>6 DEF AlarmStates, NoData
<1>6. Done(PlanOf[e])
  BY SeenIsDone, VerifyHealthEffect
<1>7. AllSucceeded(PlanOf[e])
  BY <1>6 DEF Done, RunsOf, AllSucceeded, Begun
<1>8. ASSUME NEW f \in Begun(PlanOf[e]) PROVE clock - run[f].ended >= settle
  <2>1. f \in RunsOf(PlanOf[e]) /\ f \in Executions
    BY DEF Begun, RunsOf
  <2>2. PlanOf[e] \in listed
    BY VerifyHealthEffect DEF Together
  <2>3. f \in ListedSiblings(e) \union {e}
    BY <2>1, <2>2 DEF ListedSiblings, Siblings, RunsOf
  <2>4. run[f].ended <= EndedAt(e) /\ EndedAt(e) \in 0..clock
    BY <2>3, EndedAtIs
  <2>5. clock \in Nat /\ run[f].ended \in Nat /\ settle \in Nat
    BY <2>1, LongestIs DEF WellFormed, TypeOK, PromotionConstants, SettleTime
  <2> HIDE DEF silent, settle
  <2>6. QED
    BY <1>1, <2>4, <2>5
<1>9. QED
  BY <1>4, <1>5, <1>7, <1>8 DEF Well

\* PROCEED is answered only when every location the plan started has succeeded, every
\* instance of it is reachable, and none of the alarms asked about that the check sees
\* fires or has gone silent, where the plan and its list of runs can be read and an
\* answer keeps all alarms without data.
THEOREM ProceedClean ==
    ASSUME PromotionConstants, "list" \notin Faults, "plan" \notin Faults,
           IsFiniteSet(Alarms), Shown \in Nat, Cardinality(Alarms) <= Shown
    PROVE  Spec => []ProceedIsClean
<1> DEFINE Inv == WellFormed /\ Together /\ ProceedIsClean
<1>1. Init => Inv
  BY WellFormedInit, VerifiedInit DEF Init, ProceedIsClean
<1>2. ASSUME Inv, [Next]_vars PROVE ProceedIsClean'
  <2>1. ASSUME NEW e \in Executions, VerifyRuns(e) PROVE ProceedIsClean'
    <3>1. PICK seen \in [Executions -> Seen] :
            LET own == RunVerdict(RunOutcome(e, seen[e])) IN
            \/ Answer(own, [NothingTrue EXCEPT !.failed = own = "ROLLBACK" /\ run[e].status = "Failed"])
            \/ Answer("HOLD", NothingTrue)
            \/ \E v \in SiblingVerdicts(e, seen) \ {"go on"} : Answer(v, NothingTrue)
      BY <2>1 DEF VerifyRuns
    <3>2. ASSUME NEW v \in SiblingVerdicts(e, seen) PROVE v # "PROCEED"
      BY DEF SiblingVerdicts
    <3> DEFINE own == RunVerdict(RunOutcome(e, seen[e]))
    <3>3. own # "PROCEED"
      BY DEF RunVerdict
    <3> HIDE DEF own
    <3>4. CASE \E v \in SiblingVerdicts(e, seen) \ {"go on"} : Answer(v, NothingTrue)
      BY <3>2, <3>4 DEF Answer, ProceedIsClean
    <3>5. CASE Answer("HOLD", NothingTrue)
      BY <3>5 DEF Answer, ProceedIsClean
    <3>6. ASSUME Answer(own, [NothingTrue EXCEPT !.failed = own = "ROLLBACK" /\ run[e].status = "Failed"])
          PROVE  ProceedIsClean'
      BY <3>3, <3>6 DEF Answer, ProceedIsClean
    <3>7. QED
      BY <3>1, <3>4, <3>5, <3>6 DEF own
  <2>2. ASSUME NEW e \in Executions, VerifyHealth(e) PROVE ProceedIsClean'
    <3> DEFINE S == PlanLocations(PlanOf[e])
    <3>1. PICK w \in Worlds(PlanOf[e]), look \in CheckedInstances(PlanOf[e]), named \in SUBSET Alarms :
            \E kept \in [look.checked -> SUBSET named] : AnswersOn(e, w, look, named, kept)
      BY <2>2, VerifyHealthEffect
    <3>2. PICK kept \in [look.checked -> SUBSET named] : AnswersOn(e, w, look, named, kept)
      BY <3>1
    <3> DEFINE verdict == VerdictOn(e, w, look, named, kept)
               well == Well(PlanOf[e], w, named)
    <3>3. verdict = "PROCEED" => well
      BY <1>2, <2>2, <3>2, ProceedHasCause
    <3>4. last'.recommendation = verdict /\ last'.truth.well = well
      BY <3>2 DEF AnswersOn, Answer
    <3> HIDE DEF verdict, well
    <3>5. QED
      BY <3>3, <3>4 DEF ProceedIsClean
  <2>3. CASE UNCHANGED last
    BY <1>2, <2>3 DEF ProceedIsClean
  <2>4. QED
    BY <1>2, <2>1, <2>2, <2>3
       DEF Next, StartPlan, LocationEnds, RunEnds, RecordPromotion, Tick, vars
<1>3. Inv /\ [Next]_vars => Inv'
  BY <1>2, WellFormedStep, TogetherStep
<1>4. Inv => ProceedIsClean
  OBVIOUS
<1>5. QED
  BY <1>1, <1>3, <1>4, PTL DEF Spec

-----------------------------------------------------------------------------
(* The verification of fixes (FixVerification): Inspector's scans, the patch       *)
(* records, and what is said of a CVE.                                           *)

CONSTANTS Packages, MaxScans
VARIABLES scans, package, record, closed, active, gone, named, answer

Fix == INSTANCE FixVerification WITH clock <- scans

(* A CVE is of some package.                                                    *)
FixConstants == MaxScans \in Nat /\ Packages # {}

FixTypes ==
    /\ scans \in 0..MaxScans
    /\ package \in [Packages -> {"vulnerable", "pending", "fixed"}]
    /\ record \in [Packages -> [state: {"vulnerable", "pending", "fixed"}, at: 0..MaxScans]]
    /\ closed \subseteq 0..scans
    /\ active \in 0..scans \union {Fix!NotOpen}
    /\ gone \in BOOLEAN /\ named \in BOOLEAN
    /\ answer.status \in {"none", "unknown", "terminated", "unlocated", "no_finding", "fixed", "open"}

(* An open finding has been seen since any was closed.                          *)
OpenSinceClosed == active # Fix!NotOpen => \A c \in closed : c < active

FixInv == FixTypes /\ OpenSinceClosed /\ Fix!FixedIsFixed /\ Fix!CauseIsTrue

-----------------------------------------------------------------------------
(* An answer that says nothing is true.                                         *)
LEMMA NoAnswerIsTrue ==
    Fix!NoAnswer.status = "none" /\ (answer = Fix!NoAnswer => Fix!FixedIsFixed /\ Fix!CauseIsTrue)
BY DEF Fix!NoAnswer, Fix!FixedIsFixed, Fix!CauseIsTrue

(* It holds at first: nothing has been looked at.                                 *)
LEMMA FixInvInit == ASSUME FixConstants, Fix!Init PROVE FixInv
<1>1. /\ scans = 0 /\ 0 \in 0..MaxScans
      /\ active \in 0..scans \union {Fix!NotOpen}
    BY DEF FixConstants, Fix!Init
<1>2. /\ package \in [Packages -> {"vulnerable", "pending", "fixed"}]
      /\ record \in [Packages -> [state: {"vulnerable", "pending", "fixed"}, at: 0..MaxScans]]
    BY <1>1 DEF Fix!Init
<1>3. closed = {} /\ gone \in BOOLEAN /\ named \in BOOLEAN /\ answer.status = "none"
    BY NoAnswerIsTrue DEF Fix!Init
<1>4. FixTypes /\ OpenSinceClosed
    BY <1>1, <1>2, <1>3 DEF FixTypes, OpenSinceClosed
<1> QED
    BY <1>4, NoAnswerIsTrue DEF Fix!Init, FixInv

(* The world changes: what was answered no longer stands.                       *)
LEMMA WorldChanges ==
    ASSUME FixConstants, FixInv,
           \/ \E p \in Packages : Fix!Install(p) \/ Fix!RollBack(p)
           \/ Fix!Reboot \/ Fix!PatchScan \/ Fix!InspectorScan \/ Fix!Terminate
    PROVE  FixInv'
<1>0. answer' = Fix!NoAnswer /\ named' = named
    BY DEF Fix!Changes, Fix!Install, Fix!RollBack, Fix!Reboot, Fix!PatchScan, Fix!InspectorScan, Fix!Terminate
<1>1. (Fix!FixedIsFixed /\ Fix!CauseIsTrue)' /\ answer'.status = "none"
    BY <1>0, NoAnswerIsTrue DEF Fix!NoAnswer, Fix!FixedIsFixed, Fix!CauseIsTrue
<1>2. /\ package' \in [Packages -> {"vulnerable", "pending", "fixed"}]
      /\ record' \in [Packages -> [state: {"vulnerable", "pending", "fixed"}, at: 0..MaxScans]]
  <2>1. CASE \E p \in Packages : Fix!Install(p)
    <3>1. PICK p \in Packages : Fix!Install(p)
        BY <2>1
    <3>2. package' \in [Packages -> {"vulnerable", "pending", "fixed"}]
        BY <3>1 DEF Fix!Install, FixInv, FixTypes
    <3>3. record' = [q \in Packages |-> [state |-> package'[q], at |-> IF q = p THEN scans ELSE record[q].at]]
        BY <3>1 DEF Fix!Install
    <3>4. \A q \in Packages : [state |-> package'[q], at |-> IF q = p THEN scans ELSE record[q].at]
                                  \in [state: {"vulnerable", "pending", "fixed"}, at: 0..MaxScans]
        BY <3>2 DEF FixInv, FixTypes
    <3> QED
        BY <3>2, <3>3, <3>4
  <2>2. CASE \E p \in Packages : Fix!RollBack(p)
    BY <2>2 DEF Fix!RollBack, FixInv, FixTypes
  <2>3. CASE Fix!Reboot
    BY <2>3 DEF Fix!Reboot, FixInv, FixTypes
  <2>4. CASE Fix!PatchScan
    <3>1. \A p \in Packages : [record[p] EXCEPT !.state = package[p]]
                                  \in [state: {"vulnerable", "pending", "fixed"}, at: 0..MaxScans]
        BY DEF FixInv, FixTypes
    <3> QED
        BY <2>4, <3>1 DEF Fix!PatchScan, FixInv, FixTypes
  <2>5. CASE Fix!InspectorScan \/ Fix!Terminate
    BY <2>5 DEF Fix!InspectorScan, Fix!Terminate, FixInv, FixTypes
  <2> QED
    BY <2>1, <2>2, <2>3, <2>4, <2>5
<1>3. /\ scans' \in 0..MaxScans /\ closed' \subseteq 0..scans' /\ active' \in 0..scans' \union {Fix!NotOpen}
      /\ gone' \in BOOLEAN /\ OpenSinceClosed'
  <2>1. CASE UNCHANGED <<scans, closed, active, gone>>
    BY <2>1 DEF FixInv, FixTypes, OpenSinceClosed, Fix!NotOpen
  <2>2. CASE Fix!InspectorScan
    <3>1. /\ scans' = scans + 1 /\ scans' \in 0..MaxScans /\ gone' = gone
          /\ \A c \in closed : c \in 0..scans /\ c < scans'
        BY <2>2 DEF Fix!InspectorScan, FixInv, FixTypes, FixConstants
    <3>2. CASE Fix!InEffect
      <4>1. active' = Fix!NotOpen /\ Fix!NotOpen' = Fix!NotOpen
            /\ closed' = closed \union (IF active = Fix!NotOpen THEN {} ELSE {scans'})
        BY <2>2, <3>2 DEF Fix!InspectorScan, Fix!NotOpen
      <4>2. closed' \subseteq 0..scans'
        BY <3>1, <4>1 DEF FixInv, FixTypes
      <4> QED
        BY <3>1, <4>1, <4>2 DEF OpenSinceClosed, FixInv, FixTypes
    <3>3. CASE ~Fix!InEffect
      <4>1. active' = scans' /\ closed' = closed
        BY <2>2, <3>3 DEF Fix!InspectorScan
      <4> QED
        BY <3>1, <4>1 DEF OpenSinceClosed, FixInv, FixTypes
    <3> QED
        BY <3>2, <3>3
  <2>3. CASE Fix!Terminate
    <3>1. /\ gone' = TRUE /\ active' = Fix!NotOpen /\ Fix!NotOpen' = Fix!NotOpen /\ scans' = scans
          /\ closed' = closed \union (IF active = Fix!NotOpen THEN {} ELSE {scans})
        BY <2>3 DEF Fix!Terminate, Fix!NotOpen
    <3> QED
        BY <3>1 DEF OpenSinceClosed, FixInv, FixTypes
  <2> QED
    BY <2>1, <2>2, <2>3 DEF Fix!Install, Fix!RollBack, Fix!Reboot, Fix!PatchScan
<1> QED
    BY <1>0, <1>1, <1>2, <1>3 DEF FixInv, FixTypes

-----------------------------------------------------------------------------
(* The cause named for an open finding, when Inspector names the versions and    *)
(* the records are current.                                                     *)
LEMMA CauseOfRecords ==
    ASSUME FixConstants, FixInv, named, Fix!RecordsAreCurrent, NEW fixAvailable \in BOOLEAN
    PROVE  LET cause == Fix!Cause(fixAvailable)
           IN  /\ cause \in {"awaiting_rescan", "pending_reboot", "fix_not_installed", "no_fix_available"}
               /\ cause = "awaiting_rescan" => Fix!InEffect
               /\ cause = "pending_reboot" => /\ \E p \in Packages : package[p] = "pending"
                                              /\ \A p \in Packages : package[p] # "vulnerable"
               /\ cause = "fix_not_installed" => \E p \in Packages : package[p] = "vulnerable"
<1>1. \A p \in Packages : record[p].state = package[p] /\ package[p] \in {"vulnerable", "pending", "fixed"}
    BY DEF Fix!RecordsAreCurrent, FixInv, FixTypes
<1>2. CASE ~fixAvailable
    BY <1>2 DEF Fix!Cause
<1>3. CASE fixAvailable /\ Fix!FixedRecords = {}
  <2>1. \E p \in Packages : package[p] = "vulnerable"
    BY <1>1, <1>3 DEF Fix!FixedRecords, Fix!Installed, FixConstants
  <2> QED
    BY <1>3, <2>1 DEF Fix!Cause
<1>4. CASE fixAvailable /\ Fix!FixedRecords # {}
  <2>1. Fix!FixedRecords = Packages /\ \A p \in Packages : package[p] \in {"fixed", "pending"}
    BY <1>1, <1>4 DEF Fix!FixedRecords, Fix!Installed
  <2>2. Fix!PendingReboot(Packages) <=> \E p \in Packages : package[p] = "pending"
    BY <1>1 DEF Fix!PendingReboot
  <2> QED
    BY <1>4, <2>1, <2>2 DEF Fix!Cause, Fix!InEffect
<1> QED
    BY <1>2, <1>3, <1>4

(* An answer is true of the world it is given in.                                 *)
LEMMA VerifyStep == ASSUME FixConstants, FixInv, Fix!Verify PROVE FixInv'
<1>0. UNCHANGED <<scans, package, record, closed, active, gone, named>>
    BY DEF Fix!Verify
<1>1. PICK stateRead, found, clientsRead, findingsRead, fixAvailable \in BOOLEAN :
         answer' = Fix!Answered(
            IF ~clientsRead THEN [status |-> "unknown", cause |-> "none"]
            ELSE IF stateRead /\ gone /\ found THEN [status |-> "terminated", cause |-> "none"]
            ELSE IF stateRead /\ ~found THEN [status |-> "unlocated", cause |-> "none"]
            ELSE IF ~findingsRead THEN [status |-> "unknown", cause |-> "none"]
            ELSE Fix!Classified(fixAvailable), stateRead)
    BY DEF Fix!Verify
<1> DEFINE classified == clientsRead /\ ~(stateRead /\ gone /\ found) /\ ~(stateRead /\ ~found) /\ findingsRead
<1>2. /\ answer'.status \in {"unknown", "terminated", "unlocated", "no_finding", "fixed", "open"}
      /\ answer'.status = "fixed" => classified /\ Fix!IsFixed
      /\ answer'.status = "open" => answer'.cause = Fix!Cause(fixAvailable)
      /\ answer'.stateRead = stateRead
  <2>1. CASE ~classified
    BY <1>1, <2>1 DEF Fix!Answered
  <2>2. CASE classified
    <3>1. answer' = Fix!Answered(Fix!Classified(fixAvailable), stateRead)
        BY <1>1, <2>2
    <3>2. CASE closed = {} /\ active = Fix!NotOpen
        BY <2>2, <3>1, <3>2 DEF Fix!Answered, Fix!Classified, Fix!IsFixed
    <3>3. CASE ~(closed = {} /\ active = Fix!NotOpen) /\ Fix!IsFixed
        BY <2>2, <3>1, <3>3 DEF Fix!Answered, Fix!Classified
    <3>4. CASE ~(closed = {} /\ active = Fix!NotOpen) /\ ~Fix!IsFixed
        BY <2>2, <3>1, <3>4 DEF Fix!Answered, Fix!Classified
    <3> QED
        BY <3>2, <3>3, <3>4
  <2> QED
    BY <2>1, <2>2
<1>3. FixTypes'
    BY <1>0, <1>2 DEF FixInv, FixTypes, Fix!NotOpen
<1>4. OpenSinceClosed'
    BY <1>0 DEF FixInv, OpenSinceClosed, Fix!NotOpen
<1>5. Fix!FixedIsFixed'
  <2>1. Fix!IsFixed => active = Fix!NotOpen
    <3> SUFFICES ASSUME Fix!IsFixed, active # Fix!NotOpen PROVE FALSE
        OBVIOUS
    <3>1. PICK c \in closed : TRUE
        BY DEF Fix!IsFixed
    <3>2. active <= c /\ c < active
        BY <3>1 DEF Fix!IsFixed, FixInv, OpenSinceClosed
    <3>3. c \in 0..scans /\ active \in 0..scans /\ scans \in Nat
        BY <3>1 DEF FixInv, FixTypes
    <3> QED
        BY <3>2, <3>3
  <2>2. classified => (gone => ~stateRead)
    OBVIOUS
  <2> QED
    BY <1>0, <1>2, <2>1, <2>2 DEF Fix!FixedIsFixed, Fix!NotOpen
<1>6. Fix!CauseIsTrue'
  <2> SUFFICES ASSUME answer'.status = "open", named, Fix!RecordsAreCurrent
               PROVE  CASE answer'.cause = "awaiting_rescan"   -> Fix!InEffect
                        [] answer'.cause = "pending_reboot"    -> (\E p \in Packages : package[p] = "pending")
                                                                  /\ \A p \in Packages : package[p] # "vulnerable"
                        [] answer'.cause = "fix_not_installed" -> \E p \in Packages : package[p] = "vulnerable"
                        [] OTHER                               -> answer'.cause = "no_fix_available"
    BY <1>0 DEF Fix!CauseIsTrue, Fix!RecordsAreCurrent, Fix!InEffect
  <2>1. answer'.cause = Fix!Cause(fixAvailable)
    BY <1>2
  <2> QED
    BY <2>1, CauseOfRecords
<1> QED
    BY <1>3, <1>4, <1>5, <1>6 DEF FixInv

(* Every step keeps the invariant.                                                *)
LEMMA FixInvStep == ASSUME FixConstants, FixInv, [Fix!Next]_(Fix!vars) PROVE FixInv'
<1>1. CASE UNCHANGED Fix!vars
    BY <1>1 DEF Fix!vars, FixInv, FixTypes, OpenSinceClosed, Fix!FixedIsFixed, Fix!CauseIsTrue, Fix!NotOpen,
        Fix!RecordsAreCurrent, Fix!InEffect
<1> QED
    BY <1>1, WorldChanges, VerifyStep DEF Fix!Next

(* The variables of the verification of fixes have their types.                   *)
THEOREM FixTypeCorrect == FixConstants => (Fix!Spec => []Fix!TypeOK)
<1> SUFFICES ASSUME FixConstants PROVE Fix!Spec => []Fix!TypeOK
    OBVIOUS
<1>1. Fix!Init => FixInv
    BY FixInvInit
<1>2. FixInv /\ [Fix!Next]_(Fix!vars) => FixInv'
    BY FixInvStep
<1>3. FixInv => Fix!TypeOK
    BY DEF FixInv, FixTypes, Fix!TypeOK, Fix!NotOpen, FixConstants
<1> QED
    BY <1>1, <1>2, <1>3, PTL DEF Fix!Spec

(* However often a fix is installed, rolled back and scanned for: "fixed" is said  *)
(* only when Inspector has closed the finding and hasn't seen it open since, and *)
(* never of a terminated instance that EC2 told of; and the cause named for an   *)
(* open finding is the real one (verification.py: verify, classify).             *)
THEOREM FixedAndCauseAreTrue == FixConstants => (Fix!Spec => [](Fix!FixedIsFixed /\ Fix!CauseIsTrue))
<1> SUFFICES ASSUME FixConstants PROVE Fix!Spec => [](Fix!FixedIsFixed /\ Fix!CauseIsTrue)
    OBVIOUS
<1>1. Fix!Init => FixInv
    BY FixInvInit
<1>2. FixInv /\ [Fix!Next]_(Fix!vars) => FixInv'
    BY FixInvStep
<1>3. FixInv => Fix!FixedIsFixed /\ Fix!CauseIsTrue
    BY DEF FixInv
<1> QED
    BY <1>1, <1>2, <1>3, PTL DEF Fix!Spec

=============================================================================
