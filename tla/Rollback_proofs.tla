---------------------------- MODULE Rollback_proofs ----------------------------
(* What holds of choosing the run that a rollback undoes, for every set of       *)
(* plans, shares and accounts and every length of the window's margins: it is    *)
(* the last known run that patched all of the instances, in every location, and  *)
(* the window holds every transaction that run began before its end.  And of the *)
(* check afterwards (RollbackCheck), that what it confirms came off.             *)
EXTENDS Rollback, FiniteSets, NaturalsInduction, WellFoundedInduction, TLAPS

\* A plan for the environment runs once, and every execution patches something.
RollbackConstants ==
    /\ PlanOf \in [Executions -> Plans]
    /\ \A e \in Executions : Share[e] # {}
    /\ \A e, f \in Executions : PlanOf[e] = PlanOf[f] /\ PlanOf[e] \in ByEnvironment => e = f
    /\ Before \in Nat /\ After \in Nat /\ MaxRun \in Nat /\ MaxClock \in Nat
    /\ Lookback \in Nat /\ CommandsFinish \in Nat

\* Every variable has its type, as far as the properties depend on it.
WellFormed ==
    /\ clock \in 0..MaxClock
    /\ run \in [Executions -> [at: {"none", "going", "ended", "stopped"},
                              began: 0..MaxClock, ended: 0..MaxClock]]
    /\ pending \in [Executions -> 0..Never]
    /\ reported \subseteq Executions /\ timed \subseteq reported
    /\ installed \in [Executions -> 0..Never]
    /\ plan \in [at: {"none", "approved", "started"}, instances: SUBSET Instances, environment: BOOLEAN,
                 undoes: SUBSET Executions, since: Nat, until: Nat]

\* The executions of a plan begin at once.
BegunTogether ==
    \A e, f \in Executions : PlanOf[e] = PlanOf[f] =>
        (run[e].at = "none" <=> run[f].at = "none") /\ run[e].began = run[f].began

\* They began before now.
BegunByNow == \A e \in Executions : run[e].began <= clock

\* Only what has ended is reported.
ReportedEnded == \A e \in reported : run[e].at \in {"ended", "stopped"}

\* A transaction begins after its run does.
InstalledInTime ==
    \A e \in Executions : installed[e] # Never =>
        run[e].at # "none" /\ run[e].began <= installed[e] /\ installed[e] <= clock

\* The rollback undoes reported runs of one plan, and its window is of those.
WindowHolds ==
    plan.at # "none" =>
        /\ plan.undoes \subseteq reported
        /\ \A e \in plan.undoes : plan.since \in Nat /\ plan.since <= run[e].began
        /\ plan.undoes \subseteq timed =>
              \A e \in plan.undoes : plan.until \in Nat /\ run[e].ended + After <= plan.until
        /\ \A i \in plan.instances : \E j \in Patched(plan.undoes) : Account[i] = Account[j]

RollbackInv == WellFormed /\ BegunTogether /\ BegunByNow /\ ReportedEnded /\ InstalledInTime /\ WindowHolds

-----------------------------------------------------------------------------
(* Times and groups. *)

(* A set of times up to n has a latest one.                                     *)
LEMMA LatestIs ==
    ASSUME NEW n \in Nat, NEW S \in SUBSET (0..n), S # {}
    PROVE  Latest(S) \in S /\ \A m \in S : m <= Latest(S)
<1> DEFINE T == {k \in 0..n : n - k \in S}
           R == OpToRel(<, Nat)
<1>1. T \subseteq Nat /\ T # {}
  <2>1. PICK s \in S : TRUE
    OBVIOUS
  <2>2. s \in 0..n /\ n - s \in 0..n /\ n - (n - s) = s
    OBVIOUS
  <2>3. n - s \in T
    BY <2>2
  <2>4. QED
    BY <2>3
<1>2. PICK k \in T : \A j \in T : ~(<<j, k>> \in R)
  <2> HIDE DEF T, R
  <2>1. IsWellFoundedOn(R, Nat)
    BY NatLessThanWellFounded DEF R
  <2>2. QED
    BY <1>1, <2>1, WFMin
<1>3. \A j \in T : k <= j
  <2>1. ASSUME NEW j \in T PROVE k <= j
    <3>1. j \in Nat /\ k \in Nat
      BY <1>1
    <3>2. j < k => <<j, k>> \in R
      BY <3>1 DEF OpToRel
    <3> HIDE DEF T, R
    <3>3. QED
      BY <1>2, <3>1, <3>2
  <2>2. QED
    BY <2>1
<1>4. \A m \in S : m <= n - k
  <2>1. ASSUME NEW m \in S PROVE m <= n - k
    <3>1. m \in 0..n /\ n - m \in 0..n /\ n - (n - m) = m
      OBVIOUS
    <3>2. n - m \in T
      BY <3>1
    <3>3. k <= n - m /\ k \in Nat
      BY <1>1, <1>3, <3>2
    <3>4. QED
      BY <3>1, <3>3
  <2>2. QED
    BY <2>1
<1>5. n - k \in S
  OBVIOUS
<1> HIDE DEF T, R
<1>6. QED
  BY <1>4, <1>5 DEF Latest

(* One time is the earliest of itself.                                          *)
LEMMA EarliestOfOne == ASSUME NEW n \in Nat PROVE Earliest({n}) = n
<1>1. \A k \in {n} : \A m \in {n} : k <= m
    OBVIOUS
<1>2. Earliest({n}) \in {n}
    BY <1>1 DEF Earliest
<1> QED
    BY <1>2

(* The reports taken together are of one plan, whose runs began at once.        *)
LEMMA GroupIs ==
    ASSUME RollbackConstants, RollbackInv, NEW e \in reported
    PROVE  /\ Group(e) \subseteq reported /\ e \in Group(e)
           /\ \A f \in Group(e) : PlanOf[f] = PlanOf[e] /\ run[f].began = run[e].began
           /\ run[e].began \in 0..MaxClock /\ Earliest(Of(Group(e), "began")) = run[e].began
<1>1. e \in Executions /\ run[e].began \in 0..MaxClock /\ run[e].began \in Nat
    BY DEF RollbackConstants, RollbackInv, WellFormed
<1>2. /\ Group(e) \subseteq reported /\ e \in Group(e)
      /\ \A f \in Group(e) : PlanOf[f] = PlanOf[e]
    BY <1>1 DEF Group, ExecutionsOf
<1>3. \A f \in Group(e) : f \in Executions
    BY <1>2 DEF RollbackInv, WellFormed
<1>4. \A f \in Group(e) : run[f].began = run[e].began
    BY <1>1, <1>2, <1>3 DEF RollbackInv, BegunTogether
<1>5. Of(Group(e), "began") = {run[e].began}
    BY <1>2, <1>4 DEF Of
<1> QED
    BY <1>1, <1>2, <1>4, <1>5, EarliestOfOne

(* A run known to have patched all of the instances, with nothing of theirs      *)
(* unreported, is one of those to choose from.                                   *)
LEMMA PatchedAllCovers ==
    ASSUME RollbackConstants, RollbackInv, NEW p \in Plans, NEW ids \in (SUBSET Instances) \ {{}},
           NEW environment \in BOOLEAN, environment => ids = Instances,
           NEW kept, environment \/ kept = ids,
           ~UnreportedRun(ids), PatchedAll(p, kept, environment, reported \union Unreported)
    PROVE  \E e \in reported : PlanOf[e] = p /\ Group(e) \in Covering(ids, environment)
<1> DEFINE known == ExecutionsOf(p) \intersect (reported \union Unreported)
<1>1. known # {} /\ IF environment THEN p \in ByEnvironment ELSE ids \subseteq Patched(known)
    BY DEF PatchedAll
<1>2. \A e \in known : e \in Executions /\ PlanOf[e] = p /\ Share[e] \subseteq Instances /\ Share[e] # {}
    BY DEF ExecutionsOf, Instances, RollbackConstants
<1>3. \A e \in known : Share[e] \intersect ids # {} => e \in reported
    BY DEF UnreportedRun
<1> HIDE DEF known
<1>4. CASE environment
    <2>1. PICK e \in known : TRUE
        BY <1>1
    <2>2. e \in reported
        BY <1>2, <1>3, <1>4
    <2>3. Group(e) = {e} /\ PlanOf[e] \in ByEnvironment
        BY <1>1, <1>2, <1>4 DEF Group
    <2> QED
        BY <1>2, <1>4, <2>2, <2>3 DEF Covering
<1>5. CASE ~environment
    <2>1. PICK i : i \in ids
        OBVIOUS
    <2>2. \A j \in ids : \E e \in known : j \in Share[e]
        BY <1>1, <1>5 DEF Patched
    <2>3. PICK e \in known : i \in Share[e]
        BY <2>1, <2>2
    <2>4. e \in reported /\ e \in Executions /\ PlanOf[e] = p
        BY <1>2, <1>3, <2>1, <2>3
    <2>5. ASSUME NEW j \in ids PROVE j \in Patched(Group(e))
        <3>1. PICK f \in known : j \in Share[f]
            BY <2>2
        <3>2. f \in reported /\ f \in Executions /\ PlanOf[f] = p
            BY <1>2, <1>3, <3>1
        <3>3. f \in Group(e)
            BY <2>4, <3>2 DEF Group, ExecutionsOf, RollbackConstants
        <3> QED
            BY <3>1, <3>3 DEF Patched
    <2>6. Group(e) \in Covering(ids, environment)
        BY <1>5, <2>4, <2>5 DEF Covering
    <2> QED
        BY <2>4, <2>6
<1> QED
    BY <1>4, <1>5

-----------------------------------------------------------------------------
(* Planning. *)

\* A rollback of these instances that undoes the run of e.
Planned(ids, environment, e) ==
    /\ plan.at = "none" /\ ~UnreportedRun(ids)
    /\ Group(e) \in Covering(ids, environment)
    /\ \A h \in Covering(ids, environment) : Earliest(Of(h, "began")) <= Earliest(Of(Group(e), "began"))
    /\ plan' = [at |-> "approved", instances |-> Kept(ids, environment, Group(e)), environment |-> environment,
                undoes |-> Group(e), since |-> Window(Group(e)).since, until |-> Window(Group(e)).until]
    /\ UNCHANGED <<clock, run, pending, reported, timed, installed>>

(* The run to undo is chosen among those reported.                              *)
LEMMA PlanningIs ==
    ASSUME NEW ids, NEW environment, PlanRollback(ids, environment)
    PROVE  \E e \in reported : Planned(ids, environment, e)
<1>1. PICK g \in Covering(ids, environment) :
         /\ \A h \in Covering(ids, environment) : Earliest(Of(h, "began")) <= Earliest(Of(g, "began"))
         /\ plan' = [at |-> "approved", instances |-> Kept(ids, environment, g), environment |-> environment,
                     undoes |-> g, since |-> Window(g).since, until |-> Window(g).until]
    BY DEF PlanRollback
<1>2. PICK e \in reported : g = Group(e)
    BY DEF Covering
<1> QED
    BY <1>1, <1>2 DEF PlanRollback, Planned

(* It is the last that patched them all.                                        *)
LEMMA PlannedIsLast ==
    ASSUME RollbackConstants, RollbackInv, NEW ids \in (SUBSET Instances) \ {{}}, NEW environment \in BOOLEAN,
           environment => ids = Instances, NEW e \in reported, Planned(ids, environment, e)
    PROVE  LastRun(Kept(ids, environment, Group(e)), environment, Group(e), reported \union Unreported)
<1> SUFFICES ASSUME NEW p \in Plans,
                    PatchedAll(p, Kept(ids, environment, Group(e)), environment, reported \union Unreported),
                    NEW f \in ExecutionsOf(p), NEW h \in Group(e)
             PROVE  run[f].began <= run[h].began
    BY DEF LastRun
<1>1. environment \/ Kept(ids, environment, Group(e)) = ids
    BY DEF Kept
<1>2. PICK d \in reported : PlanOf[d] = p /\ Group(d) \in Covering(ids, environment)
    BY <1>1, PatchedAllCovers DEF Planned
<1>3. Earliest(Of(Group(d), "began")) <= Earliest(Of(Group(e), "began"))
    BY <1>2 DEF Planned
<1>4. run[d].began <= run[e].began
    BY <1>3, GroupIs
<1>5. run[f].began = run[d].began
    BY <1>2 DEF RollbackInv, WellFormed, BegunTogether, ExecutionsOf
<1>6. run[h].began = run[e].began
    BY GroupIs
<1> QED
    BY <1>4, <1>5, <1>6

(* Its window begins before it and ends after all of it.                        *)
LEMMA WindowIs ==
    ASSUME RollbackConstants, RollbackInv, NEW e \in reported
    PROVE  /\ Window(Group(e)).since \in Nat
           /\ \A f \in Group(e) : Window(Group(e)).since <= run[f].began
           /\ Window(Group(e)).until \in Nat
           /\ Group(e) \subseteq timed =>
                 \A f \in Group(e) : run[f].ended + After <= Window(Group(e)).until
<1> DEFINE g == Group(e)
           began == run[e].began
<1>1. /\ g \subseteq reported /\ e \in g /\ began \in 0..MaxClock
      /\ \A f \in g : run[f].began = began
      /\ Earliest(Of(g, "began")) = began
    BY GroupIs
<1>2. Window(g).since = IF began < Before THEN 0 ELSE began - Before
    BY <1>1 DEF Window
<1>3. Window(g).since \in Nat /\ Window(g).since <= began
    BY <1>1, <1>2 DEF RollbackConstants
<1>4. /\ Window(g).until \in Nat
      /\ g \subseteq timed => \A f \in g : run[f].ended + After <= Window(g).until
    <2> DEFINE S == {EndOf(f) : f \in g}
               N == MaxClock + MaxRun
    <2>1. ASSUME NEW f \in g
          PROVE  EndOf(f) \in 0..N /\ (f \in timed => EndOf(f) = run[f].ended) /\ run[f].ended \in Nat
        <3>1. run[f].ended \in 0..MaxClock /\ run[f].began \in 0..MaxClock
            BY <1>1 DEF RollbackInv, WellFormed
        <3> QED
            BY <3>1 DEF EndOf, RollbackConstants
    <2>2. S \in SUBSET (0..N) /\ S \subseteq Nat /\ S # {} /\ N \in Nat /\ After \in Nat
        BY <1>1, <2>1 DEF RollbackConstants
    <2>3. Window(g).until = Latest(S) + (IF g \subseteq timed THEN After ELSE 0)
        BY DEF Window
    <2>4. \A f \in g : EndOf(f) \in S
        OBVIOUS
    <2> HIDE DEF S, g, N
    <2>5. Latest(S) \in Nat /\ \A m \in S : m <= Latest(S)
        <3>1. Latest(S) \in S /\ \A m \in S : m <= Latest(S)
            BY <2>2, LatestIs
        <3> QED
            BY <2>2, <3>1
    <2>6. ASSUME g \subseteq timed, NEW f \in g PROVE run[f].ended + After <= Latest(S) + After
        <3>1. EndOf(f) = run[f].ended /\ EndOf(f) \in S /\ run[f].ended \in Nat
            BY <2>1, <2>4, <2>6
        <3>2. run[f].ended <= Latest(S)
            BY <2>5, <3>1
        <3> QED
            BY <2>2, <2>5, <3>1, <3>2
    <2>7. Window(g).until \in Nat
        BY <2>2, <2>3, <2>5
    <2> QED
        BY <2>3, <2>6, <2>7
<1> HIDE DEF g, began
<1>5. \A f \in g : Window(g).since <= run[f].began
    BY <1>1, <1>3
<1> QED
    BY <1>3, <1>4, <1>5 DEF g

-----------------------------------------------------------------------------
(* The invariant. *)

(* Nothing has run at first.                                                    *)
LEMMA RollbackInit == ASSUME RollbackConstants, Init PROVE RollbackInv
<1>1. WellFormed
    BY DEF RollbackConstants, Init, WellFormed, Never, NoPlan
<1>2. BegunTogether /\ BegunByNow /\ ReportedEnded /\ InstalledInTime /\ WindowHolds
    BY DEF Init, BegunTogether, BegunByNow, ReportedEnded, InstalledInTime, WindowHolds, NoPlan
<1> QED
    BY <1>1, <1>2 DEF RollbackInv

(* What is planned holds as long as the runs it undoes stay as they are, and     *)
(* they do once they are reported.                                              *)
LEMMA WindowKept ==
    ASSUME RollbackInv, reported \subseteq reported', timed \subseteq timed',
           timed' \subseteq timed \union (reported' \ reported),
           plan' = plan \/ (plan.at = "approved" /\ plan' = [plan EXCEPT !.at = "started"]),
           \A e \in reported : run'[e] = run[e]
    PROVE  WindowHolds'
<1>1. /\ plan'.at # "none" => plan.at # "none"
      /\ plan'.undoes = plan.undoes /\ plan'.since = plan.since /\ plan'.until = plan.until
      /\ plan'.instances = plan.instances
    BY DEF RollbackInv, WellFormed
<1>2. CASE plan.at = "none"
    BY <1>1, <1>2 DEF WindowHolds
<1>3. CASE plan.at # "none"
    <2>1. /\ plan.undoes \subseteq reported
          /\ \A e \in plan.undoes : plan.since \in Nat /\ plan.since <= run[e].began
          /\ plan.undoes \subseteq timed =>
                \A e \in plan.undoes : plan.until \in Nat /\ run[e].ended + After <= plan.until
          /\ \A i \in plan.instances : \E j \in Patched(plan.undoes) : Account[i] = Account[j]
        BY <1>3 DEF RollbackInv, WindowHolds
    <2>2. \A e \in plan.undoes : run'[e] = run[e] /\ e \in reported' /\ (e \in timed' => e \in timed)
        BY <2>1
    <2> QED
        BY <1>1, <2>1, <2>2 DEF WindowHolds, Patched
<1> QED
    BY <1>2, <1>3

(* No step breaks it: a run that is reported stays as it is.                     *)
LEMMA RollbackStep == ASSUME RollbackConstants, RollbackInv, [Next]_vars PROVE RollbackInv'
<1>1. ASSUME NEW p \in Plans, Begin(p) PROVE RollbackInv'
    <2>1. /\ \A e \in Executions : PlanOf[e] = p => run[e].at = "none"
          /\ run' = [e \in Executions |->
                       IF PlanOf[e] = p THEN [at |-> "going", began |-> clock, ended |-> 0] ELSE run[e]]
          /\ UNCHANGED <<clock, pending, reported, timed, installed, plan>>
        BY <1>1 DEF Begin, ExecutionsOf
    <2>2. WellFormed'
        BY <2>1 DEF RollbackConstants, RollbackInv, WellFormed
    <2>3. BegunTogether' /\ BegunByNow'
        BY <2>1 DEF RollbackInv, WellFormed, BegunTogether, BegunByNow
    <2>4. \A e \in Executions : run[e].at # "none" => run'[e] = run[e]
        BY <2>1
    <2>5. \A e \in reported : run'[e] = run[e]
        BY <2>4 DEF RollbackInv, ReportedEnded, WellFormed
    <2>6. ReportedEnded'
        BY <2>1, <2>5 DEF RollbackInv, ReportedEnded
    <2>7. InstalledInTime'
        BY <2>1, <2>4 DEF RollbackInv, InstalledInTime, Never
    <2>8. WindowHolds'
        BY <2>1, <2>5, WindowKept
    <2> QED
        BY <2>2, <2>3, <2>6, <2>7, <2>8 DEF RollbackInv
<1>2. ASSUME NEW e \in Executions, NEW at \in {"ended", "stopped"}, End(e, at) PROVE RollbackInv'
    <2>1. /\ run[e].at = "going" /\ run' = [run EXCEPT ![e].at = at, ![e].ended = clock]
          /\ UNCHANGED <<clock, pending, reported, timed, installed, plan>>
        BY <1>2 DEF End
    <2>2. /\ \A f \in Executions \ {e} : run'[f] = run[f]
          /\ run'[e].at = at /\ run'[e].began = run[e].began /\ run'[e].ended = clock
        BY <2>1 DEF RollbackInv, WellFormed
    <2>3. WellFormed'
        BY <2>1 DEF RollbackInv, WellFormed
    <2>4. BegunTogether' /\ BegunByNow'
        <3>1. \A f \in Executions : run'[f].began = run[f].began
            BY <2>2
        <3>2. \A f \in Executions \ {e} : run'[f].at = run[f].at
            BY <2>2
        <3>3. \A f \in Executions : run'[f].at = "none" <=> run[f].at = "none"
            BY <2>1, <2>2, <3>2
        <3>4. BegunTogether'
            BY <3>1, <3>3 DEF RollbackInv, BegunTogether
        <3>5. BegunByNow'
            BY <2>1, <3>1 DEF RollbackInv, BegunByNow
        <3> QED
            BY <3>4, <3>5
    <2>5. \A f \in reported : run'[f] = run[f]
        BY <2>1, <2>2 DEF RollbackInv, ReportedEnded, WellFormed
    <2>6. ReportedEnded'
        BY <2>1, <2>5 DEF RollbackInv, ReportedEnded
    <2>7. ASSUME NEW f \in Executions, installed[f] # Never
          PROVE  run'[f].at # "none" /\ run'[f].began <= installed[f] /\ installed[f] <= clock
        BY <2>2, <2>7 DEF RollbackInv, InstalledInTime
    <2>8. InstalledInTime'
        BY <2>1, <2>7 DEF InstalledInTime, Never
    <2>9. WindowHolds'
        BY <2>1, <2>5, WindowKept
    <2> QED
        BY <2>3, <2>4, <2>6, <2>8, <2>9 DEF RollbackInv
<1>3. ASSUME NEW e \in Executions, Install(e) PROVE RollbackInv'
    <2>1. /\ installed[e] = Never /\ run[e].at \in {"going", "stopped"}
          /\ installed' = [installed EXCEPT ![e] = clock]
          /\ UNCHANGED <<clock, run, pending, reported, timed, plan>>
        BY <1>3 DEF Install
    <2>2. WellFormed'
        BY <2>1 DEF RollbackConstants, RollbackInv, WellFormed, Never
    <2>3. BegunTogether' /\ BegunByNow' /\ ReportedEnded'
        BY <2>1 DEF RollbackInv, BegunTogether, BegunByNow, ReportedEnded
    <2>4. run[e].began <= clock
        BY DEF RollbackInv, BegunByNow
    <2>5. InstalledInTime'
        BY <2>1, <2>4 DEF RollbackConstants, RollbackInv, WellFormed, InstalledInTime, Never
    <2>6. WindowHolds'
        BY <2>1, WindowKept
    <2> QED
        BY <2>2, <2>3, <2>5, <2>6 DEF RollbackInv
<1>4. ASSUME NEW e \in Executions, Report(e) PROVE RollbackInv'
    <2>1. /\ run[e].at \in {"ended", "stopped"} /\ reported' = reported \union {e}
          /\ pending' \in {pending, [pending EXCEPT ![e] = Never]}
          /\ UNCHANGED <<clock, run, installed, plan>>
        BY <1>4 DEF Report
    <2>7. timed' = timed \/ (e \notin reported /\ timed' = timed \union {e})
      <3>1. timed' \in IF e \in reported THEN {timed}
                      ELSE {timed \union {e}} \union (IF "duration" \in Faults THEN {timed} ELSE {})
        BY <1>4 DEF Report
      <3> QED
        BY <3>1
    <2> DEFINE gone == [pending EXCEPT ![e] = Never]
    <2>5. gone \in [Executions -> 0..Never] /\ pending \in [Executions -> 0..Never]
        BY DEF RollbackConstants, RollbackInv, WellFormed, Never
    <2> HIDE DEF gone
    <2>6. pending' \in [Executions -> 0..Never] /\ Never' = Never
        BY <2>1, <2>5 DEF gone, Never
    <2>2. WellFormed'
        BY <2>1, <2>6, <2>7 DEF RollbackInv, WellFormed
    <2>3. BegunTogether' /\ BegunByNow' /\ ReportedEnded' /\ InstalledInTime'
        BY <2>1, <2>7 DEF RollbackInv, BegunTogether, BegunByNow, ReportedEnded, InstalledInTime, Never
    <2>4. WindowHolds'
        BY <2>1, <2>7, WindowKept
    <2> QED
        BY <2>2, <2>3, <2>4 DEF RollbackInv
<1>5. CASE Tick
    <2>1. clock < MaxClock /\ clock' = clock + 1 /\ UNCHANGED <<run, pending, reported, timed, installed, plan>>
        BY <1>5 DEF Tick
    <2>2. WellFormed'
        BY <2>1 DEF RollbackConstants, RollbackInv, WellFormed, Never
    <2>3. BegunTogether' /\ BegunByNow' /\ ReportedEnded'
        BY <2>1 DEF RollbackInv, WellFormed, BegunTogether, BegunByNow, ReportedEnded
    <2>4. InstalledInTime'
        BY <2>1 DEF RollbackConstants, RollbackInv, WellFormed, InstalledInTime, Never
    <2>5. WindowHolds'
        BY <2>1, WindowKept
    <2> QED
        BY <2>2, <2>3, <2>4, <2>5 DEF RollbackInv
<1>6. ASSUME NEW ids \in SUBSET Instances, NEW environment \in BOOLEAN, PlanRollback(ids, environment)
      PROVE  RollbackInv'
    <2>1. PICK e \in reported : Planned(ids, environment, e)
        BY <1>6, PlanningIs
    <2>2. /\ plan'.undoes = Group(e) /\ plan'.instances = Kept(ids, environment, Group(e))
          /\ plan'.since = Window(Group(e)).since /\ plan'.until = Window(Group(e)).until
          /\ UNCHANGED <<clock, run, pending, reported, timed, installed>>
        BY <2>1 DEF Planned
    <2>3. Group(e) \subseteq reported
        BY GroupIs
    <2>4. WellFormed'
        <3>1. Window(Group(e)).since \in Nat /\ Window(Group(e)).until \in Nat
            BY WindowIs
        <3>2. Kept(ids, environment, Group(e)) \subseteq Instances /\ Group(e) \subseteq Executions
            BY <2>3 DEF Kept, RollbackInv, WellFormed
        <3>3. plan' \in [at: {"none", "approved", "started"}, instances: SUBSET Instances,
                         environment: BOOLEAN, undoes: SUBSET Executions, since: Nat, until: Nat]
            BY <2>1, <3>1, <3>2 DEF Planned
        <3> QED
            BY <2>2, <3>3 DEF RollbackInv, WellFormed, Never
    <2>5. BegunTogether' /\ BegunByNow' /\ ReportedEnded' /\ InstalledInTime'
        BY <2>2 DEF RollbackInv, BegunTogether, BegunByNow, ReportedEnded, InstalledInTime, Never
    <2>6. \A i \in Kept(ids, environment, Group(e)) : \E j \in Patched(Group(e)) : Account[i] = Account[j]
        <3>1. ~environment => ids \subseteq Patched(Group(e))
            BY <2>1 DEF Planned, Covering
        <3> QED
            BY <3>1 DEF Kept
    <2>7. WindowHolds'
        BY <2>2, <2>3, <2>6, WindowIs DEF WindowHolds, Patched
    <2> QED
        BY <2>4, <2>5, <2>7 DEF RollbackInv
<1>7. CASE StartRollback
    <2>1. /\ plan.at = "approved" /\ plan' = [plan EXCEPT !.at = "started"]
          /\ UNCHANGED <<clock, run, pending, reported, timed, installed>>
        BY <1>7 DEF StartRollback
    <2>2. WellFormed'
        BY <2>1 DEF RollbackInv, WellFormed, Never
    <2>3. BegunTogether' /\ BegunByNow' /\ ReportedEnded' /\ InstalledInTime'
        BY <2>1 DEF RollbackInv, BegunTogether, BegunByNow, ReportedEnded, InstalledInTime, Never
    <2>4. WindowHolds'
        BY <2>1, WindowKept
    <2> QED
        BY <2>2, <2>3, <2>4 DEF RollbackInv
<1>9. ASSUME NEW p \in Plans, WritePending(p) PROVE RollbackInv'
    <2>1. PICK lost \in SUBSET ExecutionsOf(p) :
              pending' = [e \in Executions |-> IF e \in ExecutionsOf(p) \ lost THEN clock ELSE pending[e]]
        BY <1>9 DEF WritePending
    <2>2. UNCHANGED <<clock, run, reported, timed, installed, plan>>
        BY <1>9 DEF WritePending
    <2>3. clock \in 0..Never /\ pending \in [Executions -> 0..Never]
        BY DEF RollbackConstants, RollbackInv, WellFormed, Never
    <2>4. pending' \in [Executions -> 0..Never]
        BY <2>1, <2>3
    <2>5. WellFormed'
        BY <2>2, <2>4 DEF RollbackInv, WellFormed, Never
    <2>6. BegunTogether' /\ BegunByNow' /\ ReportedEnded' /\ InstalledInTime'
        BY <2>2 DEF RollbackInv, BegunTogether, BegunByNow, ReportedEnded, InstalledInTime, Never
    <2>7. WindowHolds'
        BY <2>2, WindowKept
    <2> QED
        BY <2>5, <2>6, <2>7 DEF RollbackInv
<1>8. CASE UNCHANGED vars
    BY <1>8 DEF vars, RollbackInv, WellFormed, BegunTogether, BegunByNow, ReportedEnded, InstalledInTime,
                WindowHolds, Never, Patched
<1> QED
    BY <1>1, <1>2, <1>3, <1>4, <1>5, <1>6, <1>7, <1>8, <1>9 DEF Next, RollbackPatches, MultiAccountRollback

(* What is planned is of reported runs, in every state.                          *)
THEOREM RollbackInvariant == ASSUME RollbackConstants PROVE Spec => []RollbackInv
<1>1. Init => RollbackInv
    BY RollbackInit
<1>2. RollbackInv /\ [Next]_vars => RollbackInv'
    BY RollbackStep
<1> QED
    BY <1>1, <1>2, PTL DEF Spec

-----------------------------------------------------------------------------
(* The properties. *)

(* When a rollback is planned, the run it will undo is the last one that patched  *)
(* all of its instances, in every location, of the runs that are reported or have *)
(* a recent pending report, whichever reports lack their duration and whichever   *)
(* pending reports come late or never (last_patch_run, unreported_runs).          *)
THEOREM LastRunChosen == ASSUME RollbackConstants PROVE Spec => [][PlansForLastRun]_vars
<1>1. ASSUME RollbackInv, Next PROVE PlansForLastRun
    <2> SUFFICES ASSUME plan' # plan, plan'.at = "approved"
                 PROVE  LastRun(plan'.instances, plan'.environment, plan'.undoes, reported \union Unreported)
        BY DEF PlansForLastRun, PlannedForLast
    <2>1. ASSUME NEW ids \in (SUBSET Instances) \ {{}}, NEW environment \in BOOLEAN, environment => ids = Instances,
                 PlanRollback(ids, environment)
          PROVE  LastRun(plan'.instances, plan'.environment, plan'.undoes, reported \union Unreported)
        <3>1. PICK e \in reported : Planned(ids, environment, e)
            BY <2>1, PlanningIs
        <3>2. /\ plan'.instances = Kept(ids, environment, Group(e)) /\ plan'.environment = environment
              /\ plan'.undoes = Group(e)
            BY <3>1 DEF Planned
        <3>3. LastRun(Kept(ids, environment, Group(e)), environment, Group(e), reported \union Unreported)
            BY <1>1, <2>1, <3>1, PlannedIsLast
        <3> QED
            BY <3>2, <3>3
    <2>2. PlanRollback(Instances, TRUE) => Instances # {}
        <3>1. ASSUME NEW e \in reported PROVE Instances # {}
            BY <1>1, <3>1 DEF RollbackInv, WellFormed, RollbackConstants, Instances
        <3> QED
            BY <3>1, PlanningIs
    <2>3. CASE StartRollback
        BY <1>1, <2>3 DEF StartRollback, RollbackInv, WellFormed
    <2>4. CASE \E ids \in (SUBSET Instances) \ {{}} : PlanRollback(ids, FALSE)
        BY <2>1, <2>4
    <2>5. CASE PlanRollback(Instances, TRUE)
        BY <2>1, <2>2, <2>5
    <2>6. plan' # plan => \/ \E ids \in (SUBSET Instances) \ {{}} : PlanRollback(ids, FALSE)
                          \/ PlanRollback(Instances, TRUE) \/ StartRollback
        BY <1>1 DEF Next, Begin, WritePending, End, Install, Report, Tick, RollbackPatches, MultiAccountRollback
    <2> QED
        BY <2>3, <2>4, <2>5, <2>6
<1>2. RollbackInv /\ [Next]_vars => [PlansForLastRun]_vars
    BY <1>1
<1> QED
    BY <1>2, RollbackInvariant, PTL DEF Spec

(* The window holds every package transaction that the run it undoes began before *)
(* it ended, in every location, when the reports tell how long its runs took; and *)
(* the rollback reaches only accounts that run patched (rollback_window).         *)
THEOREM AllOfRunUndone == ASSUME RollbackConstants PROVE Spec => []WholeRunUndone
<1>1. RollbackInv => WholeRunUndone
    <2> SUFFICES ASSUME RollbackInv, plan.at = "started"
                 PROVE  /\ \A e \in plan.undoes : installed[e] <= run[e].ended /\ plan.undoes \subseteq timed =>
                             plan.since <= installed[e] /\ installed[e] <= plan.until
                        /\ \A i \in plan.instances : \E j \in Patched(plan.undoes) : Account[i] = Account[j]
        BY DEF WholeRunUndone
    <2>1. /\ plan.undoes \subseteq reported
          /\ \A e \in plan.undoes : plan.since \in Nat /\ plan.since <= run[e].began
          /\ plan.undoes \subseteq timed =>
                \A e \in plan.undoes : plan.until \in Nat /\ run[e].ended + After <= plan.until
          /\ \A i \in plan.instances : \E j \in Patched(plan.undoes) : Account[i] = Account[j]
        BY DEF RollbackInv, WindowHolds
    <2>2. ASSUME NEW e \in plan.undoes, installed[e] <= run[e].ended, plan.undoes \subseteq timed
          PROVE  plan.since <= installed[e] /\ installed[e] <= plan.until
        <3>1. /\ e \in Executions /\ run[e].ended <= MaxClock /\ installed[e] \in Nat
              /\ run[e].began \in Nat /\ run[e].ended \in Nat
            BY <2>1 DEF RollbackInv, WellFormed, RollbackConstants, Never
        <3>2. installed[e] # Never
            BY <2>2, <3>1 DEF RollbackConstants, Never
        <3>3. run[e].began <= installed[e]
            BY <3>1, <3>2 DEF RollbackInv, InstalledInTime
        <3> QED
            BY <2>1, <2>2, <3>1, <3>3 DEF RollbackConstants
    <2> QED
        BY <2>1, <2>2
<1> QED
    BY <1>1, RollbackInvariant, PTL

-----------------------------------------------------------------------------
(* The check of a rollback (RollbackCheck): what a confirmation says of the        *)
(* instances, when patches are released, and scans run, meanwhile.               *)

CONSTANTS RolledBack, Home, Patches, Installs, Releases
VARIABLES before, applied, released, state, pre, post, undo, named, scan, scanId, answer

Check == INSTANCE RollbackCheck WITH Instances <- RolledBack, run <- undo

(* What the patch run may have installed is some of what there was.             *)
CheckConstants ==
    /\ Patches \in Nat /\ Releases \in Nat
    /\ Installs \subseteq [RolledBack -> 0..Patches]

CheckTypes ==
    /\ before \in [RolledBack -> 0..Patches] /\ applied \in [RolledBack -> 0..Patches]
    /\ released \in 0..Releases
    /\ state \in [RolledBack -> [missing: Nat, installed: Nat]]
    /\ scan \in [Check!Locations -> {"none", "running", "Success", "Failed"}]
    /\ scanId \in Check!Locations \union {Check!NoScan}

(* A patch state is of a scan: it had at least the patches that are there now,   *)
(* and some of those released by now were missing.                              *)
StatesWereTrue ==
    \A i \in RolledBack : state[i] # Check!NoData =>
        \E n \in 0..Patches, new \in 0..released : state[i] = Check!Counts(n, new) /\ applied[i] <= n

(* The snapshot from after patching is of what the run installed.               *)
SnapshotIsOfRun ==
    \A i \in RolledBack : post[i] \in {Check!Absent, Check!NoData, Check!Counts(before[i], 0)}

CheckInv == CheckTypes /\ StatesWereTrue /\ SnapshotIsOfRun

(* What is left of ConfirmedCameOff when patches are released meanwhile.        *)
ConfirmedOrReleased ==
    answer = "VERIFIED" => \A i \in RolledBack : post[i] # Check!Absent => Check!CameOff(i) \/ released > 0

-----------------------------------------------------------------------------
LEMMA CheckInvInit == ASSUME CheckConstants, Check!Init PROVE CheckInv
<1>1. /\ before \in [RolledBack -> 0..Patches] /\ applied = before /\ released = 0
      /\ scan = [l \in Check!Locations |-> "none"] /\ scanId = Check!NoScan
    BY DEF Check!Init, CheckConstants
<1>2. PICK scanned \in SUBSET RolledBack :
          state = [i \in RolledBack |-> IF i \in scanned THEN Check!Counts(before[i], 0) ELSE Check!NoData]
    BY DEF Check!Init
<1>3. \A n \in 0..Patches : Check!Counts(n, 0) \in [missing: Nat, installed: Nat]
    BY DEF CheckConstants, Check!Counts
<1>4. Check!NoData \in [missing: Nat, installed: Nat]
    BY DEF CheckConstants, Check!NoData
<1>5. CheckTypes
  <2>1. state \in [RolledBack -> [missing: Nat, installed: Nat]]
    BY <1>1, <1>2, <1>3, <1>4
  <2> QED
    BY <1>1, <2>1 DEF CheckTypes, CheckConstants
<1>6. StatesWereTrue
    BY <1>1, <1>2 DEF StatesWereTrue
<1>7. SnapshotIsOfRun
    BY <1>1, <1>2 DEF SnapshotIsOfRun, Check!Init
<1> QED
    BY <1>5, <1>6, <1>7 DEF CheckInv

(* A step that only takes patches off, and keeps the patch states.              *)
LEMMA StatesStayTrue ==
    ASSUME CheckConstants, CheckInv, UNCHANGED <<before, pre, post, named, state>>,
           applied' \in [RolledBack -> 0..Patches], \A i \in RolledBack : applied'[i] <= applied[i],
           released' \in 0..Releases, released <= released',
           scan' \in [Check!Locations -> {"none", "running", "Success", "Failed"}],
           scanId' \in Check!Locations \union {Check!NoScan}
    PROVE  CheckInv'
<1>1. CheckTypes'
    BY DEF CheckInv, CheckTypes
<1>2. StatesWereTrue'
  <2> SUFFICES ASSUME NEW i \in RolledBack, state[i] # Check!NoData
               PROVE  \E n \in 0..Patches, new \in 0..released' :
                          state[i] = Check!Counts(n, new) /\ applied'[i] <= n
    BY DEF StatesWereTrue
  <2>1. PICK n \in 0..Patches, new \in 0..released : state[i] = Check!Counts(n, new) /\ applied[i] <= n
    BY DEF CheckInv, StatesWereTrue
  <2>2. new \in 0..released' /\ applied'[i] <= n
    BY <2>1 DEF CheckInv, CheckTypes, CheckConstants
  <2> QED
    BY <2>1, <2>2
<1>3. SnapshotIsOfRun'
    BY DEF CheckInv, SnapshotIsOfRun
<1> QED
    BY <1>1, <1>2, <1>3 DEF CheckInv

LEMMA CheckInvStep ==
    ASSUME CheckConstants, CheckInv, [Check!Next]_(Check!vars) PROVE CheckInv'
<1> USE DEF Check!given
<1>0. /\ \A i \in RolledBack : applied[i] \in 0..Patches /\ applied[i] <= applied[i]
      /\ released \in 0..Releases /\ released <= released
    BY DEF CheckInv, CheckTypes, CheckConstants
<1>1. ASSUME NEW l \in Check!Locations, Check!RunEnds(l) PROVE CheckInv'
  <2>1. /\ UNCHANGED <<before, pre, post, named, released, state, scan, scanId>>
        /\ applied' \in [RolledBack -> 0..Patches]
        /\ \A i \in RolledBack : applied'[i] = applied[i] \/ applied'[i] = 0
    BY <1>1 DEF Check!RunEnds
  <2>2. \A i \in RolledBack : applied'[i] <= applied[i]
    BY <1>0, <2>1 DEF CheckConstants
  <2> QED
    BY <1>0, <2>1, <2>2, StatesStayTrue DEF CheckInv, CheckTypes
<1>2. CASE Check!Release
  <2>1. /\ UNCHANGED <<before, pre, post, named, applied, state, scan, scanId>>
        /\ released' \in 0..Releases /\ released <= released'
    BY <1>2 DEF Check!Release, CheckInv, CheckTypes, CheckConstants
  <2> QED
    BY <1>0, <2>1, StatesStayTrue DEF CheckInv, CheckTypes
<1>3. ASSUME NEW l \in Check!Locations, Check!ScanEnds(l) PROVE CheckInv'
  <2>1. /\ UNCHANGED <<before, pre, post, named, applied, released, scanId>>
        /\ scan' \in [Check!Locations -> {"none", "running", "Success", "Failed"}]
    BY <1>3 DEF Check!ScanEnds, CheckInv, CheckTypes
  <2>2. CASE UNCHANGED state
    BY <1>0, <2>1, <2>2, StatesStayTrue DEF CheckInv, CheckTypes
  <2>3. CASE state' = [i \in RolledBack |-> IF Home[i] = l THEN Check!Counts(applied[i], released) ELSE state[i]]
    <3>1. \A i \in RolledBack : Check!Counts(applied[i], released) \in [missing: Nat, installed: Nat]
        BY DEF CheckInv, CheckTypes, CheckConstants, Check!Counts
    <3>2. CheckTypes'
        BY <2>1, <2>3, <3>1 DEF CheckInv, CheckTypes
    <3>3. StatesWereTrue'
      <4> SUFFICES ASSUME NEW i \in RolledBack, state'[i] # Check!NoData
                   PROVE  \E n \in 0..Patches, new \in 0..released :
                              state'[i] = Check!Counts(n, new) /\ applied[i] <= n
        BY <2>1 DEF StatesWereTrue
      <4>1. CASE Home[i] = l
        <5>1. state'[i] = Check!Counts(applied[i], released) /\ released \in 0..released
            BY <1>0, <2>3, <4>1 DEF CheckConstants
        <5> QED
            BY <1>0, <5>1
      <4>2. CASE Home[i] # l
        <5>1. state'[i] = state[i]
            BY <2>3, <4>2
        <5> QED
            BY <5>1 DEF CheckInv, StatesWereTrue
      <4> QED
        BY <4>1, <4>2
    <3>4. SnapshotIsOfRun'
        BY <2>1 DEF CheckInv, SnapshotIsOfRun
    <3> QED
        BY <3>2, <3>3, <3>4 DEF CheckInv
  <2> QED
    BY <1>3, <2>2, <2>3 DEF Check!ScanEnds
<1>4. CASE Check!VerifyRollback
  <2>1. /\ UNCHANGED <<before, pre, post, named, applied, released, state>>
        /\ Check!StartScan \/ UNCHANGED <<scan, scanId>>
    BY <1>4 DEF Check!VerifyRollback
  <2>2. /\ scan' \in [Check!Locations -> {"none", "running", "Success", "Failed"}]
        /\ scanId' \in Check!Locations \union {Check!NoScan}
    BY <2>1 DEF Check!StartScan, CheckInv, CheckTypes
  <2> QED
    BY <1>0, <2>1, <2>2, StatesStayTrue DEF CheckInv, CheckTypes
<1>5. CASE UNCHANGED Check!vars
    BY <1>0, <1>5, StatesStayTrue DEF Check!vars, CheckInv, CheckTypes
<1> QED
    BY <1>1, <1>2, <1>3, <1>4, <1>5 DEF Check!Next

(* The comparison: fewer patches than the run installed, unless one was released. *)
LEMMA RevertedCameOff ==
    ASSUME CheckConstants, CheckInv, NEW i \in RolledBack, Check!Confirmed(i, state[i]), post[i] # Check!Absent
    PROVE  Check!CameOff(i) \/ released > 0
<1>1. /\ state[i] # Check!NoData /\ post[i] = Check!Counts(before[i], 0)
      /\ state[i].missing > post[i].missing \/ state[i].installed < post[i].installed
    BY DEF Check!Confirmed, Check!Reverted, CheckInv, SnapshotIsOfRun
<1>2. PICK n \in 0..Patches, new \in 0..released : state[i] = Check!Counts(n, new) /\ applied[i] <= n
    BY <1>1 DEF CheckInv, StatesWereTrue
<1>3. before[i] \in 0..Patches /\ applied[i] \in 0..Patches /\ released \in Nat
    BY DEF CheckInv, CheckTypes, CheckConstants
<1>4. released > 0 \/ n < before[i]
    BY <1>1, <1>2, <1>3 DEF Check!Counts, CheckConstants
<1> QED
    BY <1>2, <1>3, <1>4 DEF Check!CameOff, CheckConstants

(* "VERIFIED" is only answered to a comparison.                                 *)
LEMMA VerifiedIsCompared ==
    ASSUME CheckConstants, CheckInv, Check!VerifyRollback, answer' = "VERIFIED"
    PROVE  \A i \in RolledBack : Check!Confirmed(i, state[i])
<1>1. PICK outcome \in Check!RunOutcomes(undo, named) :
         IF outcome \in {"ERROR", "RUNNING", "FAILED"}
         THEN answer' = outcome /\ UNCHANGED <<scan, scanId>>
         ELSE IF ~Check!HasSnapshot
         THEN /\ \E healthy \in BOOLEAN : answer' = Check!Verdict(outcome, FALSE, state, healthy)
              /\ UNCHANGED <<scan, scanId>>
         ELSE IF scanId = Check!NoScan THEN Check!StartScan
         ELSE Check!Compare(outcome) /\ UNCHANGED <<scan, scanId>>
    BY DEF Check!VerifyRollback
<1>2. outcome \notin {"ERROR", "RUNNING", "FAILED"}
    BY <1>1
<1>3. \A healthy \in BOOLEAN : Check!Verdict(outcome, FALSE, state, healthy) # "VERIFIED"
    BY DEF Check!Verdict
<1>4. Check!StartScan => answer' # "VERIFIED"
    BY DEF Check!StartScan
<1>5. Check!Compare(outcome)
    BY <1>1, <1>2, <1>3, <1>4
<1>6. PICK scanned \in Check!RunOutcomes(scan, {scanId}) :
        CASE scanned = "RUNNING"             -> answer' = "SCAN_IN_PROGRESS"
          [] scanned \in {"FAILED", "ERROR"} -> answer' = "PARTIAL"
          [] OTHER -> \E unread \in SUBSET Check!Locations, healthy \in BOOLEAN :
                          answer' = Check!Verdict(outcome, TRUE, Check!Captured(unread), healthy)
    BY <1>5 DEF Check!Compare
<1>7. PICK unread \in SUBSET Check!Locations, healthy \in BOOLEAN :
          answer' = Check!Verdict(outcome, TRUE, Check!Captured(unread), healthy)
    BY <1>6
<1>8. \A i \in RolledBack : Check!Confirmed(i, Check!Captured(unread)[i])
    BY <1>7 DEF Check!Verdict
<1> SUFFICES ASSUME NEW i \in RolledBack PROVE Check!Confirmed(i, state[i])
    OBVIOUS
<1>9. Check!Captured(unread)[i] = state[i]
    BY <1>8 DEF Check!Captured, Check!Confirmed
<1> QED
    BY <1>8, <1>9

(* The check's variables have their types.                                      *)
THEOREM RollbackCheckTypeCorrect == CheckConstants => (Check!Spec => []Check!TypeOK)
<1> SUFFICES ASSUME CheckConstants PROVE Check!Spec => []Check!TypeOK
    OBVIOUS
<1>1. Check!Init => CheckInv
    BY CheckInvInit
<1>2. CheckInv /\ [Check!Next]_(Check!vars) => CheckInv'
    BY CheckInvStep
<1>3. CheckInv => Check!TypeOK
    BY DEF CheckInv, CheckTypes, Check!TypeOK
<1> QED
    BY <1>1, <1>2, <1>3, PTL DEF Check!Spec

(* However many patches are released: a rollback is confirmed only where the    *)
(* patches came off, or some new one was released since the snapshot.           *)
THEOREM ConfirmedIfOffOrReleased == CheckConstants => (Check!Spec => []ConfirmedOrReleased)
<1> SUFFICES ASSUME CheckConstants PROVE Check!Spec => []ConfirmedOrReleased
    OBVIOUS
<1>1. Check!Init => CheckInv /\ ConfirmedOrReleased
    BY CheckInvInit DEF Check!Init, ConfirmedOrReleased
<1>2. CheckInv /\ ConfirmedOrReleased /\ [Check!Next]_(Check!vars) => (CheckInv /\ ConfirmedOrReleased)'
  <2> SUFFICES ASSUME CheckInv, ConfirmedOrReleased, [Check!Next]_(Check!vars)
               PROVE  ConfirmedOrReleased'
    BY CheckInvStep
  <2>1. CASE Check!VerifyRollback
    <3>1. UNCHANGED <<before, post, applied, released>>
        BY <2>1 DEF Check!VerifyRollback, Check!given
    <3>2. answer' = "VERIFIED" =>
              \A i \in RolledBack : post[i] # Check!Absent => Check!CameOff(i) \/ released > 0
        BY <2>1, VerifiedIsCompared, RevertedCameOff
    <3> QED
        BY <3>1, <3>2 DEF ConfirmedOrReleased, Check!CameOff, Check!Absent
  <2>2. CASE UNCHANGED Check!vars
    BY <2>2 DEF Check!vars, ConfirmedOrReleased, Check!CameOff
  <2>3. CASE ~Check!VerifyRollback /\ ~UNCHANGED Check!vars
    <3>1. answer' = "none"
        BY <2>3 DEF Check!Next, Check!RunEnds, Check!ScanEnds, Check!Release
    <3> QED
        BY <3>1 DEF ConfirmedOrReleased
  <2> QED
    BY <2>1, <2>2, <2>3
<1> QED
    BY <1>1, <1>2, PTL DEF Check!Spec

(* Where none is, a rollback is confirmed only where the patches came off.      *)
THEOREM ConfirmedOnlyIfOff == CheckConstants /\ Releases = 0 => (Check!Spec => []Check!ConfirmedCameOff)
<1> SUFFICES ASSUME CheckConstants, Releases = 0 PROVE Check!Spec => []Check!ConfirmedCameOff
    OBVIOUS
<1>1. Check!Spec => []ConfirmedOrReleased
    BY ConfirmedIfOffOrReleased
<1>2. Check!Init => CheckInv
    BY CheckInvInit
<1>3. CheckInv /\ [Check!Next]_(Check!vars) => CheckInv'
    BY CheckInvStep
<1>4. CheckInv /\ ConfirmedOrReleased => Check!ConfirmedCameOff
    BY DEF CheckInv, CheckTypes, ConfirmedOrReleased, Check!ConfirmedCameOff
<1> QED
    BY <1>1, <1>2, <1>3, <1>4, PTL DEF Check!Spec

=============================================================================
