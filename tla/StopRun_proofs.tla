---------------------------- MODULE StopRun_proofs ----------------------------
(* Proofs about StopRun: its type invariant, and that a stop reaches only runs  *)
(* of its own plan and conversation, whatever fails and whoever else stops.     *)
EXTENDS StopRun, TLAPS

(* What a request that was let through has hold of: the named run, asked for    *)
(* from the conversation of its plan, and runs of that plan.                    *)
InPlan(s) ==
    \E e \in Executions :
        /\ s.named = {e}
        /\ s.from = {Conversation[PlanOf[e]]}
        /\ \A f \in s.todo \union s.stopped \union s.finished : PlanOf[f] = PlanOf[e]

(* A request that has reached nothing yet, or never will.                       *)
Empty(s) == s.todo = {} /\ s.stopped = {} /\ s.finished = {}

RequestSound(s) ==
    /\ s \in StopRequest
    /\ s.at \in {"asked", "stopping", "answered"} => InPlan(s)
    /\ s.at \in {"idle", "asked", "refused"} => Empty(s)

(* What a request names or is still to stop has started, and what it says it    *)
(* has stopped or found finished is over.                                       *)
RequestTrue(s, states) ==
    /\ \A f \in s.named \union s.todo : states[f] # "none"
    /\ \A f \in s.stopped \union s.finished : states[f] \in {"cancelled", "ended"}

(* An execution that a plan has started is never started again.                 *)
BegunOnce == \A e \in Executions : ssm[e] = "none" <=> e \notin begun

CancelledByStop == \A e \in Executions : ssm[e] = "cancelled" => \E r \in Stops : e \in stop[r].stopped

StopInv ==
    /\ TypeOK
    /\ BegunOnce
    /\ \A r \in Stops : RequestSound(stop[r])
    /\ \A r \in Stops : RequestTrue(stop[r], ssm)
    /\ CancelledByStop

-----------------------------------------------------------------------------
(* The invariant says what StopReachesOwn says. *)
LEMMA StopInvReaches == StopInv => StopReachesOwn
<1> SUFFICES ASSUME StopInv PROVE StopReachesOwn
    OBVIOUS
<1>1. ASSUME NEW r \in Stops, NEW f \in stop[r].stopped \union stop[r].finished
      PROVE  InPlan(stop[r])
    BY <1>1 DEF StopInv, RequestSound, Empty, StopRequest
<1>2. ASSUME NEW e \in Executions, ssm[e] = "cancelled"
      PROVE  \E r \in Stops : e \in stop[r].stopped /\ stop[r].from = {Conversation[PlanOf[e]]}
    <2>1. PICK r \in Stops : e \in stop[r].stopped
        BY <1>2 DEF StopInv, CancelledByStop
    <2>2. stop[r].from = {Conversation[PlanOf[e]]}
        BY <1>1, <2>1 DEF InPlan
    <2> QED
        BY <2>1, <2>2
<1>3. ASSUME NEW r \in Stops, NEW f \in stop[r].stopped \union stop[r].finished
      PROVE  /\ ssm[f] \in {"cancelled", "ended"}
             /\ \A e \in stop[r].named : PlanOf[f] = PlanOf[e]
    <2>1. ssm[f] \in {"cancelled", "ended"}
        BY <1>3 DEF StopInv, RequestTrue
    <2>2. \A e \in stop[r].named : PlanOf[f] = PlanOf[e]
        BY <1>1, <1>3 DEF InPlan
    <2> QED
        BY <2>1, <2>2
<1> QED
    BY <1>2, <1>3 DEF StopReachesOwn, StoppedFromOwnConversation, StopsItsPlanOnly

LEMMA StopInvInit == Init => StopInv
<1> SUFFICES ASSUME Init PROVE StopInv
    OBVIOUS
<1>1. NoStop \in StopRequest
    BY DEF NoStop, StopRequest
<1>2. TypeOK
    BY <1>1 DEF Init, TypeOK
<1>3. \A r \in Stops : RequestSound(stop[r])
    BY <1>1 DEF Init, RequestSound, NoStop, Empty
<1>4. \A r \in Stops : RequestTrue(stop[r], ssm)
    BY DEF Init, RequestTrue, NoStop
<1>5. BegunOnce /\ CancelledByStop
    BY DEF Init, BegunOnce, CancelledByStop
<1> QED
    BY <1>2, <1>3, <1>4, <1>5 DEF StopInv

-----------------------------------------------------------------------------
(* Each kind of step. *)

(* A step that lets executions start or end, and touches no request.            *)
LEMMA RunsGoOn ==
    ASSUME StopInv, UNCHANGED stop,
           TypeOK', BegunOnce',
           \A e \in Executions : ssm[e] \in {"cancelled", "ended"} => ssm'[e] = ssm[e],
           \A e \in Executions : ssm'[e] = "cancelled" => ssm[e] = "cancelled",
           \A e \in Executions : ssm'[e] = "none" => ssm[e] = "none"
    PROVE  StopInv'
<1>1. ASSUME NEW r \in Stops PROVE RequestTrue(stop[r], ssm')
    <2>1. RequestTrue(stop[r], ssm) /\ stop[r] \in StopRequest
        BY DEF StopInv, RequestSound
    <2>2. /\ stop[r].named \subseteq Executions /\ stop[r].todo \subseteq Executions
          /\ stop[r].stopped \subseteq Executions
          /\ stop[r].finished \subseteq Executions
        BY <2>1 DEF StopRequest
    <2> QED
        BY <2>1, <2>2 DEF RequestTrue
<1>2. \A r \in Stops : stop'[r] = stop[r]
    OBVIOUS
<1>3. \A r \in Stops : RequestTrue(stop'[r], ssm')
    BY <1>1, <1>2
<1>4. CancelledByStop'
    BY DEF StopInv, CancelledByStop
<1>5. \A r \in Stops : RequestSound(stop'[r])
    BY <1>2 DEF StopInv
<1> QED
    BY <1>3, <1>4, <1>5 DEF StopInv

(* A step of one request that keeps what it has stopped, and cancels nothing.   *)
LEMMA RequestGoesOn ==
    ASSUME StopInv, NEW r \in Stops, NEW s,
           stop' = [stop EXCEPT ![r] = s], UNCHANGED <<ssm, recorded, listed, begun, over>>,
           RequestSound(s), RequestTrue(s, ssm), stop[r].stopped \subseteq s.stopped
    PROVE  StopInv'
<1>1. /\ stop'[r] = s
      /\ \A q \in Stops : q # r => stop'[q] = stop[q]
    BY DEF StopInv, TypeOK
<1>2. \A q \in Stops : RequestSound(stop'[q])
    BY <1>1 DEF StopInv
<1>3. \A q \in Stops : RequestTrue(stop'[q], ssm')
    BY <1>1 DEF StopInv
<1>4. TypeOK'
    BY DEF StopInv, TypeOK, RequestSound
<1>5. CancelledByStop'
    BY <1>1 DEF StopInv, CancelledByStop
<1>6. BegunOnce'
    BY DEF StopInv, BegunOnce
<1> QED
    BY <1>2, <1>3, <1>4, <1>5, <1>6 DEF StopInv

-----------------------------------------------------------------------------
(* Each action. *)

LEMMA StartsOnce == ASSUME StopInv, NEW e \in Executions, StartExecution(e) PROVE StopInv'
<1>1. ssm[e] = "none"
    BY DEF StopInv, BegunOnce, StartExecution
<1>2. /\ ssm' = [ssm EXCEPT ![e] = "active"]
      /\ ssm \in [Executions -> {"none", "active", "cancelled", "ended"}]
      /\ UNCHANGED stop
    BY DEF StopInv, TypeOK, StartExecution
<1>3. TypeOK'
    BY <1>2 DEF StopInv, TypeOK, StartExecution
<1>4. BegunOnce'
    BY <1>2 DEF StopInv, BegunOnce, StartExecution
<1>5. \A x \in Executions : ssm'[x] = IF x = e THEN "active" ELSE ssm[x]
    BY <1>2
<1> QED
    BY <1>1, <1>2, <1>3, <1>4, <1>5, RunsGoOn

LEMMA EndsUnderWay == ASSUME StopInv, NEW e \in Executions, ExecutionEnds(e) PROVE StopInv'
<1>1. /\ ssm[e] = "active"
      /\ ssm' = [ssm EXCEPT ![e] = "ended"]
      /\ ssm \in [Executions -> {"none", "active", "cancelled", "ended"}]
      /\ UNCHANGED stop
    BY DEF StopInv, TypeOK, ExecutionEnds
<1>2. TypeOK'
    BY <1>1 DEF StopInv, TypeOK, ExecutionEnds
<1>3. BegunOnce'
    BY <1>1 DEF StopInv, BegunOnce, ExecutionEnds
<1>4. \A x \in Executions : ssm'[x] = IF x = e THEN "ended" ELSE ssm[x]
    BY <1>1
<1> QED
    BY <1>1, <1>2, <1>3, <1>4, RunsGoOn

LEMMA ListsOnly == ASSUME StopInv, NEW p \in Plans, ListExecutions(p) PROVE StopInv'
<1>1. UNCHANGED <<ssm, begun, stop>>
    BY DEF ListExecutions
<1>2. TypeOK'
    BY DEF StopInv, TypeOK, ListExecutions
<1>3. BegunOnce'
    BY <1>1 DEF StopInv, BegunOnce
<1> QED
    BY <1>1, <1>2, <1>3, RunsGoOn

(* A request is let through only for a run of its own conversation. *)
LEMMA AsksForOwn ==
    ASSUME StopInv, NEW r \in Stops, NEW e \in Executions, NEW c \in Conversations, Ask(r, e, c)
    PROVE  StopInv'
<1> DEFINE at == IF OwnRun(e, c) THEN "asked" ELSE "refused"
           complete == PlanOf[e] \in over
           s == [NoStop EXCEPT !.at = at, !.named = {e}, !.from = {c}, !.complete = complete]
<1>1. stop' = [stop EXCEPT ![r] = s] /\ UNCHANGED <<ssm, recorded, listed, begun, over>>
    BY DEF Ask
<1>2. at \in {"asked", "refused"} /\ (at = "asked" => OwnRun(e, c)) /\ complete \in BOOLEAN
    OBVIOUS
<1> HIDE DEF at, complete
<1>6. /\ s \in StopRequest
      /\ s.at = at /\ s.named = {e} /\ s.from = {c}
      /\ s.todo = {} /\ s.stopped = {} /\ s.finished = {}
    BY <1>2 DEF NoStop, StopRequest
<1> HIDE DEF s
<1>3. RequestSound(s)
    BY <1>2, <1>6 DEF RequestSound, Empty, InPlan, OwnRun
<1>4. RequestTrue(s, ssm)
    BY <1>6 DEF RequestTrue, StopInv, BegunOnce, Ask
<1>5. stop[r].stopped \subseteq s.stopped
    BY DEF StopInv, RequestSound, Empty, Ask
<1> QED
    BY <1>1, <1>3, <1>4, <1>5, RequestGoesOn

(* What is found to stop belongs to the plan and has started. *)
LEMMA FindsSiblings == ASSUME StopInv, NEW r \in Stops, FindRuns(r) PROVE StopInv'
<1> DEFINE old == stop[r]
<1>1. /\ RequestSound(old) /\ RequestTrue(old, ssm) /\ old.at = "asked"
      /\ UNCHANGED <<ssm, recorded, listed, begun, over>>
    BY DEF StopInv, FindRuns
<1>2. old \in StopRequest /\ InPlan(old) /\ Empty(old)
    BY <1>1 DEF RequestSound
<1>3. CASE stop' = [stop EXCEPT ![r].at = "refused"]
    <2> DEFINE s == [old EXCEPT !.at = "refused"]
    <2>1. /\ s \in StopRequest /\ s.at = "refused" /\ Empty(s)
              /\ s.stopped = old.stopped /\ s.named = old.named
        BY <1>2 DEF StopRequest, Empty
    <2>2. stop' = [stop EXCEPT ![r] = s]
        BY <1>3
    <2> HIDE DEF s
    <2>3. RequestSound(s) /\ RequestTrue(s, ssm)
        BY <1>1, <2>1 DEF RequestSound, RequestTrue, Empty
    <2> QED
        BY <1>1, <2>1, <2>2, <2>3, RequestGoesOn
<1>4. ASSUME NEW e \in old.named, NEW c \in old.from,
             stop' = [stop EXCEPT ![r] = [@ EXCEPT !.at = "stopping", !.ids = PlanRunIds(e, c),
                                                   !.todo = PlanRunIds(e, c)]]
      PROVE  StopInv'
    <2> DEFINE ids == PlanRunIds(e, c)
               s == [old EXCEPT !.at = "stopping", !.ids = ids, !.todo = ids]
    <2>1. e \in Executions /\ old.named = {e} /\ old.from = {Conversation[PlanOf[e]]}
        BY <1>2 DEF InPlan
    <2>2. ids \subseteq Executions /\ \A f \in ids : PlanOf[f] = PlanOf[e]
        BY <2>1 DEF PlanRunIds, Siblings
    <2>3. \A f \in ids : ssm[f] # "none"
        BY <1>1, <2>1 DEF StopInv, BegunOnce, RequestTrue, PlanRunIds, Siblings
    <2>4. /\ s \in StopRequest /\ s.at = "stopping" /\ s.todo = ids
          /\ s.named = old.named /\ s.from = old.from
          /\ s.stopped = old.stopped /\ s.finished = old.finished
        BY <1>2, <2>2 DEF StopRequest
    <2>5. stop' = [stop EXCEPT ![r] = s]
        BY <1>4
    <2> HIDE DEF s, ids
    <2>6. RequestSound(s)
        BY <1>2, <2>1, <2>2, <2>4 DEF RequestSound, InPlan, Empty
    <2>7. RequestTrue(s, ssm)
        BY <1>1, <1>2, <2>3, <2>4 DEF RequestTrue, Empty
    <2> QED
        BY <1>1, <2>4, <2>5, <2>6, <2>7, RequestGoesOn
<1> QED
    BY <1>3, <1>4 DEF FindRuns

LEMMA Answers == ASSUME StopInv, NEW r \in Stops, Answer(r) PROVE StopInv'
<1> DEFINE old == stop[r]
           s == [old EXCEPT !.at = "answered"]
<1>1. /\ RequestSound(old) /\ RequestTrue(old, ssm) /\ old.at = "stopping"
      /\ stop' = [stop EXCEPT ![r] = s]
      /\ UNCHANGED <<ssm, recorded, listed, begun, over>>
    BY DEF StopInv, Answer
<1>2. /\ s \in StopRequest /\ s.at = "answered" /\ s.named = old.named /\ s.from = old.from
      /\ s.todo = old.todo /\ s.stopped = old.stopped /\ s.finished = old.finished
    BY <1>1 DEF RequestSound, StopRequest
<1> HIDE DEF s
<1>3. RequestSound(s) /\ RequestTrue(s, ssm)
    BY <1>1, <1>2 DEF RequestSound, RequestTrue, InPlan
<1> QED
    BY <1>1, <1>2, <1>3, RequestGoesOn

(* The one step that cancels an execution, and reports it. *)
LEMMA StopsOne ==
    ASSUME StopInv, NEW r \in Stops, NEW e \in Executions, StopExecution(r, e)
    PROVE  StopInv'
<1> DEFINE old == stop[r]
<1>1. /\ RequestSound(old) /\ RequestTrue(old, ssm) /\ old.at = "stopping" /\ e \in old.todo
      /\ UNCHANGED <<recorded, listed, begun, over>>
    BY DEF StopInv, StopExecution
<1>2. /\ old \in StopRequest /\ InPlan(old)
      /\ stop \in [Stops -> StopRequest]
      /\ ssm \in [Executions -> {"none", "active", "cancelled", "ended"}]
    BY <1>1 DEF RequestSound, StopInv, TypeOK
<1>3. CASE /\ ssm[e] = "active"
           /\ ssm' = [ssm EXCEPT ![e] = "cancelled"]
           /\ stop' = [stop EXCEPT ![r] =
                   [stop[r] EXCEPT !.todo = stop[r].todo \ {e}, !.stopped = stop[r].stopped \union {e}]]
    <2> DEFINE s == [old EXCEPT !.todo = old.todo \ {e}, !.stopped = old.stopped \union {e}]
    <2>1. /\ s \in StopRequest /\ s.at = "stopping" /\ s.named = old.named /\ s.from = old.from
          /\ s.todo = old.todo \ {e} /\ s.stopped = old.stopped \union {e} /\ s.finished = old.finished
        BY <1>1, <1>2 DEF StopRequest
    <2>2. stop' = [stop EXCEPT ![r] = s]
        BY <1>3
    <2> HIDE DEF s
    <2>3. \A x \in Executions : ssm'[x] = IF x = e THEN "cancelled" ELSE ssm[x]
        BY <1>2, <1>3
    <2>4. /\ stop'[r] = s
          /\ \A q \in Stops : q # r => stop'[q] = stop[q]
        BY <1>2, <2>2
    <2>5. RequestSound(s)
        BY <1>1, <1>2, <2>1 DEF RequestSound, InPlan
    <2>6. \A q \in Stops : RequestSound(stop'[q])
        BY <2>4, <2>5 DEF StopInv
    <2>7. ASSUME NEW q \in Stops, NEW t, RequestSound(t), RequestTrue(t, ssm)
          PROVE  RequestTrue(t, ssm')
        <3>1. t.named \union t.todo \union t.stopped \union t.finished \subseteq Executions
            BY <2>7 DEF RequestSound, StopRequest
        <3> QED
            BY <2>3, <2>7, <3>1 DEF RequestTrue
    <2>8. RequestTrue(s, ssm')
        <3>1. RequestTrue(old, ssm')
            BY <1>1, <2>7
        <3> QED
            BY <2>1, <2>3, <3>1 DEF RequestTrue
    <2>9. \A q \in Stops : RequestTrue(stop'[q], ssm')
        BY <2>4, <2>7, <2>8 DEF StopInv
    <2>10. TypeOK'
        BY <1>1, <1>2, <1>3, <2>1, <2>2 DEF StopInv, TypeOK
    <2>11. BegunOnce'
        BY <1>1, <1>3, <2>3 DEF StopInv, BegunOnce
    <2>12. CancelledByStop'
        BY <2>1, <2>3, <2>4 DEF StopInv, CancelledByStop
    <2> QED
        BY <2>6, <2>9, <2>10, <2>11, <2>12 DEF StopInv
<1>4. CASE /\ ssm[e] # "active"
           /\ UNCHANGED ssm
           /\ stop' = [stop EXCEPT ![r] =
                   [stop[r] EXCEPT !.todo = stop[r].todo \ {e}, !.finished = stop[r].finished \union {e}]]
    <2> DEFINE s == [old EXCEPT !.todo = old.todo \ {e}, !.finished = old.finished \union {e}]
    <2>1. /\ s \in StopRequest /\ s.at = "stopping" /\ s.named = old.named /\ s.from = old.from
          /\ s.todo = old.todo \ {e} /\ s.stopped = old.stopped /\ s.finished = old.finished \union {e}
        BY <1>1, <1>2 DEF StopRequest
    <2>2. stop' = [stop EXCEPT ![r] = s]
        BY <1>4
    <2> HIDE DEF s
    <2>3. RequestSound(s)
        BY <1>1, <1>2, <2>1 DEF RequestSound, InPlan
    <2>4. ssm[e] \in {"cancelled", "ended"}
        BY <1>1, <1>2, <1>4 DEF RequestTrue
    <2>5. RequestTrue(s, ssm)
        BY <1>1, <2>1, <2>4 DEF RequestTrue
    <2> QED
        BY <1>1, <1>4, <2>1, <2>2, <2>3, <2>5, RequestGoesOn
<1>5. CASE /\ UNCHANGED ssm
           /\ stop' = [stop EXCEPT ![r] =
                   [stop[r] EXCEPT !.todo = stop[r].todo \ {e}, !.failed = stop[r].failed \union {e}]]
    <2> DEFINE s == [old EXCEPT !.todo = old.todo \ {e}, !.failed = old.failed \union {e}]
    <2>1. /\ s \in StopRequest /\ s.at = "stopping" /\ s.named = old.named /\ s.from = old.from
          /\ s.todo = old.todo \ {e} /\ s.stopped = old.stopped /\ s.finished = old.finished
        BY <1>1, <1>2 DEF StopRequest
    <2>2. stop' = [stop EXCEPT ![r] = s]
        BY <1>5
    <2> HIDE DEF s
    <2>3. RequestSound(s) /\ RequestTrue(s, ssm)
        BY <1>1, <1>2, <2>1 DEF RequestSound, RequestTrue, InPlan
    <2> QED
        BY <1>1, <1>5, <2>1, <2>2, <2>3, RequestGoesOn
<1> QED
    BY <1>3, <1>4, <1>5 DEF StopExecution

LEMMA StopInvStep == StopInv /\ [Next]_vars => StopInv'
<1> SUFFICES ASSUME StopInv, [Next]_vars PROVE StopInv'
    OBVIOUS
<1>1. ASSUME NEW e \in Executions, StartExecution(e) \/ ExecutionEnds(e) PROVE StopInv'
    BY <1>1, StartsOnce, EndsUnderWay
<1>2. ASSUME NEW p \in Plans, ListExecutions(p) PROVE StopInv'
    BY <1>2, ListsOnly
<1>3. ASSUME NEW r \in Stops, NEW e \in Executions, NEW c \in Conversations, Ask(r, e, c) PROVE StopInv'
    BY <1>3, AsksForOwn
<1>4. ASSUME NEW r \in Stops, FindRuns(r) PROVE StopInv'
    BY <1>4, FindsSiblings
<1>5. ASSUME NEW r \in Stops, NEW e \in Executions, StopExecution(r, e) PROVE StopInv'
    BY <1>5, StopsOne
<1>6. ASSUME NEW r \in Stops, Answer(r) PROVE StopInv'
    BY <1>6, Answers
<1>7. CASE UNCHANGED vars
    BY <1>7 DEF vars, StopInv, TypeOK, BegunOnce, CancelledByStop
<1> QED
    BY <1>1, <1>2, <1>3, <1>4, <1>5, <1>6, <1>7 DEF Next

-----------------------------------------------------------------------------
LEMMA StopInvariant == Spec => []StopInv
<1> QED
    BY StopInvInit, StopInvStep, PTL DEF Spec

(* The variables of StopRun keep their types. *)
THEOREM StopTypeCorrect == Spec => []TypeOK
<1>1. StopInv => TypeOK
    BY DEF StopInv
<1> QED
    BY <1>1, StopInvariant, PTL

(* Whatever else is started, listed, stopped or lost meanwhile, a stop cancels  *)
(* runs of the plan it names only, asked from the conversation that made it,    *)
(* and what it reports as stopped or finished is (stop_run, emergency_stop).    *)
THEOREM StopsReachOwn == Spec => []StopReachesOwn
<1> QED
    BY StopInvReaches, StopInvariant, PTL

-----------------------------------------------------------------------------
(* Every location of the plan. *)

(* An execution the run card says Stop does not reach from e: it has no record,  *)
(* or its plan no list, with more than one execution.                           *)
Left(f, e) ==
    \/ f \notin recorded
    \/ PlanOf[e] \notin listed /\ \E g, h \in begun \cap Siblings(e) : g # h

(* A request asked once its plan's start was over has hold of every execution   *)
(* the plan has started, but those the card left out.                           *)
Reaches(s, e) ==
    \A f \in begun \cap Siblings(e) :
        f \in s.todo \union s.stopped \union s.finished \union s.failed \/ Left(f, e)

RequestAnswers(s) ==
    /\ s.at = "answered" => s.todo = {}
    /\ s.complete => \A e \in s.named :
         /\ PlanOf[e] \in over
         /\ s.at \in {"stopping", "answered"} => Reaches(s, e)

AllAnswered == \A r \in Stops : RequestAnswers(stop[r])

(* Once a plan's start is over, what it started and its records stay.           *)
LEMMA OverStays ==
    ASSUME StopInv, [Next]_vars, NEW p \in over
    PROVE  /\ p \in over' /\ (p \in listed' <=> p \in listed)
           /\ \A f \in Executions : PlanOf[f] = p =>
                (f \in begun' <=> f \in begun) /\ (f \in recorded' <=> f \in recorded)
<1>1. ASSUME NEW e \in Executions, StartExecution(e)
      PROVE  /\ over' = over /\ listed' = listed /\ PlanOf[e] # p
             /\ begun' = begun \union {e} /\ recorded' \in {recorded, recorded \union {e}}
    BY <1>1 DEF StartExecution
<1>2. ASSUME NEW q \in Plans, ListExecutions(q)
      PROVE  /\ over' = over \union {q} /\ q # p /\ begun' = begun /\ recorded' = recorded
             /\ listed' \in {listed, listed \union {q}}
    BY <1>2 DEF ListExecutions
<1>3. CASE UNCHANGED <<over, listed, begun, recorded>>
    BY <1>3
<1> QED
    BY <1>1, <1>2, <1>3 DEF Next, ExecutionEnds, Ask, FindRuns, StopExecution, Answer, vars

(* What a step may do to a request.                                             *)
Asked(s, t) ==
    /\ s.at = "idle" /\ t.at \in {"asked", "refused"}
    /\ \E e \in Executions : t.named = {e} /\ t.complete = (PlanOf[e] \in over)

Refused(s, t) == t.at = "refused" /\ t.named = s.named /\ t.complete = s.complete

FoundRuns(s, t) ==
    /\ s.at = "asked" /\ t.at = "stopping" /\ t.named = s.named /\ t.complete = s.complete
    /\ \E e \in s.named, c \in s.from : t.todo = PlanRunIds(e, c)

Stopping(s, t) ==
    /\ s.at = "stopping" /\ t.at = "stopping" /\ t.named = s.named /\ t.complete = s.complete
    /\ \A f \in s.todo \union s.stopped \union s.finished \union s.failed :
         f \in t.todo \union t.stopped \union t.finished \union t.failed

Answered(s, t) ==
    /\ s.at = "stopping" /\ t.at = "answered" /\ t.named = s.named /\ t.complete = s.complete
    /\ s.todo = {} /\ t.todo = {}
    /\ t.stopped = s.stopped /\ t.finished = s.finished /\ t.failed = s.failed

(* A step leaves a request alone, or takes it one of those steps further.     *)
LEMMA RequestStep ==
    ASSUME StopInv, [Next]_vars, NEW r \in Stops
    PROVE  \/ stop'[r] = stop[r]
           \/ Asked(stop[r], stop'[r]) \/ Refused(stop[r], stop'[r]) \/ FoundRuns(stop[r], stop'[r])
           \/ Stopping(stop[r], stop'[r]) \/ Answered(stop[r], stop'[r])
<1> DEFINE Goal == \/ stop'[r] = stop[r]
                   \/ Asked(stop[r], stop'[r]) \/ Refused(stop[r], stop'[r])
                   \/ FoundRuns(stop[r], stop'[r])
                   \/ Stopping(stop[r], stop'[r]) \/ Answered(stop[r], stop'[r])
<1>1. stop \in [Stops -> StopRequest]
    BY DEF StopInv, TypeOK
<1>2. ASSUME NEW q \in Stops, q # r, NEW s, stop' = [stop EXCEPT ![q] = s] PROVE Goal
    BY <1>1, <1>2
<1>3. ASSUME NEW s, stop' = [stop EXCEPT ![r] = s] PROVE stop'[r] = s
    BY <1>1, <1>3
<1>4. ASSUME NEW q \in Stops, NEW e \in Executions, NEW c \in Conversations, Ask(q, e, c) PROVE Goal
    <2> DEFINE s == [NoStop EXCEPT !.at = IF OwnRun(e, c) THEN "asked" ELSE "refused",
                                   !.named = {e}, !.from = {c}, !.complete = PlanOf[e] \in over]
    <2>1. stop' = [stop EXCEPT ![q] = s] /\ stop[q].at = "idle"
        BY <1>4 DEF Ask
    <2>2. s.at \in {"asked", "refused"} /\ s.named = {e} /\ s.complete = (PlanOf[e] \in over)
        BY DEF NoStop
    <2> HIDE DEF s
    <2>3. CASE q = r
        BY <1>3, <2>1, <2>2, <2>3 DEF Asked
    <2> QED
        BY <1>2, <2>1, <2>3
<1>5. ASSUME NEW q \in Stops, FindRuns(q) PROVE Goal
    <2>1. CASE stop' = [stop EXCEPT ![q].at = "refused"]
        <3> DEFINE s == [stop[q] EXCEPT !.at = "refused"]
        <3>1. stop' = [stop EXCEPT ![q] = s]
            BY <2>1
        <3>2. s.at = "refused" /\ s.named = stop[q].named /\ s.complete = stop[q].complete
            BY <1>1 DEF StopRequest
        <3> HIDE DEF s
        <3>3. CASE q = r
            BY <1>3, <3>1, <3>2, <3>3 DEF Refused
        <3> QED
            BY <1>2, <3>1, <3>3
    <2>2. ASSUME NEW e \in stop[q].named, NEW c \in stop[q].from,
                 stop' = [stop EXCEPT ![q] = [@ EXCEPT !.at = "stopping", !.ids = PlanRunIds(e, c),
                                                       !.todo = PlanRunIds(e, c)]]
          PROVE  Goal
        <3> DEFINE ids == PlanRunIds(e, c)
                   s == [stop[q] EXCEPT !.at = "stopping", !.ids = ids, !.todo = ids]
        <3>1. stop' = [stop EXCEPT ![q] = s]
            BY <2>2
        <3>2. /\ s.at = "stopping" /\ s.named = stop[q].named /\ s.complete = stop[q].complete
              /\ s.todo = ids
            BY <1>1 DEF StopRequest
        <3>3. stop[q].at = "asked"
            BY <1>5 DEF FindRuns
        <3>4. FoundRuns(stop[q], s)
            BY <3>2, <3>3 DEF FoundRuns
        <3> HIDE DEF s, ids
        <3>5. CASE q = r
            BY <1>3, <3>1, <3>4, <3>5
        <3> QED
            BY <1>2, <3>1, <3>5
    <2> QED
        BY <1>5, <2>1, <2>2 DEF FindRuns
<1>6. ASSUME NEW q \in Stops, NEW e \in Executions, StopExecution(q, e) PROVE Goal
    <2> DEFINE old == stop[q]
    <2>1. PICK s : /\ stop' = [stop EXCEPT ![q] = s] /\ old.at = "stopping"
                   /\ \/ s = [old EXCEPT !.todo = old.todo \ {e}, !.stopped = old.stopped \union {e}]
                      \/ s = [old EXCEPT !.todo = old.todo \ {e}, !.finished = old.finished \union {e}]
                      \/ s = [old EXCEPT !.todo = old.todo \ {e}, !.failed = old.failed \union {e}]
        BY <1>6 DEF StopExecution
    <2>2. old \in StopRequest
        BY <1>1
    <2>3. /\ s.at = old.at /\ s.named = old.named /\ s.complete = old.complete
          /\ s.todo = old.todo \ {e}
        BY <2>1, <2>2 DEF StopRequest
    <2>4. \/ s.stopped = old.stopped \union {e} /\ s.finished = old.finished /\ s.failed = old.failed
          \/ s.finished = old.finished \union {e} /\ s.stopped = old.stopped /\ s.failed = old.failed
          \/ s.failed = old.failed \union {e} /\ s.stopped = old.stopped /\ s.finished = old.finished
        BY <2>1, <2>2 DEF StopRequest
    <2>5. ASSUME NEW f \in old.todo \union old.stopped \union old.finished \union old.failed
          PROVE  f \in s.todo \union s.stopped \union s.finished \union s.failed
        BY <2>3, <2>4, <2>5
    <2>6. Stopping(old, s)
        BY <2>1, <2>3, <2>5 DEF Stopping
    <2> HIDE DEF old
    <2>7. CASE q = r
        BY <1>3, <2>1, <2>6, <2>7 DEF old
    <2> QED
        BY <1>2, <2>1, <2>7
<1>7. ASSUME NEW q \in Stops, Answer(q) PROVE Goal
    <2> DEFINE s == [stop[q] EXCEPT !.at = "answered"]
    <2>1. stop' = [stop EXCEPT ![q] = s] /\ stop[q].at = "stopping" /\ stop[q].todo = {}
        BY <1>7 DEF Answer
    <2>2. /\ s.at = "answered" /\ s.named = stop[q].named /\ s.complete = stop[q].complete
          /\ s.todo = stop[q].todo /\ s.stopped = stop[q].stopped
          /\ s.finished = stop[q].finished /\ s.failed = stop[q].failed
        BY <1>1 DEF StopRequest
    <2> HIDE DEF s
    <2>3. CASE q = r
        BY <1>3, <2>1, <2>2, <2>3 DEF Answered
    <2> QED
        BY <1>2, <2>1, <2>3
<1>8. CASE UNCHANGED stop
    BY <1>8
<1> QED
    BY <1>4, <1>5, <1>6, <1>7, <1>8 DEF Next, StartExecution, ExecutionEnds, ListExecutions, vars

(* What a request finds is every recorded execution its plan has started.       *)
LEMMA FindsAll ==
    ASSUME StopInv, NEW s, s \in StopRequest, InPlan(s), RequestTrue(s, ssm),
           NEW e \in s.named, NEW c \in s.from, NEW f \in begun \cap Siblings(e)
    PROVE  f \in PlanRunIds(e, c) \/ Left(f, e)
<1>1. e \in Executions /\ e \in begun /\ c = Conversation[PlanOf[e]] /\ s.named = {e}
    BY DEF InPlan, RequestTrue, StopInv, BegunOnce
<1>2. f \in Executions /\ PlanOf[f] = PlanOf[e] /\ f \in begun
    BY DEF Siblings
<1>3. CASE PlanOf[e] \in listed
    BY <1>1, <1>2, <1>3 DEF PlanRunIds, OwnRun, Left, Siblings
<1>4. CASE PlanOf[e] \notin listed
    <2>1. e \in begun \cap Siblings(e)
        BY <1>1 DEF Siblings
    <2>2. f # e => Left(f, e)
        BY <1>4, <2>1 DEF Left
    <2>3. e \in PlanRunIds(e, c)
        BY DEF PlanRunIds
    <2> QED
        BY <2>2, <2>3
<1> QED
    BY <1>3, <1>4

(* Every step keeps what requests have hold of.                                 *)
LEMMA AllAnsweredStep ==
    ASSUME StopInv, AllAnswered, [Next]_vars
    PROVE  AllAnswered'
<1>1. StopInv' /\ \A r \in Stops : RequestSound(stop[r]) /\ RequestTrue(stop[r], ssm)
    BY StopInvStep DEF StopInv
<1> DEFINE Holds(t, e, f) == f \in t.todo \union t.stopped \union t.finished \union t.failed \/ Left(f, e)'
           Good(t) == /\ t.at = "answered" => t.todo = {}
                      /\ t.complete => \A e \in t.named :
                           /\ PlanOf[e] \in over'
                           /\ t.at \in {"stopping", "answered"} =>
                                \A f \in begun' \cap Siblings(e) : Holds(t, e, f)
<1>2. ASSUME NEW e \in Executions, PlanOf[e] \in over
      PROVE  /\ PlanOf[e] \in over' /\ begun' \cap Siblings(e) = begun \cap Siblings(e)
             /\ \A f \in begun \cap Siblings(e) : Left(f, e) => Left(f, e)'
    <2>1. /\ PlanOf[e] \in over' /\ (PlanOf[e] \in listed' <=> PlanOf[e] \in listed)
          /\ \A f \in Executions : PlanOf[f] = PlanOf[e] =>
               (f \in begun' <=> f \in begun) /\ (f \in recorded' <=> f \in recorded)
        BY <1>2, OverStays
    <2>2. begun' \cap Siblings(e) = begun \cap Siblings(e)
        BY <2>1 DEF Siblings
    <2>3. \A f \in begun \cap Siblings(e) : f \in recorded' <=> f \in recorded
        BY <2>1 DEF Siblings
    <2>4. ASSUME NEW f \in begun \cap Siblings(e), Left(f, e) PROVE Left(f, e)'
        <3>1. CASE f \notin recorded
            BY <2>3, <3>1 DEF Left
        <3>2. CASE PlanOf[e] \notin listed /\ \E g, h \in begun \cap Siblings(e) : g # h
            <4>1. PlanOf[e] \notin listed' /\ \E g, h \in begun' \cap Siblings(e) : g # h
                BY <2>1, <2>2, <3>2
            <4> QED
                BY <4>1 DEF Left, Siblings
        <3> QED
            BY <2>4, <3>1, <3>2 DEF Left
    <2> QED
        BY <2>1, <2>2, <2>4
<1>3. ASSUME NEW r \in Stops PROVE Good(stop'[r])
    <2> DEFINE s == stop[r]
               t == stop'[r]
    <2>1. RequestAnswers(s) /\ s.named \subseteq Executions /\ RequestSound(s) /\ RequestTrue(s, ssm)
        BY <1>1 DEF AllAnswered, RequestSound, StopRequest
    <2>2. ASSUME t.at = s.at, t.named = s.named, t.complete = s.complete,
                 t.at = "answered" => t.todo = {},
                 \A f \in s.todo \union s.stopped \union s.finished \union s.failed :
                   f \in t.todo \union t.stopped \union t.finished \union t.failed
          PROVE  Good(t)
        <3>1. ASSUME t.complete, NEW e \in t.named
              PROVE  /\ PlanOf[e] \in over'
                     /\ t.at \in {"stopping", "answered"} =>
                          \A f \in begun' \cap Siblings(e) : Holds(t, e, f)
            <4>1. e \in Executions /\ PlanOf[e] \in over
                BY <2>1, <2>2, <3>1 DEF RequestAnswers
            <4>2. ASSUME t.at \in {"stopping", "answered"}, NEW f \in begun' \cap Siblings(e)
                  PROVE  Holds(t, e, f)
                <5>1. f \in begun \cap Siblings(e)
                    BY <1>2, <4>1, <4>2
                <5>2. f \in s.todo \union s.stopped \union s.finished \union s.failed \/ Left(f, e)
                    BY <2>1, <2>2, <3>1, <4>2, <5>1 DEF RequestAnswers, Reaches
                <5>3. Left(f, e) => Left(f, e)'
                    BY <1>2, <4>1, <5>1
                <5> QED
                    BY <2>2, <5>2, <5>3
            <4> QED
                BY <1>2, <4>1, <4>2
        <3> QED
            BY <2>2, <3>1
    <2>3. CASE t = s
        BY <2>1, <2>2, <2>3 DEF RequestAnswers
    <2>4. CASE Stopping(s, t)
        BY <2>2, <2>4 DEF Stopping
    <2>5. CASE Asked(s, t)
        <3>1. PICK e \in Executions : t.named = {e} /\ t.complete = (PlanOf[e] \in over)
            BY <2>5 DEF Asked
        <3>2. t.at \notin {"stopping", "answered"}
            BY <2>5 DEF Asked
        <3>3. t.complete => PlanOf[e] \in over'
            BY <1>2, <3>1
        <3> QED
            BY <3>1, <3>2, <3>3
    <2>6. CASE Refused(s, t)
        <3>1. t.at = "refused" /\ t.named = s.named /\ t.complete = s.complete
            BY <2>6 DEF Refused
        <3>2. t.complete => \A e \in t.named : PlanOf[e] \in over'
            BY <1>2, <2>1, <3>1 DEF RequestAnswers
        <3> QED
            BY <3>1, <3>2
    <2>7. CASE FoundRuns(s, t)
        <3>1. PICK e \in s.named, c \in s.from : t.todo = PlanRunIds(e, c)
            BY <2>7 DEF FoundRuns
        <3>2. s \in StopRequest /\ InPlan(s) /\ s.named = {e} /\ e \in Executions
            BY <2>1, <2>7, <3>1 DEF FoundRuns, RequestSound, InPlan
        <3>3. t.at = "stopping" /\ t.named = {e} /\ t.complete = s.complete
            BY <2>7, <3>2 DEF FoundRuns
        <3>4. ASSUME t.complete, NEW f \in begun' \cap Siblings(e)
              PROVE  PlanOf[e] \in over' /\ Holds(t, e, f)
            <4>1. PlanOf[e] \in over
                BY <2>1, <3>1, <3>3, <3>4 DEF RequestAnswers
            <4>2. f \in begun \cap Siblings(e) /\ PlanOf[e] \in over'
                BY <1>2, <3>2, <3>4, <4>1
            <4>3. f \in PlanRunIds(e, c) \/ Left(f, e)
                BY <2>1, <3>1, <3>2, <4>2, FindsAll
            <4>4. Left(f, e) => Left(f, e)'
                BY <1>2, <3>2, <4>1, <4>2
            <4> QED
                BY <3>1, <4>2, <4>3, <4>4
        <3>5. t.complete => PlanOf[e] \in over'
            BY <1>2, <2>1, <3>1, <3>2, <3>3 DEF RequestAnswers
        <3> QED
            BY <3>3, <3>4, <3>5
    <2>8. CASE Answered(s, t)
        <3>1. t.at = "answered" /\ t.named = s.named /\ t.complete = s.complete /\ t.todo = {}
            BY <2>8 DEF Answered
        <3>2. ASSUME t.complete, NEW e \in t.named
              PROVE  PlanOf[e] \in over' /\ \A f \in begun' \cap Siblings(e) : Holds(t, e, f)
            <4>1. e \in Executions /\ PlanOf[e] \in over /\ Reaches(s, e)
                BY <2>1, <2>8, <3>1, <3>2 DEF RequestAnswers, Answered
            <4>2. ASSUME NEW f \in begun' \cap Siblings(e) PROVE Holds(t, e, f)
                <5>1. f \in begun \cap Siblings(e)
                    BY <1>2, <4>1, <4>2
                <5>2. f \in s.todo \union s.stopped \union s.finished \union s.failed \/ Left(f, e)
                    BY <4>1, <5>1 DEF Reaches
                <5>3. Left(f, e) => Left(f, e)'
                    BY <1>2, <4>1, <5>1
                <5> QED
                    BY <2>8, <5>2, <5>3 DEF Answered
            <4> QED
                BY <1>2, <4>1, <4>2
        <3> QED
            BY <3>1, <3>2
    <2> HIDE DEF Good
    <2> QED
        BY <2>3, <2>4, <2>5, <2>6, <2>7, <2>8, RequestStep
<1>4. AllAnswered' <=> \A r \in Stops : Good(stop'[r])
    BY DEF AllAnswered, RequestAnswers, Reaches
<1> HIDE DEF Good
<1> QED
    BY <1>3, <1>4

(* A Stop asked for once the plan's start was over leaves no execution of the    *)
(* plan going, in any account and Region, but those its answer names as not      *)
(* stopped and those the run card said it does not reach (stop_run, run_card).   *)
THEOREM StopsAll == Spec => []EveryLocationAnswered
<1>1. Init => AllAnswered
    BY DEF Init, AllAnswered, RequestAnswers, NoStop
<1>2. StopInv /\ AllAnswered => EveryLocationAnswered
    <2> SUFFICES ASSUME StopInv, AllAnswered, NEW r \in Stops, stop[r].at = "answered",
                        stop[r].complete, NEW e \in stop[r].named, NEW f \in begun \cap Siblings(e)
                 PROVE  \/ ssm[f] # "active"
                        \/ f \in stop[r].failed \union RunCard(PlanOf[e]).unrecorded
                        \/ RunCard(PlanOf[e]).oneByOne
        BY DEF EveryLocationAnswered
    <2>1. /\ stop[r].todo = {}
          /\ f \in stop[r].todo \union stop[r].stopped \union stop[r].finished \union stop[r].failed
               \/ Left(f, e)
        BY DEF AllAnswered, RequestAnswers, Reaches
    <2>2. f \in stop[r].stopped \union stop[r].finished => ssm[f] # "active"
        BY DEF StopInv, RequestTrue
    <2> DEFINE ids == {g \in begun : PlanOf[g] = PlanOf[e]}
    <2>3. /\ RunCard(PlanOf[e]).unrecorded = ids \ recorded
          /\ RunCard(PlanOf[e]).oneByOne = (PlanOf[e] \notin listed /\ \E g, h \in ids : g # h)
        BY DEF RunCard
    <2>4. begun \cap Siblings(e) = ids
        BY DEF StopInv, TypeOK, Siblings
    <2> HIDE DEF ids
    <2> QED
        BY <2>1, <2>2, <2>3, <2>4 DEF Left
<1>3. StopInv /\ AllAnswered /\ [Next]_vars => AllAnswered'
    BY AllAnsweredStep
<1> QED
    BY <1>1, <1>2, <1>3, StopInvariant, PTL DEF Spec

=============================================================================
