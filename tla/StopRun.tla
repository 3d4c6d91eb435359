------------------------------- MODULE StopRun -------------------------------
(* Stop on a run card: stop_run (helper/tools/plan_tools.py) cancels the        *)
(* execution it names and every other execution of the same plan, which it      *)
(* finds through plan-executions/.  That list is written once the plan's start  *)
(* is over, and each execution's own record when it starts; either write may    *)
(* fail.  Runs end, and other stops come, between any two calls.                *)

CONSTANTS
    Plans, Executions, Conversations, Stops,
    PlanOf,        \* the plan that starts each execution
    Conversation,  \* the conversation each plan was made in
    Faults         \* which of "record", "list", "read" and "stop" may fail

ASSUME PlanOfAssumption == PlanOf \in [Executions -> Plans]
ASSUME ConversationAssumption == Conversation \in [Plans -> Conversations]

VARIABLES
    ssm,       \* each Automation execution: "none", "active", "cancelled" or "ended"
    recorded,  \* executions with a run-executions/ record
    listed,    \* plans with a plan-executions/ record
    begun,     \* executions a plan has started: what its list names
    over,      \* plans whose start is over
    stop       \* each stop request

vars == <<ssm, recorded, listed, begun, over, stop>>

NoStop == [at |-> "idle", named |-> {}, from |-> {}, complete |-> FALSE, ids |-> {},
           todo |-> {}, stopped |-> {}, finished |-> {}, failed |-> {}]

StopRequest ==
    [at: {"idle", "asked", "stopping", "answered", "refused"},
     named: SUBSET Executions, from: SUBSET Conversations, complete: BOOLEAN,
     ids: SUBSET Executions, todo: SUBSET Executions, stopped: SUBSET Executions,
     finished: SUBSET Executions, failed: SUBSET Executions]

Siblings(e) == {f \in Executions : PlanOf[f] = PlanOf[e]}

Init ==
    /\ ssm = [e \in Executions |-> "none"]
    /\ recorded = {} /\ listed = {} /\ begun = {} /\ over = {}
    /\ stop = [r \in Stops |-> NoStop]

-----------------------------------------------------------------------------
(* The start of a plan, as far as Stop sees it. *)

\* One location's execution starts and is recorded at once (on_started).
StartExecution(e) ==
    /\ PlanOf[e] \notin over
    /\ e \notin begun
    /\ ssm' = [ssm EXCEPT ![e] = "active"]
    /\ begun' = begun \union {e}
    /\ \/ recorded' = recorded \union {e}
       \/ "record" \in Faults /\ UNCHANGED recorded
    /\ UNCHANGED <<listed, over, stop>>

\* The start is over, with the locations it could start; a record that failed is not retried.
ListExecutions(p) ==
    /\ p \notin over
    /\ over' = over \union {p}
    /\ \/ \E e \in begun : PlanOf[e] = p /\ listed' = listed \union {p}
       \/ (\A e \in begun : PlanOf[e] # p) /\ UNCHANGED listed
       \/ "list" \in Faults /\ UNCHANGED listed
    /\ UNCHANGED <<ssm, recorded, begun, stop>>

\* A run that has ended isn't named: not what the code does.
ExecutionEndsUnnamed(e) ==
    /\ ssm[e] = "active"
    /\ ssm' = [ssm EXCEPT ![e] = "timed out"]
    /\ UNCHANGED <<recorded, listed, begun, over, stop>>

ExecutionEnds(e) ==
    /\ ssm[e] = "active"
    /\ ssm' = [ssm EXCEPT ![e] = "ended"]
    /\ UNCHANGED <<recorded, listed, begun, over, stop>>

-----------------------------------------------------------------------------
(* Stop. *)

\* Any run on record: not what the code does.
OwnRunUnchecked(e, c) == e \in recorded

\* A run's record names the conversation of its plan.
OwnRun(e, c) == e \in recorded /\ Conversation[PlanOf[e]] = c

\* The operator presses Stop; the UI server knows only runs of the conversation it is asked from.
Ask(r, e, c) ==
    /\ stop[r].at = "idle"
    /\ e \in begun
    /\ stop' = [stop EXCEPT ![r] =
         [NoStop EXCEPT !.at = IF OwnRun(e, c) THEN "asked" ELSE "refused",
                        !.named = {e}, !.from = {c}, !.complete = PlanOf[e] \in over]]
    /\ UNCHANGED <<ssm, recorded, listed, begun, over>>

\* Only the execution that is named: not what the code does.
PlanRunIdsAsNamed(e, c) == {e}

\* The execution itself, and those on its plan's list whose record names this conversation and plan.
PlanRunIds(e, c) ==
    {e} \union (IF PlanOf[e] \in listed THEN {f \in Siblings(e) \cap begun : OwnRun(f, c)} ELSE {})

FindRuns(r) ==
    /\ stop[r].at = "asked"
    /\ \/ \E e \in stop[r].named, c \in stop[r].from :
            stop' = [stop EXCEPT ![r] = [@ EXCEPT !.at = "stopping", !.ids = PlanRunIds(e, c),
                                                  !.todo = PlanRunIds(e, c)]]
       \/ "read" \in Faults /\ stop' = [stop EXCEPT ![r].at = "refused"]
    /\ UNCHANGED <<ssm, recorded, listed, begun, over>>

\* emergency_stop checks the record again, then cancels; SSM refuses one that is no longer active.
StopExecution(r, e) ==
    LET s == stop[r] IN
    /\ s.at = "stopping"
    /\ e \in s.todo
    /\ \/ /\ ssm[e] = "active" /\ \A c \in s.from : OwnRun(e, c)
          /\ ssm' = [ssm EXCEPT ![e] = "cancelled"]
          /\ stop' = [stop EXCEPT ![r] = [s EXCEPT !.todo = s.todo \ {e}, !.stopped = s.stopped \union {e}]]
       \/ /\ ssm[e] # "active"
          /\ UNCHANGED ssm
          /\ stop' = [stop EXCEPT ![r] = [s EXCEPT !.todo = s.todo \ {e}, !.finished = s.finished \union {e}]]
       \/ /\ "stop" \in Faults
          /\ UNCHANGED ssm
          /\ stop' = [stop EXCEPT ![r] = [s EXCEPT !.todo = s.todo \ {e}, !.failed = s.failed \union {e}]]
    /\ UNCHANGED <<recorded, listed, begun, over>>

Answer(r) ==
    /\ stop[r].at = "stopping"
    /\ stop[r].todo = {}
    /\ stop' = [stop EXCEPT ![r].at = "answered"]
    /\ UNCHANGED <<ssm, recorded, listed, begun, over>>

\* What the start's card warns of: executions that can't be stopped from it, and a list that wasn't saved.
RunCard(p) ==
    LET ids == {e \in begun : PlanOf[e] = p}
    IN  [unrecorded |-> ids \ recorded,
         oneByOne |-> p \notin listed /\ \E e, f \in ids : e # f]

\* What the card of the stop says.
StopCard(s) ==
    IF s.failed # {} /\ s.stopped = {} /\ s.finished = {} THEN "stop_failed"
    ELSE IF s.stopped = {} /\ s.finished # {} THEN "finished"
    ELSE "stopping"

Next ==
    \/ \E e \in Executions : StartExecution(e) \/ ExecutionEnds(e)
    \/ \E p \in Plans : ListExecutions(p)
    \/ \E r \in Stops :
         \/ \E e \in Executions, c \in Conversations : Ask(r, e, c)
         \/ FindRuns(r)
         \/ \E e \in Executions : StopExecution(r, e)
         \/ Answer(r)

Spec == Init /\ [][Next]_vars

-----------------------------------------------------------------------------
TypeOK ==
    /\ ssm \in [Executions -> {"none", "active", "cancelled", "ended"}]
    /\ recorded \subseteq Executions
    /\ begun \subseteq Executions
    /\ listed \subseteq Plans
    /\ over \subseteq Plans
    /\ stop \in [Stops -> StopRequest]

(* A Stop asked for once the plan's start was over leaves no execution of the   *)
(* plan going on, in any account and Region, but those its answer names as not  *)
(* stopped and those the run card said Stop does not reach (stop_run, run_card).*)
EveryLocationAnswered ==
    \A r \in Stops : stop[r].at = "answered" /\ stop[r].complete =>
        \A e \in stop[r].named : \A f \in begun \cap Siblings(e) :
            \/ ssm[f] # "active"
            \/ f \in stop[r].failed \union RunCard(PlanOf[e]).unrecorded
            \/ RunCard(PlanOf[e]).oneByOne

(* Nobody stops a run from a conversation that did not start it: an execution   *)
(* that is cancelled is one of the ids of a stop asked from its plan's own      *)
(* conversation (emergency_stop: "Only the conversation that started a run can  *)
(* stop it").                                                                   *)
StoppedFromOwnConversation ==
    \A e \in Executions : ssm[e] = "cancelled" =>
        \E r \in Stops : e \in stop[r].stopped /\ stop[r].from = {Conversation[PlanOf[e]]}

(* A stop never reaches another plan, even one of the same conversation, and    *)
(* whatever it reports as stopped or finished has stopped or finished.          *)
StopsItsPlanOnly ==
    \A r \in Stops : \A f \in stop[r].stopped \union stop[r].finished :
        /\ ssm[f] \in {"cancelled", "ended"}
        /\ \A e \in stop[r].named : PlanOf[f] = PlanOf[e]

(* A stop reaches only runs of its plan, from the conversation that started     *)
(* them: both of the above.                                                     *)
StopReachesOwn == StoppedFromOwnConversation /\ StopsItsPlanOnly

(* When the card says that every location had already finished (stop_card), no  *)
(* execution the request was to stop is still going.                            *)
FinishedCardIsTrue ==
    \A r \in Stops : stop[r].at = "answered" /\ StopCard(stop[r]) = "finished" =>
        \A e \in stop[r].ids : ssm[e] # "active"

=============================================================================
