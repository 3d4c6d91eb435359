------------------------------ MODULE RunLife ------------------------------
(***************************************************************************)
(* The life of a run, as the run guard and a rollback rely on it: a run    *)
(* SSM has started may get a pending report, and the pending report stays  *)
(* until the run has ended and its patch commands have finished.  RunStart *)
(* and Reconcile each implement it, one from the side of the runtime that  *)
(* starts runs, one from the side of the reconciler that reports them.     *)
(***************************************************************************)
CONSTANT Run

VARIABLES
    status,     \* the run's Automation status
    busy,       \* the runs whose patch commands are still on the instances
    report      \* "none", "pending", then "written": reported, or given up

vars == <<status, busy, report>>

Init ==
    /\ status = [e \in Run |-> "none"]
    /\ busy = {}
    /\ report = [e \in Run |-> "none"]

Start(e) ==
    /\ status[e] = "none"
    /\ status' = [status EXCEPT ![e] = "active"]
    /\ busy' = busy \union {e}
    /\ UNCHANGED report

Await(e) ==
    /\ status[e] # "none"
    /\ report[e] = "none"
    /\ report' = [report EXCEPT ![e] = "pending"]
    /\ UNCHANGED <<status, busy>>

FinishCommands(e) ==
    /\ status[e] # "none"
    /\ busy' = busy \ {e}
    /\ UNCHANGED <<status, report>>

Succeed(e) ==
    /\ status[e] = "active"
    /\ status' = [status EXCEPT ![e] = "success"]
    /\ busy' = busy \ {e}
    /\ UNCHANGED report

EndEarly(e) ==
    /\ status[e] = "active"
    /\ status' = [status EXCEPT ![e] = "ended early"]
    /\ UNCHANGED <<busy, report>>

Report(e) ==
    /\ report[e] = "pending"
    /\ status[e] # "active"
    /\ e \notin busy
    /\ report' = [report EXCEPT ![e] = "written"]
    /\ UNCHANGED <<status, busy>>

Next == \E e \in Run :
    Start(e) \/ Await(e) \/ FinishCommands(e) \/ Succeed(e) \/ EndEarly(e) \/ Report(e)

Spec == Init /\ [][Next]_vars

=============================================================================
