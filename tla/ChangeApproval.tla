--------------------------- MODULE ChangeApproval ---------------------------
(***************************************************************************)
(* What the approval of a change promises, whatever requests, retries and  *)
(* crashes lie behind it: a proposed change is decided at most once, by an *)
(* operator; only an approved change runs, and it runs at most once.       *)
(***************************************************************************)
EXTENDS Naturals

CONSTANTS Plan, User, Operator

VARIABLES
    status,     \* "absent", "proposed", "cancelled", or "approved"
    approver,   \* who approved it; nobody yet is the empty set
    runs        \* how often it has run

vars == <<status, approver, runs>>

Init ==
    /\ status = [p \in Plan |-> "absent"]
    /\ approver = [p \in Plan |-> {}]
    /\ runs = [p \in Plan |-> 0]

Propose(p) ==
    /\ status[p] = "absent"
    /\ status' = [status EXCEPT ![p] = "proposed"]
    /\ UNCHANGED <<approver, runs>>

Approve(p, u) ==
    /\ status[p] = "proposed"
    /\ u \in Operator
    /\ status' = [status EXCEPT ![p] = "approved"]
    /\ approver' = [approver EXCEPT ![p] = {u}]
    /\ UNCHANGED runs

Cancel(p) ==
    /\ status[p] = "proposed"
    /\ status' = [status EXCEPT ![p] = "cancelled"]
    /\ UNCHANGED <<approver, runs>>

Run(p) ==
    /\ status[p] = "approved"
    /\ runs[p] = 0
    /\ runs' = [runs EXCEPT ![p] = 1]
    /\ UNCHANGED <<status, approver>>

Next == \E p \in Plan :
    Propose(p) \/ Cancel(p) \/ Run(p) \/ \E u \in User : Approve(p, u)

Spec == Init /\ [][Next]_vars

=============================================================================
