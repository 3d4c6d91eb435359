---------------------------- MODULE FixVerification ----------------------------
(* What Patchy says of a CVE on an instance (helper/verification.py): fixed once *)
(* Inspector has closed its finding, and else why the finding is still open, from *)
(* the instance's own patch records.  Inspector looks now and then, the records  *)
(* are those of the last patch operation, and a fix can be rolled back.          *)
EXTENDS Naturals, FiniteSets, FiniteSetsExt

CONSTANTS
    Packages,     \* the CVE's packages on the instance
    MaxScans      \* Inspector scans

VARIABLES
    clock,        \* counts Inspector's scans
    package,      \* "vulnerable", "fixed", or "pending": fixed, but the old one still runs
    record,       \* SSM's patch record of each package: [state, at]
    closed,       \* when findings were closed
    active,       \* when the open finding was last observed, or NotOpen
    gone,         \* the instance is terminated
    named,        \* Inspector names the fixed versions
    answer

vars == <<clock, package, record, closed, active, gone, named, answer>>

NotOpen == MaxScans + 1
NoAnswer == [status |-> "none", cause |-> "none", stateRead |-> TRUE]

Init ==
    /\ clock = 0
    /\ package = [p \in Packages |-> "vulnerable"]
    /\ record = [p \in Packages |-> [state |-> "vulnerable", at |-> 0]]
    /\ closed = {}
    /\ active \in {0, NotOpen}
    /\ gone = FALSE
    /\ named \in BOOLEAN
    /\ answer = NoAnswer

InEffect == \A p \in Packages : package[p] = "fixed"
RecordsAreCurrent == \A p \in Packages : record[p].state = package[p]

\* An answer is about the world it was given in: a change of the world drops it.
Changes == answer' = NoAnswer /\ UNCHANGED named

Install(p) ==
    /\ ~gone /\ package[p] = "vulnerable"
    /\ \E now \in {"fixed", "pending"} : package' = [package EXCEPT ![p] = now]
    /\ record' = [q \in Packages |-> [state |-> package'[q], at |-> IF q = p THEN clock ELSE record[q].at]]
    /\ Changes /\ UNCHANGED <<clock, closed, active, gone>>

Reboot ==
    /\ ~gone
    /\ package' = [p \in Packages |-> IF package[p] = "pending" THEN "fixed" ELSE package[p]]
    /\ Changes /\ UNCHANGED <<clock, record, closed, active, gone>>

\* yum history undo: nothing is recorded until the next patch operation.
RollBack(p) ==
    /\ ~gone
    /\ package' = [package EXCEPT ![p] = "vulnerable"]
    /\ Changes /\ UNCHANGED <<clock, record, closed, active, gone>>

PatchScan ==
    /\ ~gone
    /\ record' = [p \in Packages |-> [record[p] EXCEPT !.state = package[p]]]
    /\ Changes /\ UNCHANGED <<clock, package, closed, active, gone>>

InspectorScan ==
    /\ ~gone /\ clock < MaxScans
    /\ clock' = clock + 1
    /\ IF InEffect
       THEN /\ closed' = closed \union (IF active = NotOpen THEN {} ELSE {clock'})
            /\ active' = NotOpen
       ELSE /\ active' = clock'
            /\ UNCHANGED closed
    /\ Changes /\ UNCHANGED <<package, record, gone>>

\* Inspector closes the findings of a terminated instance.
Terminate ==
    /\ gone' = TRUE
    /\ closed' = closed \union (IF active = NotOpen THEN {} ELSE {clock})
    /\ active' = NotOpen
    /\ Changes /\ UNCHANGED <<clock, package, record>>

-----------------------------------------------------------------------------
(* verify and classify. *)

Installed == {"fixed", "pending"}

\* The packages recorded at their fixed version, if Inspector names it and every one is.
FixedRecords == IF \A p \in Packages : record[p].state \in Installed THEN Packages ELSE {}

PendingReboot(records) == \E p \in records : record[p].state = "pending"

\* Without versions the cause is told from the times.
CauseFromTimes ==
    LET installs == {record[p].at : p \in {q \in Packages : record[q].state \in Installed}}
    IN  IF PendingReboot(Packages) THEN "pending_reboot"
        ELSE IF installs # {} /\ Max(installs) >= active THEN "awaiting_rescan" ELSE "fix_not_installed"

Cause(fixAvailable) ==
    IF ~fixAvailable THEN "no_fix_available"
    ELSE IF ~named THEN CauseFromTimes
    ELSE IF FixedRecords = {} THEN "fix_not_installed"
    ELSE IF PendingReboot(FixedRecords) THEN "pending_reboot" ELSE "awaiting_rescan"

\* Any finding closed: not what the code does.
ClosedEver == closed # {}

\* Closed, and not seen open again since any of the times it was closed.
IsFixed == closed # {} /\ (active # NotOpen => \A c \in closed : active <= c)

Classified(fixAvailable) ==
    CASE closed = {} /\ active = NotOpen -> [status |-> "no_finding", cause |-> "none"]
      [] IsFixed                         -> [status |-> "fixed", cause |-> "none"]
      [] OTHER                           -> [status |-> "open", cause |-> Cause(fixAvailable)]

Answered(result, stateRead) == [status |-> result.status, cause |-> result.cause, stateRead |-> stateRead]

\* One row of verify: EC2, Inspector or SSM may fail, or the instance be looked for elsewhere.
Verify ==
    /\ \E stateRead, listed, clientsRead, findingsRead, fixAvailable \in BOOLEAN :
         answer' = Answered(
            IF ~clientsRead THEN [status |-> "unknown", cause |-> "none"]
            ELSE IF stateRead /\ gone /\ listed THEN [status |-> "terminated", cause |-> "none"]
            ELSE IF stateRead /\ ~listed THEN [status |-> "unlocated", cause |-> "none"]
            ELSE IF ~findingsRead THEN [status |-> "unknown", cause |-> "none"]
            ELSE Classified(fixAvailable), stateRead)
    /\ UNCHANGED <<clock, package, record, closed, active, gone, named>>

Next ==
    \/ \E p \in Packages : Install(p) \/ RollBack(p)
    \/ Reboot \/ PatchScan \/ InspectorScan \/ Terminate
    \/ Verify

Spec == Init /\ [][Next]_vars

-----------------------------------------------------------------------------
TypeOK ==
    /\ clock \in 0..MaxScans
    /\ package \in [Packages -> {"vulnerable", "pending", "fixed"}]
    /\ record \in [Packages -> [state: {"vulnerable", "pending", "fixed"}, at: 0..MaxScans]]
    /\ closed \subseteq 0..MaxScans /\ active \in 0..NotOpen
    /\ answer.status \in {"none", "unknown", "terminated", "unlocated", "no_finding", "fixed", "open"}

(* "fixed" is said only when Inspector's last look found every package fixed and *)
(* in effect, however often the fix was rolled back before: the finding closed   *)
(* then and hasn't been open since.  Findings that closed because the instance   *)
(* is terminated aren't a fix when EC2 could be asked (verification.py: "a       *)
(* terminated instance is reported as terminated").                              *)
FixedIsFixed ==
    answer.status = "fixed" => active = NotOpen /\ (gone => ~answer.stateRead)

(* The cause named for an open finding is the real one, when the patch records   *)
(* are current and Inspector names the versions: a package of the CVE is not     *)
(* updated, or waits for a reboot, or nothing is left but Inspector's rescan     *)
(* (classify: "decide from what's installed, not from timings").                 *)
CauseIsTrue ==
    answer.status = "open" /\ named /\ RecordsAreCurrent =>
        CASE answer.cause = "awaiting_rescan"   -> InEffect
          [] answer.cause = "pending_reboot"    -> (\E p \in Packages : package[p] = "pending")
                                                   /\ \A p \in Packages : package[p] # "vulnerable"
          [] answer.cause = "fix_not_installed" -> \E p \in Packages : package[p] = "vulnerable"
          [] OTHER                              -> answer.cause = "no_fix_available"

=============================================================================
