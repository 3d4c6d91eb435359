----------------------------- MODULE RollbackCheck -----------------------------
(* Whether a rollback worked (patch_tools.verify_rollback): the run's status, a  *)
(* scan started by a first call and awaited by later ones, and the patch states  *)
(* compared with snapshots taken around the patch run.  The rollback may have    *)
(* one execution per location, of which one is asked about; patch states are     *)
(* those of the last scan; patches are released meanwhile.                       *)
EXTENDS Naturals, FiniteSets

CONSTANTS
    Instances,    \* rolled back
    Home,         \* the location of each
    Patches,      \* how many patches there were for each
    Installs,     \* what the patch run may have installed: [Instances -> 0..Patches]
    Releases      \* how many new patches may be released meanwhile

VARIABLES
    before,       \* the patches of each that the patch run installed
    applied,      \* those installed now
    released,     \* new patches released since
    state,        \* SSM's patch state of each, or NoData
    pre, post,    \* the operator's snapshots
    run,          \* the rollback in each location
    named,        \* the locations of the execution asked about
    scan,         \* the scan in each location
    scanId,       \* the location of the scan an answer names, or NoScan
    answer

vars == <<before, applied, released, state, pre, post, run, named, scan, scanId, answer>>
given == <<before, pre, post, named>>

Locations == {Home[i] : i \in Instances}
NoData == [missing |-> 0, installed |-> Patches + 2]
Absent == [missing |-> 0, installed |-> Patches + 3]
NoScan == "no scan"

Counts(installed, new) == [missing |-> Patches + new - installed, installed |-> installed]

Init ==
    /\ before \in Installs /\ applied = before
    /\ released = 0
    /\ \E scanned \in SUBSET Instances :
         state = [i \in Instances |-> IF i \in scanned THEN Counts(before[i], 0) ELSE NoData]
    /\ post \in {p \in [Instances -> {NoData, Absent} \union {Counts(n, 0) : n \in 0..Patches}] :
                    \A i \in Instances : p[i] \in {state[i], Absent}}
    /\ pre \in {[i \in Instances |-> c] : c \in {Absent, Counts(Patches, 0)} \union {Counts(before[i], 0) : i \in Instances}}
    /\ (\A i \in Instances : post[i] # Absent) => pre = [i \in Instances |-> Absent]
    /\ run = [l \in Locations |-> "running"]
    /\ named \in {Locations} \union {{l} : l \in Locations}
    /\ scan = [l \in Locations |-> "none"]
    /\ scanId = NoScan
    /\ answer = "none"

\* The rollback's steps in a location: an execution succeeds where it found nothing to undo, too.
RunEnds(l) ==
    /\ run[l] = "running"
    /\ \E end \in {"Success", "Failed"} : run' = [run EXCEPT ![l] = end]
    /\ applied' \in {a \in [Instances -> 0..Patches] :
                        \A i \in Instances : a[i] = applied[i] \/ (Home[i] = l /\ a[i] = 0)}
    /\ answer' = "none" /\ UNCHANGED <<given, released, state, scan, scanId>>

Release ==
    /\ released < Releases /\ released' = released + 1
    /\ answer' = "none" /\ UNCHANGED <<given, applied, state, run, scan, scanId>>

\* A scan records what it finds; one that fails records nothing.
ScanEnds(l) ==
    /\ scan[l] = "running"
    /\ \/ /\ scan' = [scan EXCEPT ![l] = "Success"]
          /\ state' = [i \in Instances |-> IF Home[i] = l THEN Counts(applied[i], released) ELSE state[i]]
       \/ scan' = [scan EXCEPT ![l] = "Failed"] /\ UNCHANGED state
    /\ answer' = "none" /\ UNCHANGED <<given, applied, released, run, scanId>>

-----------------------------------------------------------------------------
(* The status of an Automation run over some locations. *)

\* A failure within the run's error limit leaves it succeeded, with failed children.
RunOutcomes(at, places) ==
    {"ERROR"} \union
    IF \E l \in places : at[l] = "running" THEN {"RUNNING"}
    ELSE IF \A l \in places : at[l] = "Success" THEN {"SUCCEEDED"}
    ELSE IF \A l \in places : at[l] = "Failed" THEN {"FAILED"} ELSE {"FAILED", "PARTIAL"}

\* patch_dry_run: a scan in each location, one after the other; the first is the one named.
StartScan ==
    \E first \in Locations : \E started \in {{}, {first}, Locations} :
        /\ scan' = [l \in Locations |-> IF l \in started THEN "running" ELSE scan[l]]
        /\ IF started = Locations
           THEN scanId' = first /\ answer' = "SCAN_STARTED"
           ELSE UNCHANGED scanId /\ answer' = "PARTIAL"

\* capture_patch_state: nothing of a location that can't be read.
Captured(unread) == [i \in Instances |-> IF Home[i] \in unread THEN NoData ELSE state[i]]

(* The comparison of one instance. *)

\* Against the state after patching: patches are missing again.  Against the state before it,
\* which is approximate: some patch is missing, if one was then.
Reverted(i, after) ==
    IF post[i] # Absent
    THEN after.missing > post[i].missing \/ after.installed < post[i].installed
    ELSE after.missing > 0 \/ pre[i].missing = 0

\* A state that can't be read: not what the code does.
RevertedOrNoData(i, after) == after = NoData \/ Reverted(i, after)

\* Without a patch state now, or a snapshot with one, an instance isn't confirmed.
Confirmed(i, after) ==
    /\ after # NoData
    /\ post[i] # NoData /\ (post[i] # Absent \/ pre[i] \notin {Absent, NoData})
    /\ Reverted(i, after)

\* The rest of a call that goes on to the comparison and the health checks.
Verdict(outcome, compare, captured, healthy) ==
    IF outcome = "PARTIAL" \/ ~healthy \/ (compare /\ \E i \in Instances : ~Confirmed(i, captured[i]))
    THEN "PARTIAL"
    ELSE IF compare THEN "VERIFIED" ELSE "NOT_COMPARED"

HasSnapshot == \E i \in Instances : pre[i] # Absent \/ post[i] # Absent

\* The scan is awaited, then the patch states are read and compared.
Compare(outcome) ==
    \E scanned \in RunOutcomes(scan, {scanId}) :
        CASE scanned = "RUNNING"             -> answer' = "SCAN_IN_PROGRESS"
          [] scanned \in {"FAILED", "ERROR"} -> answer' = "PARTIAL"
          [] OTHER -> \E unread \in SUBSET Locations, healthy \in BOOLEAN :
                          answer' = Verdict(outcome, TRUE, Captured(unread), healthy)

VerifyRollback ==
    /\ \E outcome \in RunOutcomes(run, named) :
         IF outcome \in {"ERROR", "RUNNING", "FAILED"}
         THEN answer' = outcome /\ UNCHANGED <<scan, scanId>>
         ELSE IF ~HasSnapshot
         THEN /\ \E healthy \in BOOLEAN : answer' = Verdict(outcome, FALSE, state, healthy)
              /\ UNCHANGED <<scan, scanId>>
         ELSE IF scanId = NoScan THEN StartScan
         ELSE Compare(outcome) /\ UNCHANGED <<scan, scanId>>
    /\ UNCHANGED <<given, applied, released, state, run>>

Next ==
    \/ \E l \in Locations : RunEnds(l) \/ ScanEnds(l)
    \/ Release
    \/ VerifyRollback

Spec == Init /\ [][Next]_vars

-----------------------------------------------------------------------------
TypeOK ==
    /\ applied \in [Instances -> 0..Patches] /\ released \in 0..Releases
    /\ scan \in [Locations -> {"none", "running", "Success", "Failed"}]
    /\ scanId \in Locations \union {NoScan}

\* An instance whose patches came off.
CameOff(i) == applied[i] < before[i]

(* A rollback is confirmed only where patches of every instance came off, when   *)
(* each was in the snapshot from after patching: stale patch states, scans that  *)
(* fail or still go on elsewhere, and executions nobody asked about never make   *)
(* it look done (verify_rollback: "only the comparison confirms the rollback").  *)
(* Not so with Releases: a patch released since the snapshot is missing, too, and *)
(* reads as one that came off (see the findings).                                *)
ConfirmedCameOff ==
    answer = "VERIFIED" => \A i \in Instances : post[i] # Absent => CameOff(i)

=============================================================================
