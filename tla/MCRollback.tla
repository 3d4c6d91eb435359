------------------------------ MODULE MCRollback ------------------------------
(* Rolling back: a plan of two runs, one in each account, and one plan of the     *)
(* environment, in one of them.                                                   *)
EXTENDS Rollback, TLC

MCPlanOf == "e1" :> "p" @@ "e2" :> "p" @@ "f" :> "q"
MCShare == "e1" :> {"i"} @@ "e2" :> {"j"} @@ "f" :> {"i"}
MCAccount == "i" :> "a" @@ "j" :> "b"

(* A rollback is planned for the last run that patched all of its instances, of   *)
(* those that are reported or pending.                                            *)
PlannedForLastRun == [][PlansForLastRun]_vars
=============================================================================
