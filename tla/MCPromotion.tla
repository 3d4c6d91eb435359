---------------------------- MODULE MCPromotion ----------------------------
(* Staged promotion over one location and one alarm, for what the comments say   *)
(* of instances that can't be placed.                                            *)
EXTENDS Promotion, TLC

MCPlanOf == "e1" :> "p"
MCLocationsOf == "e1" :> {"here"}
MCStage == "p" :> 0
MCScope == "p" :> "all"
MCEvaluation == "cpu" :> 2
=============================================================================
