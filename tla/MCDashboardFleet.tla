--------------------------- MODULE MCDashboardFleet ---------------------------
(* A fan-out over the two Regions of the hub and those of a spoke; one of the     *)
(* hub's has an instance without the scope tag only.                             *)
EXTENDS DashboardFleet, TLC

At(account, region) == [account |-> account, region |-> region]

MCHome == "h" :> At("hub", "r1") @@ "i" :> At("a", "r1") @@ "j" :> At("a", "r2") @@ "t" :> At("hub", "r2")
MCEnvironment == [i \in {"h", "i", "j", "t"} |-> "dev"]

=============================================================================
