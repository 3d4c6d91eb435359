------------------------------ MODULE MCAnswers ------------------------------
(* Answers of a fleet of two locations.                                           *)
EXTENDS Answers, TLC

MCHome == "i" :> "l1" @@ "j" :> "l2"
=============================================================================
