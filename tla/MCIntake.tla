------------------------------ MODULE MCIntake ------------------------------
(* Intake on small instances: what the sources show.                        *)
EXTENDS Intake, TLC

(* The first receipt of every upload is the same printed one, and so is     *)
(* what every message carries; the others have no fiscal identity.          *)
OneSharedReceipt(s) ==
    IF s \in Messages \/ s[2] = 1 THEN "register-7/85503" ELSE Unidentified

(* Everything the user sends shows the same printed receipt.                *)
AllTheSame(s) == "register-7/85503"

JobSymmetry == Permutations(Jobs)
SlotSymmetry == Permutations(Requests) \cup Permutations(Deliveries)
SlotJobSymmetry == SlotSymmetry \cup JobSymmetry
=============================================================================
