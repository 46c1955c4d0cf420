--------------------------- MODULE MCUploadScreen ---------------------------
(* UploadScreen on small instances: what the server reads in an upload.     *)
EXTENDS UploadScreen, TLC

CONSTANTS r1, r2

(* A receipt that may be a duplicate beside a clear one; one the user       *)
(* already has beside one whose total is unsure.                            *)
Asked(questions) == [open |-> questions, out |-> FALSE, barred |-> FALSE]
MCReadings ==
    {(r1 :> Asked({"duplicate"}) @@ r2 :> Asked({})),
     (r1 :> [Asked({}) EXCEPT !.barred = TRUE] @@ r2 :> Asked({"total"}))}

(* Bound: the kinds of impatience in one behaviour, and the edits and the   *)
(* commits the server makes in two uploads together.                        *)
Bounds ==
    /\ Cardinality(crossed) <= 1
    /\ \A u, w \in Uploads : u # w => /\ version[u] + version[w] <= 2
                                     /\ stores[u] + stores[w] <= 2

ScreenSymmetry == Permutations(Calls) \cup Permutations(Uploads)
=============================================================================
