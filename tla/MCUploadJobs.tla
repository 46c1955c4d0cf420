---------------------------- MODULE MCUploadJobs ----------------------------
(* UploadJobs on small instances: which symmetry TLC may use.               *)
EXTENDS UploadJobs, TLC

ItemSymmetry == Permutations(Items)
JobItemSymmetry == Permutations(Items) \cup Permutations(Jobs)
=============================================================================
