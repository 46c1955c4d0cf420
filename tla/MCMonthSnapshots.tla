-------------------------- MODULE MCMonthSnapshots --------------------------
(* MonthSnapshots on small instances: which symmetry TLC may use.           *)
EXTENDS MonthSnapshots, TLC

RequestSymmetry == Permutations(Requests)
=============================================================================
