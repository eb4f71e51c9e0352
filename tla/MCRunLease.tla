------------------------------ MODULE MCRunLease ------------------------------
(* Small instances of RunLease for the model checker.                      *)
EXTENDS RunLease, TLC
CONSTANTS r1, r2, r3
RunSymmetry == Permutations(Runs)
=============================================================================
