---------------------------- MODULE MCSignalerHost ----------------------------
(* Small instances of SignalerHost for the model checker.                  *)
EXTENDS SignalerHost, TLC
CONSTANTS g1, g2
GuestSymmetry == Permutations(Guests)
=============================================================================
