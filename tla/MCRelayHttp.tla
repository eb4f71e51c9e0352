----------------------------- MODULE MCRelayHttp -----------------------------
EXTENDS RelayHttp, TLC

Symmetry == Permutations(Requests)
=============================================================================
