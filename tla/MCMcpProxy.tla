------------------------------ MODULE MCMcpProxy ------------------------------
(* Small instances of McpProxy for the model checker.                      *)
EXTENDS McpProxy
CONSTANTS init, q1, q2
=============================================================================
