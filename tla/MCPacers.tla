------------------------------- MODULE MCPacers -------------------------------
(* Small instances of Pacers for the model checker.                        *)
EXTENDS Pacers
=============================================================================
