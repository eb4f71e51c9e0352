----------------------------- MODULE MCAgentRelay -----------------------------
(* Small instances of AgentRelay for the model checker.                    *)
EXTENDS AgentRelay, TLC
CONSTANTS a1, a2
AgentSymmetry == Permutations(Agents)
=============================================================================
