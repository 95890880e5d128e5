---------------------------- MODULE MCMergeGate ----------------------------
(***************************************************************************)
(* TLC instances of MergeGate.                                             *)
(***************************************************************************)
EXTENDS MergeGate

\* Pull request 1 by an agent, 2 by the automation.
AgentAndBot == [p \in Pr |-> IF p = 1 THEN "j2d3" ELSE "github-actions[bot]"]

\* Both by agents.
TwoAgents == [p \in Pr |-> IF p = 1 THEN "j2d3" ELSE "5u6r054"]

============================================================================
