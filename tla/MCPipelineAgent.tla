--------------------------- MODULE MCPipelineAgent ---------------------------
(* PipelineAgent with one agent, of either kind.                              *)
EXTENDS PipelineAgent

CONSTANTS a1, c1

MCAgents == {a1}
OneClient == {c1}

=============================================================================
