---------------------------- MODULE MCMcpRuntime ----------------------------
(***************************************************************************)
(* Small instances of McpRuntime: two commands, the startup task, and      *)
(* three definitions, two of them of one endpoint.                         *)
(***************************************************************************)
EXTENDS McpRuntime, TLC

CONSTANTS d1, d2, d3

ThreeDefs == {d1, d2, d3}
TwoEndpoints == [d \in ThreeDefs |-> IF d = d3 THEN "other" ELSE "first"]
Symmetry == Permutations(Commands)
=============================================================================
