----------------------------- MODULE MCAgentRun -----------------------------
(***************************************************************************)
(* A small instance of AgentRun: two model calls with a retry each, two    *)
(* tool calls told apart, a loop guard that stops at the second.           *)
(***************************************************************************)
EXTENDS AgentRun, TLC
=============================================================================
