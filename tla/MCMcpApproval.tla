---------------------------- MODULE MCMcpApproval ----------------------------
(***************************************************************************)
(* McpRuntime with a history of what the user has approved.                *)
(***************************************************************************)
EXTENDS MCMcpRuntime

VARIABLE approved   \* the endpoints for which trust_mcp_server was ever called

ApprovalInit ==
  /\ Init
  /\ approved = IF row.trusted THEN {Endpoint[row.def]} ELSE {}

ApprovalNext ==
  /\ Next
  /\ approved' = approved \cup
       (IF \E k \in Commands : SetTrusted(k, TRUE) THEN {Endpoint[row.def]} ELSE {})

ApprovalSpec == ApprovalInit /\ [][ApprovalNext]_<<vars, approved>>

\* As update_custom_mcp_server_locked has it, an approval is of a binary or an
\* endpoint, not of the row: no other is ever started or contacted.
OnlyApprovedDialed ==
  \A k \in Tasks : pc[k] = "dialing" => Endpoint[srv[k].def] \in approved
=============================================================================
