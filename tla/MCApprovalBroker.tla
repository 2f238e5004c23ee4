------------------------- MODULE MCApprovalBroker -------------------------
(***************************************************************************)
(* Small windows.  ApprovalBroker.cfg: two requests about the same command *)
(* text, which one rule covers, as a routine or as a restricted command.   *)
(* ApprovalKinds.cfg: one request of any kind, with a routine command, an  *)
(* MCP tool, an external path and `env`, a routine command whose canonical *)
(* pattern is itself a built-in guardrail.                                 *)
(***************************************************************************)
EXTENDS ApprovalBroker, TLC

CONSTANTS r1, r2, make, env, tool, pMake, pEnv, pTool

Text == make :> pMake @@ env :> pEnv @@ tool :> pTool

Own(subjects) == [s \in subjects |-> Text[s]]
OwnSet(subjects) == [s \in subjects |-> {Text[s]}]

Command(s, risk, scoped) ==
  [kind |-> "command", risk |-> risk, scoped |-> scoped, subject |-> s]

PairSubjects == {make}
PairPatterns == {pMake}
PairOwn == Own(PairSubjects)
PairMatching == OwnSet(PairSubjects)
PairPopulation == {Command(make, "restricted", FALSE)}

KindSubjects == {make, env, tool}
KindPatterns == {pMake, pEnv, pTool}
KindOwn == Own(KindSubjects)
KindMatching == OwnSet(KindSubjects)
KindPopulation ==
  {Command(make, "mutating", TRUE), Command(env, "mutating", TRUE),
   Command(make, "destructive", TRUE), Command(make, "restricted", FALSE),
   [kind |-> "mcp", risk |-> "mutating", scoped |-> FALSE, subject |-> tool],
   [kind |-> "external", risk |-> "external", scoped |-> FALSE, subject |-> make]}

Symmetry == Permutations(Requests)
=============================================================================
