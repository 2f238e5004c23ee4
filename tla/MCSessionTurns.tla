--------------------------- MODULE MCSessionTurns ---------------------------
(***************************************************************************)
(* Small instances of SessionTurns: two runs over one or two sessions, one *)
(* conversation kept in memory.                                            *)
(***************************************************************************)
EXTENDS SessionTurns, TLC

Symmetry == Permutations(Runs) \cup Permutations(Sessions)
=============================================================================
