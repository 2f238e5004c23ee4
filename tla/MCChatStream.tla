---------------------------- MODULE MCChatStream ----------------------------
(***************************************************************************)
(* Small instances of ChatStream: two sessions and the draft view, two     *)
(* runs, one stop; two pieces of text and one other block are enough for   *)
(* text before and after a tool.                                           *)
(***************************************************************************)
EXTENDS ChatStream, TLC

Symmetry == Permutations(Runs) \cup Permutations(Sessions)

\* What follows a slip is explored by the runs that look for one.
UpToFirstSlip == slips = {}
=============================================================================
