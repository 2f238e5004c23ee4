--------------------------- MODULE MCReviewSweep ---------------------------
(***************************************************************************)
(* A small instance of ReviewSweep: two focuses, a finding worth acting on *)
(* and one of noise, a workspace without changes and one whose three files *)
(* make two chunks.  The store starts with a rejection of each format.     *)
(***************************************************************************)
EXTENDS ReviewSweep, TLC

CONSTANTS security, style, flaw, nit

SomeDiffs == {<<>>, <<1, 1, 2>>}
SomeJudged == {<<security, flaw>>}
SomeRejections == {{OldKey(nit), <<style, nit>>}}
=============================================================================
