----------------------------- MODULE MCSkillOpt -----------------------------
(***************************************************************************)
(* A skill of a word and a slow-update region, and a model that proposes   *)
(* to append, to rewrite what it may not, what is not there or there       *)
(* twice, and more than the budget, but writes no marker.                  *)
(*                                                                         *)
(* Bound: the turns load the skills while no run is under way (Apart); the *)
(* main thread loads, drops and adopts at any time.                        *)
(***************************************************************************)
EXTENDS SkillOpt, TLC

CONSTANTS word, slow, open, close, extra, r1, r2

Append1(new) == [op |-> "append", old |-> <<>>, new |-> new]
Patch(old, new) == [op |-> "patch", old |-> old, new |-> new]

Body == <<word, open, slow, close>>

SomeSkills == {Body}
SomeRewrites == {<<word, extra, word>>}

SomeProposals ==
  {<<Append1(<<extra>>)>>,
   <<Patch(<<slow>>, <<>>), Patch(<<word, open>>, <<extra>>), Patch(<<word>>, <<word, extra>>)>>,
   <<Patch(<<extra>>, <<word>>), Patch(<<word>>, <<word>>), Append1(<<word>>)>>}

Apart ==
  \/ \A r \in Runs : pc[r] \in {"idle", "ended"}
  \/ \A t \in Turns : at[t] = "idle"

Symmetry == Permutations({r1, r2})
=============================================================================
