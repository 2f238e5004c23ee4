--------------------------- MODULE ReviewContract ---------------------------
(***************************************************************************)
(* What a review of several focuses promises to whoever follows its        *)
(* progress, without the tasks that do the work: every focus is reported   *)
(* to one end, the review ends once and only when every focus has ended,   *)
(* and it succeeds when one of them did.  A review that is dropped reports *)
(* nothing more.                                                           *)
(***************************************************************************)
CONSTANT Focuses

VARIABLES
  status,  \* of each focus
  ended    \* of the review

vars == <<status, ended>>

Ends == {"done", "failed"}

Init ==
  /\ status = [f \in Focuses |-> "unseen"]
  /\ ended = "none"

Begin ==
  /\ \A f \in Focuses : status[f] = "unseen"
  /\ status' = [f \in Focuses |-> "running"]
  /\ UNCHANGED ended

\* Some focuses that run are reported.
Report ==
  /\ ended = "none"
  /\ \E set \in SUBSET {f \in Focuses : status[f] = "running"}, end \in Ends :
       status' = [f \in Focuses |-> IF f \in set THEN end ELSE status[f]]
  /\ UNCHANGED ended

End ==
  /\ ended = "none"
  /\ \A f \in Focuses : status[f] \in Ends
  /\ ended' = IF \E f \in Focuses : status[f] = "done" THEN "done" ELSE "failed"
  /\ UNCHANGED status

Next == Begin \/ Report \/ End

Spec == Init /\ [][Next]_vars
=============================================================================
