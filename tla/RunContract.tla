---------------------------- MODULE RunContract ----------------------------
(***************************************************************************)
(* What a run of an agent promises to the turn that started it, without    *)
(* the kernel thread, the channel, the locks and the tools: what is shown  *)
(* grows, the end of it may be taken back, the model is asked a limited    *)
(* number of times, the run ends once, and nothing is shown afterwards.    *)
(* A run that is abandoned while the kernel is at work may still ask the   *)
(* model once.                                                             *)
(***************************************************************************)
EXTENDS Naturals, Sequences

CONSTANT MaxRequests

VARIABLES
  view,    \* what the turn has been shown
  asked,   \* requests made to the model
  result,  \* how the run ended
  late     \* the model was asked after the end

vars == <<view, asked, result, late>>

Results == {"answered", "failed", "stopped", "cancelled", "abandoned"}

Init ==
  /\ view = <<>>
  /\ asked = 0
  /\ result = "none"
  /\ late = FALSE

\* One thing more.
Show ==
  /\ result = "none"
  /\ Len(view') = Len(view) + 1
  /\ SubSeq(view', 1, Len(view)) = view
  /\ UNCHANGED <<asked, result, late>>

\* The end of what was shown is taken back.
TakeBack ==
  /\ result = "none"
  /\ Len(view') <= Len(view)
  /\ view' = SubSeq(view, 1, Len(view'))
  /\ UNCHANGED <<asked, result, late>>

Ask ==
  /\ asked < MaxRequests
  /\ ~late
  /\ asked' = asked + 1
  /\ late' = (result # "none")
  /\ UNCHANGED <<view, result>>

End ==
  /\ result = "none"
  /\ result' \in Results
  /\ UNCHANGED <<view, asked, late>>

Next == Show \/ TakeBack \/ Ask \/ End

Spec == Init /\ [][Next]_vars
=============================================================================
