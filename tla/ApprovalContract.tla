-------------------------- MODULE ApprovalContract --------------------------
(***************************************************************************)
(* What the approval broker promises to the webview and to the tools, with *)
(* no locks, channels or threads: a card is opened once and settled once,  *)
(* the first answer of the user is the only one that counts, nothing       *)
(* automatic overrides an answer, and a tool proceeds exactly when its     *)
(* card was settled as approved.                                           *)
(***************************************************************************)
CONSTANTS Requests

VARIABLES
  card,     \* what the webview has been told of each request
  answer,   \* the user's first answer to each card
  allowed   \* the requests whose tool may proceed

contractVars == <<card, answer, allowed>>

Automatic == {"AutoApproved", "AutoDenied"}

\* The settlements an answer permits.  Time may run out on any card, and a
\* cancelled card that nobody answered counts as denied.
Permits(a, o) ==
  \/ o = "TimedOut"
  \/ a = "none" /\ o \in Automatic \cup {"Denied"}
  \/ a = o

Init ==
  /\ card = [r \in Requests |-> "unseen"]
  /\ answer = [r \in Requests |-> "none"]
  /\ allowed = {}

Open(r) ==
  /\ card[r] = "unseen"
  /\ card' = [card EXCEPT ![r] = "open"]
  /\ UNCHANGED <<answer, allowed>>

\* The policy decides at once: the card appears settled.
Decide(r, o) ==
  /\ card[r] = "unseen"
  /\ o \in Automatic
  /\ card' = [card EXCEPT ![r] = o]
  /\ allowed' = IF o = "AutoApproved" THEN allowed \cup {r} ELSE allowed
  /\ UNCHANGED answer

Answer(r, a) ==
  /\ card[r] = "open"
  /\ answer[r] = "none"
  /\ a \in {"Approved", "Denied"}
  /\ answer' = [answer EXCEPT ![r] = a]
  /\ UNCHANGED <<card, allowed>>

Settle(r, o) ==
  /\ card[r] = "open"
  /\ Permits(answer[r], o)
  /\ card' = [card EXCEPT ![r] = o]
  /\ allowed' = IF o \in {"Approved", "AutoApproved"} THEN allowed \cup {r} ELSE allowed
  /\ UNCHANGED answer

Next ==
  \E r \in Requests :
    \/ Open(r)
    \/ \E o \in Automatic : Decide(r, o)
    \/ \E a \in {"Approved", "Denied"} : Answer(r, a)
    \/ \E o \in {"Approved", "Denied", "TimedOut"} \cup Automatic : Settle(r, o)

Spec == Init /\ [][Next]_contractVars
=============================================================================
