------------------------------ MODULE AgentRun ------------------------------
(***************************************************************************)
(* One run of an agent: ecs_runtime.rs with the loop guards of             *)
(* harness_profile.rs.                                                     *)
(*                                                                         *)
(* Three parties.  The kernel is a thread of its own: it looks at the      *)
(* cancellation flag, makes one update of the rig world, and sleeps until  *)
(* it is woken.  An update starts the calls that are ready (gate_calls),   *)
(* reads what the model streamed and reviews its failures (read_deltas,    *)
(* review_retries) and settles what has ended (settled).  The model and    *)
(* the tools work on other threads and wake the kernel.  The future of the *)
(* turn receives the events through an unbounded channel and the result at *)
(* the end; a timeout or an abort drops it at any await.                   *)
(*                                                                         *)
(* Of the events only the text and its resets are modelled.  StopTurn, the *)
(* settling of a turn, Recovery.retries and the order of the systems are   *)
(* rig's and modelled as this file uses them; what arrives during an       *)
(* update is taken in by the next.  The sleep of sixty seconds has no end  *)
(* here but a wake, so that a lost wake shows.                             *)
(***************************************************************************)
EXTENDS Naturals, Sequences

CONSTANTS
  MaxTurns,    \* HarnessRunGuards::max_turns
  MaxRetries,  \* RetryPolicy::max_retries
  LoopStop,    \* LoopGuardPolicy::stop_threshold
  Sigs,        \* tool calls told apart by name and arguments
  Reasons,     \* DETERMINISTIC_FAILURE_REASONS
  MaxTexts,    \* bound: pieces of text in one reply
  MaxBatch     \* bound: tool calls in one reply

ASSUME RunAssumption ==
  /\ MaxTurns \in Nat
  /\ MaxRetries \in Nat
  /\ LoopStop \in Nat \ {0}
  /\ "none" \notin Sigs /\ "none" \notin Reasons
  /\ MaxTexts \in Nat
  /\ MaxBatch \in Nat

VARIABLES
  \* the kernel thread
  at,         \* where it is in its loop
  calls,      \* RunState::calls
  live,       \* RunState::live_text, as its pieces
  start,      \* RunState::attempt_start
  last,       \* RunState::detector: the last call,
  repeats,    \* how often it was made in a row,
  why,        \* the last failure
  streak,     \* and how often it came in a row
  stopped,    \* RunState::controlled_stop
  finished,   \* RunState::finished
  kresult,    \* what the kernel returned
  \* rig: the model call and the tool calls of the turn
  phase,      \* of the model call
  retries,    \* Recovery::retries of the model call
  reply,      \* how the model call ended
  deltas,     \* text streamed and not read yet
  asked,      \* tool calls that have not passed the gate, in order
  gated,      \* tool calls that have, and wait for the start
  running,    \* how many tool calls run
  replied,    \* how many have ended and are not settled
  \* the future of the turn
  channel,    \* events sent and not received
  future,     \* running, being dropped, or over
  outcome,    \* how the run ended for the turn
  flag,       \* Cancellation::cancelled
  token,      \* a wake waits in the sync_channel
  shown,      \* the text the turn has been shown
  \* history
  attempts,   \* requests sent for each model call
  requests,   \* requests sent in all
  spoken,     \* text of the earlier attempts that were not taken back
  saying,     \* text of the last attempt
  ran,        \* tool calls executed, in order
  got,        \* the last LoopStop of their results, in the order in which they settled
  late        \* a request was sent after the run had ended

detector == <<last, repeats, why, streak>>
stateVars == <<calls, live, start, detector, stopped, finished>>
toolVars == <<asked, gated, running, replied>>
rigVars == <<phase, retries, reply, deltas, toolVars>>
futureVars == <<channel, future, outcome, flag, shown>>
history == <<attempts, requests, spoken, saying, ran, got, late>>
vars == <<at, kresult, stateVars, rigVars, futureVars, token, history>>

Piece(p) == [kind |-> "text", of |-> <<p>>]
Reset(text) == [kind |-> "reset", of |-> text]

\* What the turn is shown after an event: a reset brings the text that is left.
Shows(view, e) == IF e.kind = "reset" THEN e.of ELSE view \o e.of

\* Nobody receives what is sent after the receiver is gone.
Emit(e) == channel' = IF future = "gone" THEN <<>> ELSE Append(channel, e)
-----------------------------------------------------------------------------
(* The loop detector *)

\* record_call: identical calls in a row, counted before they start.
CountAfter(sig) == IF sig = last THEN repeats + 1 ELSE 1

\* record_failure and reset_failure_streak
StreakAfter(result) ==
  IF result \notin Reasons THEN 0
  ELSE IF result = why THEN streak + 1 ELSE 1
WhyAfter(result) == IF result \in Reasons THEN result ELSE "none"

\* A slip: the threshold is passed before it stops.
StopsLate(n) == n > LoopStop
Stops(n) == n >= LoopStop
-----------------------------------------------------------------------------
Init ==
  /\ at = "check" /\ kresult = "none"
  /\ calls = 0 /\ live = <<>> /\ start = 0
  /\ last = "none" /\ repeats = 0 /\ why = "none" /\ streak = 0
  /\ stopped = "none" /\ finished = "none"
  /\ phase = "ready" /\ retries = 0 /\ reply = "none" /\ deltas = <<>>
  /\ asked = <<>> /\ gated = <<>> /\ running = 0 /\ replied = 0
  /\ channel = <<>> /\ future = "running" /\ outcome = "none"
  /\ flag = FALSE /\ token = FALSE
  /\ shown = <<>>
  /\ attempts = <<>> /\ requests = 0 /\ spoken = <<>> /\ saying = <<>>
  /\ ran = <<>> /\ got = <<>> /\ late = FALSE
-----------------------------------------------------------------------------
(* The kernel *)

\* StopTurn: calls that wait or run are dropped.
DropCalls ==
  /\ phase' = "none"
  /\ asked' = <<>> /\ gated' = <<>> /\ running' = 0 /\ replied' = 0

\* RunState::stop: the turn settles as stopped.
Stop(by) ==
  /\ stopped' = by
  /\ finished' = "stopped"
  /\ DropCalls

\* The flag is set before the receiver is closed.
Cancelled == flag

\* A slip: the flag is looked at only when the turn has ended.
CheckFinished ==
  /\ at = "check"
  /\ IF Cancelled /\ finished # "none"
     THEN at' = "over" /\ kresult' = "cancelled" /\ DropCalls
     ELSE at' = "gate" /\ UNCHANGED <<kresult, phase, toolVars>>
  /\ UNCHANGED <<stateVars, retries, reply, deltas, futureVars, token, history>>

Check ==
  /\ at = "check"
  /\ IF Cancelled
     THEN at' = "over" /\ kresult' = "cancelled" /\ DropCalls
     ELSE at' = "gate" /\ UNCHANGED <<kresult, phase, toolVars>>
  /\ UNCHANGED <<stateVars, retries, reply, deltas, futureVars, token, history>>

\* rig ends the backoff of a failed model call.
BackoffEnds ==
  /\ at = "gate"
  /\ phase = "backoff"
  /\ phase' = "ready"
  /\ UNCHANGED <<at, kresult, stateVars, retries, reply, deltas, toolVars, futureVars, token, history>>

Counted ==
  IF retries = 0 THEN Append(attempts, 1)
  ELSE [attempts EXCEPT ![Len(attempts)] = @ + 1]

\* rig starts the model call that passed the gate.
StartModel ==
  /\ at' = "review"
  /\ phase' = "streaming"
  /\ requests' = requests + 1
  /\ attempts' = Counted
  /\ late' = (late \/ outcome # "none")
  /\ spoken' = spoken \o saying
  /\ saying' = <<>>

\* A slip: the limit is off by one.
GateModelOnceMore ==
  /\ at = "gate"
  /\ phase = "ready"
  /\ IF retries = 0 /\ calls > MaxTurns
     THEN Stop("limit") /\ UNCHANGED <<at, calls, start, history>>
     ELSE /\ calls' = IF retries = 0 THEN calls + 1 ELSE calls
          /\ start' = Len(live)
          /\ StartModel
          /\ UNCHANGED <<stopped, finished, toolVars, ran, got>>
  /\ UNCHANGED <<kresult, live, detector, retries, reply, deltas, futureVars, token>>

\* A slip: the start of the attempt is not noted.
GateModelUnmarked ==
  /\ at = "gate"
  /\ phase = "ready"
  /\ IF retries = 0 /\ calls >= MaxTurns
     THEN Stop("limit") /\ UNCHANGED <<at, calls, history>>
     ELSE /\ calls' = IF retries = 0 THEN calls + 1 ELSE calls
          /\ StartModel
          /\ UNCHANGED <<stopped, finished, toolVars, ran, got>>
  /\ UNCHANGED <<kresult, live, start, detector, retries, reply, deltas, futureVars, token>>

\* gate_calls, a model call: a retry is free, any other counts.
GateModel ==
  /\ at = "gate"
  /\ phase = "ready"
  /\ IF retries = 0 /\ calls >= MaxTurns
     THEN Stop("limit") /\ UNCHANGED <<at, calls, start, history>>
     ELSE /\ calls' = IF retries = 0 THEN calls + 1 ELSE calls
          /\ start' = Len(live)
          /\ StartModel
          /\ UNCHANGED <<stopped, finished, toolVars, ran, got>>
  /\ UNCHANGED <<kresult, live, detector, retries, reply, deltas, futureVars, token>>

\* gate_calls, the next tool call.
GateTool ==
  /\ at = "gate"
  /\ asked # <<>>
  /\ LET sig == Head(asked)
         n == CountAfter(sig)
     IN /\ last' = sig /\ repeats' = n
        /\ IF Stops(n)
           THEN Stop("loop")
           ELSE /\ asked' = Tail(asked)
                /\ gated' = Append(gated, sig)
                /\ UNCHANGED <<stopped, finished, phase, running, replied>>
  /\ UNCHANGED <<at, kresult, calls, live, start, why, streak, retries, reply, deltas, futureVars, token, history>>

\* rig starts the tool calls that passed the gate.
StartTools ==
  /\ at = "gate"
  /\ phase # "ready" /\ asked = <<>>
  /\ at' = "review"
  /\ gated' = <<>>
  /\ running' = running + Len(gated)
  /\ ran' = ran \o gated
  /\ UNCHANGED <<kresult, stateVars, phase, retries, reply, deltas, asked, replied, futureVars, token,
                 attempts, requests, spoken, saying, got, late>>

\* read_deltas, the next piece.
ReadDelta ==
  /\ at = "review"
  /\ deltas # <<>>
  /\ deltas' = Tail(deltas)
  /\ live' = Append(live, Head(deltas))
  /\ Emit(Piece(Head(deltas)))
  /\ UNCHANGED <<at, kresult, calls, start, detector, stopped, finished, phase, retries, reply, toolVars,
                 future, outcome, flag, shown, token, history>>

\* review_retries when no model call has ended.
ReviewNothing ==
  /\ at = "review"
  /\ deltas = <<>>
  /\ phase # "ended"
  /\ at' = "settle"
  /\ UNCHANGED <<kresult, stateVars, rigVars, futureVars, token, history>>

\* review_retries: the call will be tried again, and its text is taken back.
ReviewRetry ==
  /\ at = "review"
  /\ deltas = <<>>
  /\ phase = "ended" /\ reply = "broken" /\ retries < MaxRetries
  /\ at' = "settle"
  /\ live' = SubSeq(live, 1, start)
  /\ Emit(Reset(live'))
  /\ phase' = "backoff"
  /\ retries' = retries + 1
  /\ saying' = <<>>
  /\ UNCHANGED <<kresult, calls, start, detector, stopped, finished, reply, deltas, toolVars,
                 future, outcome, flag, shown, token, attempts, requests, spoken, ran, got, late>>

\* review_retries lets the end of a call pass, and rig acts on it.
ReviewEnd ==
  /\ at = "review"
  /\ deltas = <<>>
  /\ phase = "ended"
  /\ reply = "broken" => retries >= MaxRetries
  /\ at' = "settle"
  /\ IF reply = "tools"
     THEN /\ phase' = "tools"
          /\ retries' = 0
          /\ \E n \in 1..MaxBatch : asked' \in [1..n -> Sigs]
          /\ UNCHANGED finished
     ELSE /\ phase' = "none"
          /\ finished' = IF reply = "answer" THEN "answered" ELSE "failed"
          /\ UNCHANGED <<retries, asked>>
  /\ UNCHANGED <<kresult, calls, live, start, detector, stopped, reply, deltas, gated, running, replied,
                 futureVars, token, history>>

\* History: no more results are kept than the loop guard could count.
Recent(seq) == IF Len(seq) <= LoopStop THEN seq ELSE Tail(seq)

\* settled, one tool call.
SettleTool ==
  /\ at = "settle"
  /\ replied > 0
  /\ \E result \in Reasons \cup {"none"} :
       /\ got' = Recent(Append(got, result))
       /\ streak' = StreakAfter(result) /\ why' = WhyAfter(result)
       /\ IF result \in Reasons /\ Stops(StreakAfter(result))
          THEN Stop("failures")
          ELSE /\ replied' = replied - 1
               /\ UNCHANGED <<stopped, finished, phase, asked, gated, running>>
  /\ UNCHANGED <<at, kresult, calls, live, start, last, repeats, retries, reply, deltas, futureVars, token,
                 attempts, requests, spoken, saying, ran, late>>

\* The results are in: rig asks the model again.
NextCall ==
  /\ at = "settle"
  /\ phase = "tools" /\ asked = <<>> /\ running = 0 /\ replied = 0
  /\ phase' = "ready"
  /\ UNCHANGED <<at, kresult, stateVars, retries, reply, deltas, toolVars, futureVars, token, history>>

\* The turn's outcome, if there is one; another pass of the update for what has
\* become ready; or sleep.
Look ==
  /\ at = "settle"
  /\ replied = 0
  /\ phase = "tools" => asked # <<>> \/ running > 0
  /\ IF finished # "none"
     THEN /\ at' = "over"
          /\ kresult' = finished
     ELSE /\ at' = IF phase = "ready" \/ asked # <<>> THEN "gate" ELSE "wait"
          /\ UNCHANGED kresult
  /\ UNCHANGED <<stateVars, rigVars, futureVars, token, history>>

\* recv_timeout: a wake, or fifty milliseconds during a backoff.
WakeUp ==
  /\ at = "wait"
  /\ token \/ phase = "backoff"
  /\ at' = "check"
  /\ token' = FALSE
  /\ UNCHANGED <<kresult, stateVars, rigVars, futureVars, history>>
-----------------------------------------------------------------------------
(* The model and the tools, which wake the kernel *)

BetweenUpdates == at \in {"check", "wait"}

Speak ==
  /\ BetweenUpdates
  /\ phase = "streaming"
  /\ Len(saying) < MaxTexts
  /\ deltas' = Append(deltas, requests)
  /\ saying' = Append(saying, requests)
  /\ token' = TRUE
  /\ UNCHANGED <<at, kresult, stateVars, phase, retries, reply, toolVars, futureVars,
                 attempts, requests, spoken, ran, got, late>>

\* The end of a model call: an answer, tool calls, an error that may be tried
\* again, or one that may not.
Reply ==
  /\ BetweenUpdates
  /\ phase = "streaming"
  /\ phase' = "ended"
  /\ reply' \in {"answer", "tools", "broken", "fatal"}
  /\ token' = TRUE
  /\ UNCHANGED <<at, kresult, stateVars, retries, deltas, toolVars, futureVars, history>>

ToolEnds ==
  /\ BetweenUpdates
  /\ running > 0
  /\ running' = running - 1
  /\ replied' = replied + 1
  /\ token' = TRUE
  /\ UNCHANGED <<at, kresult, stateVars, phase, retries, reply, deltas, asked, gated, futureVars, history>>
-----------------------------------------------------------------------------
(* The future of the turn *)

Receive ==
  /\ future = "running"
  /\ channel # <<>>
  /\ shown' = Shows(shown, Head(channel))
  /\ channel' = Tail(channel)
  /\ UNCHANGED <<at, kresult, stateVars, rigVars, future, outcome, flag, token, history>>

\* The kernel has let go of the sender and nothing is left in the channel.
Conclude ==
  /\ future = "running"
  /\ channel = <<>>
  /\ at = "over"
  /\ future' = "gone"
  /\ outcome' = kresult
  /\ UNCHANGED <<at, kresult, stateVars, rigVars, channel, flag, shown, token, history>>

\* The deadline passes, or the task of the turn is aborted.
Abandon ==
  /\ future = "running"
  /\ future' = "flag"
  /\ UNCHANGED <<at, kresult, stateVars, rigVars, channel, outcome, flag, shown, token, history>>

\* Cancellation::drop
SetFlag ==
  /\ future = "flag"
  /\ flag' = TRUE
  /\ future' = "wake"
  /\ UNCHANGED <<at, kresult, stateVars, rigVars, channel, outcome, shown, token, history>>

\* The receiver goes last.
CloseReceiver ==
  /\ future' = "gone"
  /\ outcome' = "abandoned"
  /\ channel' = <<>>

\* A slip: the channel of wakes holds none, so only a sleeping kernel is woken.
WakeSleeper ==
  /\ future = "wake"
  /\ token' = (token \/ at = "wait")
  /\ CloseReceiver
  /\ UNCHANGED <<at, kresult, stateVars, rigVars, flag, shown, history>>

WakeKernel ==
  /\ future = "wake"
  /\ token' = TRUE
  /\ CloseReceiver
  /\ UNCHANGED <<at, kresult, stateVars, rigVars, flag, shown, history>>

-----------------------------------------------------------------------------
Kernel ==
  \/ Check \/ BackoffEnds \/ GateModel \/ GateTool \/ StartTools
  \/ ReadDelta \/ ReviewNothing \/ ReviewRetry \/ ReviewEnd \/ SettleTool \/ NextCall \/ Look \/ WakeUp

World == Speak \/ Reply \/ ToolEnds

Future == Receive \/ Conclude \/ SetFlag \/ WakeKernel

Next == Kernel \/ World \/ Future \/ Abandon

Spec == Init /\ [][Next]_vars

\* The threads go on and the deadline of the role passes.  Nothing is assumed of
\* the model and the tools, which may never answer.
Fairness ==
  /\ WF_vars(Kernel)
  /\ WF_vars(Future)
  /\ WF_vars(Abandon)

FairSpec == Spec /\ Fairness
-----------------------------------------------------------------------------
(* Properties *)

Results == {"answered", "failed", "stopped", "cancelled"}

Events == [kind : {"text", "reset"}, of : Seq(Nat)]

ControlTyped ==
  /\ at \in {"check", "gate", "review", "settle", "wait", "over"}
  /\ kresult \in Results \cup {"none"}
  /\ stopped \in {"none", "limit", "loop", "failures"}
  /\ finished \in {"none", "answered", "failed", "stopped"}
  /\ phase \in {"none", "ready", "streaming", "ended", "backoff", "tools"}
  /\ reply \in {"none", "answer", "tools", "broken", "fatal"}
  /\ future \in {"running", "flag", "wake", "gone"}
  /\ outcome \in Results \cup {"none", "abandoned"}
  /\ flag \in BOOLEAN /\ token \in BOOLEAN /\ late \in BOOLEAN

CountsTyped ==
  /\ calls \in 0..MaxTurns /\ retries \in 0..MaxRetries
  /\ requests \in Nat /\ attempts \in Seq(Nat)
  /\ running \in Nat /\ replied \in Nat

ToolsTyped ==
  /\ last \in Sigs \cup {"none"} /\ repeats \in Nat
  /\ why \in Reasons \cup {"none"} /\ streak \in Nat
  /\ asked \in Seq(Sigs) /\ gated \in Seq(Sigs)
  /\ ran \in Seq(Sigs) /\ got \in Seq(Reasons \cup {"none"})

TextTyped ==
  /\ live \in Seq(Nat) /\ start \in 0..Len(live)
  /\ deltas \in Seq(Nat) /\ spoken \in Seq(Nat) /\ saying \in Seq(Nat)
  /\ channel \in Seq(Events) /\ shown \in Seq(Nat)

\* The type invariant of a run.
TypeOK == ControlTyped /\ CountsTyped /\ ToolsTyped /\ TextTyped

\* A turn that is shown this view will be shown this text once it has received
\* what is in the channel: r is the last reset in it, and 0 when there is none.
Brings(ch, r, view, text) ==
  /\ r > 0 => ch[r].kind = "reset"
  /\ \A i \in (r + 1)..Len(ch) : ch[i].kind = "text"
  /\ text = (IF r = 0 THEN view ELSE ch[r].of) \o [i \in 1..(Len(ch) - r) |-> ch[r + i].of[1]]

\* The text the model streamed in attempts that were not taken back is what the
\* kernel keeps and what the turn is shown, in order and each piece once, through
\* any number of retries; when the run answers the turn has been shown all of it.
TextIsTrue ==
  /\ at # "over" => live \o deltas = spoken \o saying
  /\ future # "gone" => \E r \in 0..Len(channel) : Brings(channel, r, shown, live)
  /\ outcome = "answered" => shown = spoken \o saying

\* The model is asked for at most MaxTurns replies and each at most MaxRetries
\* times again, and a run is stopped at the limit only when it has used it up.
LimitsHold ==
  /\ Len(attempts) <= MaxTurns
  /\ \A i \in DOMAIN attempts : attempts[i] \in 1..(MaxRetries + 1)
  /\ stopped = "limit" => Len(attempts) = MaxTurns

\* n equal members of a sequence in a row.
InARow(seq, n) ==
  \E i \in 0..(Len(seq) - n) : \A k \in 1..n : seq[i + k] = seq[i + 1]

\* The last LoopStop results are the same deterministic failure.
FailedInARow ==
  /\ Len(got) = LoopStop
  /\ \E reason \in Reasons : \A k \in 1..LoopStop : got[k] = reason

\* However the calls of a reply overlap, a call is never executed LoopStop times
\* in a row, and the run stops at the LoopStop-th equal failure in a row.
LoopsStop ==
  /\ ~InARow(ran, LoopStop)
  /\ FailedInARow <=> stopped = "failures"

\* A run with a deadline ends for the turn, and its kernel thread ends too, even
\* when the model and the tools hang: the cancellation is not slept through.
RunEnds == <>(outcome # "none" /\ at = "over")

\* The run implements its contract.
Contract == INSTANCE RunContract WITH
  MaxRequests <- MaxTurns * (MaxRetries + 1), view <- shown, asked <- requests, result <- outcome
ImplementsContract == Contract!Spec
=============================================================================
