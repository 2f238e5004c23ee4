----------------------------- MODULE ChatStream -----------------------------
(***************************************************************************)
(* The window's side of a run: the live turns of useChatStream.ts and the  *)
(* parts of useSessionManager.ts that move the focus and keep the          *)
(* transcripts.  Several sessions stream at once; one of them, or the      *)
(* draft view, has the focus.                                              *)
(*                                                                         *)
(* JavaScript runs one handler at a time, so a handler is one action; what *)
(* interleaves are the events of the backend, the frames that flush        *)
(* buffered text, the answers of awaited commands and the two phases of a  *)
(* focus change.  A change made in a click is rendered and its effect run  *)
(* before the next event; one made after an await or in an effect is       *)
(* rendered in a later task (Render), and the stash effect runs in a later *)
(* one still (Swap).  A turn is the sequence of its blocks, a text block   *)
(* being the pieces of text it joins.  The user acts on a settled view.    *)
(***************************************************************************)
EXTENDS Naturals, FiniteSets, Sequences, Functions

CONSTANTS
  Sessions,
  Runs,
  Draft,      \* no session selected: activeSessionId is null
  None,
  Stops,      \* concurrent calls of cancelStream
  MaxTexts,   \* bound: pieces of text streamed in all
  MaxBlocks   \* bound: other blocks streamed in all

ASSUME StreamAssumption ==
  /\ Draft \notin Sessions
  /\ IsFiniteSet(Runs)
  /\ None \notin Sessions \cup Runs \cup {Draft}
  /\ MaxTexts \in Nat
  /\ MaxBlocks \in Nat

VARIABLES
  selected,    \* activeSessionId as last set, and activeSessionIdRef
  focused,     \* optionsRef.current.sessionId: the session last rendered
  swapped,     \* prevFocusedSessionRef: the session the stash effect last saw
  opening,     \* the selection waiting for a command
  live,        \* activeRunIds and runSessionMap: the place of each live run
               \* in the order of insertion, 0 for the others
  home,        \* the session each run was started for
  visible,     \* currentTurnRef
  background,  \* backgroundTurnsRef
  buffer,      \* pendingBySessionRef
  frames,      \* pendingFrameBySessionRef
  busy,        \* sessions whose status is thinking or acting
  stops,       \* calls of cancelStream awaiting cancel_streaming
  rejecting,   \* runs whose complete_streaming is about to reject
  transcript,  \* answers of the agent in each session's messages
  sent,        \* backend: what each run has streamed and not taken back
  outcome,     \* backend: how each run ended
  slips        \* history: the known ways of going wrong that occurred

focusVars == <<selected, focused, swapped, opening>>
turnVars == <<visible, background, buffer, frames>>
runVars == <<live, home, busy, rejecting>>
vars == <<focusVars, turnVars, runVars, stops, transcript, sent, outcome, slips>>

Opening == {"tool", "card"}
Kinds == Opening \cup {"text", "reasoning", "result", "settled"}
Piece(r, n, k) == [run |-> r, n |-> n, kind |-> k]
Answer(r, how, blocks) == [run |-> r, how |-> how, blocks |-> blocks]
\* A call of cancelStream that has ended.
Answered == [session |-> None, run |-> None]
-----------------------------------------------------------------------------
(* Turns.  NoTurn is null; an update of no turn creates one. *)

NoTurn == [exists |-> FALSE, blocks |-> <<>>]
Turn(blocks) == [exists |-> TRUE, blocks |-> blocks]

\* appendText; an empty buffer leaves the turn as it is.
Extend(turn, text) == IF text = <<>> THEN turn ELSE Turn(turn.blocks \o text)

Put(turn, p) == Turn(Append(turn.blocks, p))

Holds(turn, p) == p \in Range(turn.blocks)

\* The block with the id of the event, changed in place.
Replace(blocks, old, new) == [i \in DOMAIN blocks |-> IF blocks[i] = old THEN new ELSE blocks[i]]

\* dropReasoningBlocks
Lasting(blocks) == SelectSeq(blocks, LAMBDA p : p.kind # "reasoning")

TextCount(blocks) == Cardinality({i \in DOMAIN blocks : blocks[i].kind = "text"})

\* The blocks at some places, in their order.
Chosen(blocks, places) ==
  [j \in 1..Cardinality(places) |->
     blocks[CHOOSE i \in places : Cardinality({k \in places : k <= i}) = j]]

\* A slip: the limit is off by one.
TrimShort(blocks, n, failed) ==
  LET Keeps(i) == CASE blocks[i].kind = "text" -> TextCount(SubSeq(blocks, 1, i)) < n
                    [] blocks[i].kind = "reasoning" -> blocks[i] \notin failed
                    [] OTHER -> TRUE
  IN Chosen(blocks, {i \in DOMAIN blocks : Keeps(i)})

\* llm-retry-reset: the first n characters of text stay, wherever they are,
\* and the reasoning blocks named.
Trim(blocks, n, failed) ==
  LET Keeps(i) == CASE blocks[i].kind = "text" -> TextCount(SubSeq(blocks, 1, i)) <= n
                    [] blocks[i].kind = "reasoning" -> blocks[i] \notin failed
                    [] OTHER -> TRUE
  IN Chosen(blocks, {i \in DOMAIN blocks : Keeps(i)})
-----------------------------------------------------------------------------
(* Runs and sessions *)

IsLive(r) == live[r] # 0
Forget(r) == [x \in Runs |-> IF x = r THEN 0 ELSE live[x]]
LiveIn(s) == {r \in Runs : IsLive(r) /\ home[r] = s}
Started == {r \in Runs : home[r] # None}

\* The run cancelStream is about: the last of the session, if there is one.
Latest(s) ==
  IF LiveIn(s) = {} THEN None
  ELSE CHOOSE r \in LiveIn(s) : \A x \in LiveIn(s) : live[x] <= live[r]

\* The view the user acts on is rendered and its effects have run.
Settled == selected = focused /\ focused = swapped

\* Events between a render and its stash effect find the turn of the
\* session before under the new focus.
Between == focused # swapped

\* With nothing focused every live event counts as foreground.
IsBackground(r) == focused # Draft /\ home[r] # focused

\* flushPendingForSession
VisibleFlushed(s) == IF s = focused THEN Extend(visible, buffer[s]) ELSE visible
BackgroundFlushed(s) ==
  IF s = focused THEN background ELSE [background EXCEPT ![s] = Extend(@, buffer[s])]

DropBuffer(s) ==
  IF s = Draft THEN UNCHANGED <<buffer, frames>>
  ELSE /\ buffer' = [buffer EXCEPT ![s] = <<>>]
       /\ frames' = frames \ {s}

Without(turns, s) == IF s = Draft THEN turns ELSE [turns EXCEPT ![s] = NoTurn]

SlipIf(cond, why) == slips' = IF cond THEN slips \cup {why} ELSE slips

Say(s, answer) == transcript' = [transcript EXCEPT ![s] = Append(@, answer)]
-----------------------------------------------------------------------------
Init ==
  /\ selected = Draft /\ focused = Draft /\ swapped = Draft
  /\ opening = None
  /\ live = [r \in Runs |-> 0]
  /\ home = [r \in Runs |-> None]
  /\ visible = NoTurn
  /\ background = [s \in Sessions |-> NoTurn]
  /\ buffer = [s \in Sessions |-> <<>>]
  /\ frames = {}
  /\ busy = {}
  /\ stops = [c \in Stops |-> None]
  /\ rejecting = {}
  /\ transcript = [s \in Sessions |-> <<>>]
  /\ sent = [r \in Runs |-> <<>>]
  /\ outcome = [r \in Runs |-> "none"]
  /\ slips = {}
-----------------------------------------------------------------------------
(* Focus *)

\* A slip: a turn that streams stays on the screen when nothing is stashed
\* for the session entered.
SwapLeavesTurn(entered) ==
  LET left == swapped
      streams == left # Draft /\ LiveIn(left) # {}
      outgoing == IF left = Draft THEN <<>> ELSE buffer[left]
      folded == IF visible.exists THEN Extend(visible, outgoing) ELSE visible
      stash == IF streams /\ visible.exists THEN [background EXCEPT ![left] = folded] ELSE background
      incoming == IF entered = Draft THEN NoTurn ELSE background[entered]
      shown == IF incoming.exists THEN incoming ELSE folded
  IN /\ background' = stash
     /\ visible' = IF entered = Draft THEN shown ELSE Extend(shown, buffer[entered])
     /\ buffer' = [s \in Sessions |-> IF s \in {left, entered} THEN <<>> ELSE buffer[s]]
     /\ frames' = frames \ {left, entered}
     /\ SlipIf(outgoing # <<>> /\ ~visible.exists, "hasty")

\* The stash effect: fold the text buffered for the session left into its
\* turn, stash the turn if the session streams, and show what is stashed for
\* the session entered with the text buffered for it.
SwapTo(entered) ==
  LET left == swapped
      streams == left # Draft /\ LiveIn(left) # {}
      outgoing == IF left = Draft THEN <<>> ELSE buffer[left]
      folded == IF visible.exists THEN Extend(visible, outgoing) ELSE visible
      stash == IF streams /\ visible.exists THEN [background EXCEPT ![left] = folded] ELSE background
      incoming == IF entered = Draft THEN NoTurn ELSE background[entered]
      shown == IF streams \/ incoming.exists THEN incoming ELSE folded
  IN /\ background' = stash
     /\ visible' = IF entered = Draft THEN shown ELSE Extend(shown, buffer[entered])
     /\ buffer' = [s \in Sessions |-> IF s \in {left, entered} THEN <<>> ELSE buffer[s]]
     /\ frames' = frames \ {left, entered}
     /\ SlipIf(outgoing # <<>> /\ ~visible.exists, "hasty")

\* A click: set, rendered and swapped before the next event.
Click(s) ==
  /\ selected' = s /\ focused' = s /\ swapped' = s
  /\ opening' = None
  /\ busy' = busy \ {Draft}

SelectNow(s) ==
  /\ Settled
  /\ s # selected
  /\ Click(s)
  /\ SwapTo(s)
  /\ UNCHANGED <<live, home, rejecting, stops, transcript, sent, outcome>>

\* handleSessionSelect when it has to switch the workspace or to load the
\* transcript; the session it holds is the one of the click.
SelectLater(s) ==
  /\ Settled
  /\ s # selected
  /\ opening' = [session |-> s, messages |-> transcript[s]]
  /\ UNCHANGED <<selected, focused, swapped, turnVars, runVars, stops, transcript, sent, outcome, slips>>

Open ==
  /\ opening # None
  /\ selected' = opening.session
  /\ transcript' = [transcript EXCEPT ![opening.session] = opening.messages]
  /\ opening' = None
  /\ busy' = busy \ {Draft}
  /\ SlipIf(opening.messages # transcript[opening.session], "overwritten")
  /\ UNCHANGED <<focused, swapped, turnVars, live, home, rejecting, stops, sent, outcome>>

OpenFails ==
  /\ opening # None
  /\ opening' = None
  /\ UNCHANGED <<selected, focused, swapped, turnVars, runVars, stops, transcript, sent, outcome, slips>>

\* handleNewSession: resetStream only when the session left is not running.
NewSession ==
  /\ Settled
  /\ Click(Draft)
  /\ IF focused \in busy THEN SwapTo(Draft)
     ELSE /\ visible' = NoTurn
          /\ background' = Without(background, focused)
          /\ DropBuffer(focused)
          /\ UNCHANGED slips
  /\ UNCHANGED <<live, home, rejecting, stops, transcript, sent, outcome>>

\* The effect on activeWorkspaceId.
WorkspaceSwitched ==
  /\ Settled
  /\ selected # Draft
  /\ selected' = Draft
  /\ opening' = None
  /\ UNCHANGED <<focused, swapped, turnVars, runVars, stops, transcript, sent, outcome, slips>>

\* React runs the effects of a render before it renders again.
Render ==
  /\ selected # focused
  /\ focused = swapped
  /\ focused' = selected
  /\ UNCHANGED <<selected, swapped, opening, turnVars, runVars, stops, transcript, sent, outcome, slips>>

Swap ==
  /\ Between
  /\ swapped' = focused
  /\ SwapTo(focused)
  /\ UNCHANGED <<selected, focused, opening, runVars, stops, transcript, sent, outcome>>
-----------------------------------------------------------------------------
(* Starting and stopping *)

\* handleSend in a session: resetStream and startStream up to its await.
Send(r) ==
  /\ Settled
  /\ focused # Draft
  /\ focused \notin busy
  /\ home[r] = None
  /\ home' = [home EXCEPT ![r] = focused]
  /\ live' = [live EXCEPT ![r] = Cardinality(Started) + 1]
  /\ busy' = busy \cup {focused}
  /\ visible' = NoTurn
  /\ background' = [background EXCEPT ![focused] = NoTurn]
  /\ DropBuffer(focused)
  /\ UNCHANGED <<focusVars, rejecting, stops, transcript, sent, outcome, slips>>

\* run_streaming_turn returns an error before it streams and emits nothing.
Refuse(r) ==
  /\ home[r] # None
  /\ outcome[r] = "none"
  /\ sent[r] = <<>>
  /\ outcome' = [outcome EXCEPT ![r] = "refused"]
  /\ rejecting' = rejecting \cup {r}
  /\ UNCHANGED <<focusVars, turnVars, live, home, busy, stops, transcript, sent, slips>>

\* The catch of handleSend: resetStream for whatever has the focus now.
Rejected(r) ==
  /\ r \in rejecting
  /\ rejecting' = rejecting \ {r}
  /\ busy' = busy \ {home[r]}
  /\ visible' = NoTurn
  /\ background' = Without(background, focused)
  /\ DropBuffer(focused)
  /\ slips' = slips \cup (IF outcome[r] = "refused" /\ IsLive(r) THEN {"leaked"} ELSE {})
                  \cup (IF \E x \in Runs \ {r} : IsLive(x) /\ home[x] \in {focused, swapped, home[r]}
                       THEN {"wiped"} ELSE {})
  /\ UNCHANGED <<focusVars, live, home, stops, transcript, sent, outcome>>

\* cancelStream, up to its await; the latest run of the session is its target.
Stop(c) ==
  /\ Settled
  /\ focused \in busy \ {Draft}
  /\ stops[c] = None
  /\ LiveIn(focused) # {} \/ visible.exists \/ buffer[focused] # <<>>
  /\ stops' = [stops EXCEPT ![c] = [session |-> focused, run |-> Latest(focused)]]
  /\ UNCHANGED <<focusVars, turnVars, runVars, transcript, sent, outcome, slips>>

\* cancelStreamForSession after cancel_streaming has answered.  The backend
\* has aborted the run by then, unless it has come to its end: the stop is then
\* late, and what it says is a notice.
Stopped(c) ==
  /\ stops[c] \notin {None, Answered}
  /\ LET s == stops[c].session
         r == stops[c].run
         final == VisibleFlushed(s)
         late == r # None /\ live[r] = 0
     IN /\ Say(s, Answer(r, IF late THEN "late" ELSE "stopped", Lasting(final.blocks)))
        /\ visible' = NoTurn
        /\ background' = [background EXCEPT ![s] = NoTurn]
        /\ buffer' = [x \in Sessions |-> IF x \in {s, focused} THEN <<>> ELSE buffer[x]]
        /\ frames' = frames \ {s, focused}
        /\ live' = Forget(r)
        /\ busy' = busy \ {s}
        /\ SlipIf(focused # s \/ Between \/ r = None \/ (late /\ LiveIn(s) # {}), "stopped late")
        /\ outcome' = [x \in Runs |-> IF x = r /\ outcome[r] = "none" THEN "stopped" ELSE outcome[x]]
  /\ stops' = [stops EXCEPT ![c] = Answered]
  /\ UNCHANGED <<focusVars, home, rejecting, sent>>
-----------------------------------------------------------------------------
(* Events.  A run emits until it has ended; one the window stopped may still *)
(* be in its last poll.  isStale drops the event of a run that is not live.  *)

\* A slip: late events are not recognised.
EmitsLate(r) ==
  /\ home[r] # None
  /\ outcome[r] \in {"none", "stopped"}

Emits(r) ==
  /\ home[r] # None
  /\ outcome[r] \in {"none", "stopped"}
  /\ IsLive(r)

\* The event reaches the turn of another session: between a render and its
\* effect, or in the draft view, where every event counts as foreground.
Caught(s) == Between /\ s \in {focused, swapped} \cup (IF focused = Draft THEN Sessions ELSE {})
Misplaced(r) ==
  slips' = slips \cup (IF Caught(home[r]) THEN {"between"} ELSE {})
                 \cup (IF focused = Draft THEN {"draft"} ELSE {})

\* Flush the run's session, then change its turn: the stashed one in the
\* background, the visible one otherwise.
Update(r, change(_)) ==
  LET s == home[r]
  IN /\ IF IsBackground(r)
        THEN /\ visible' = visible
             /\ background' = [BackgroundFlushed(s) EXCEPT ![s] = change(@)]
        ELSE /\ visible' = change(VisibleFlushed(s))
             /\ background' = BackgroundFlushed(s)
     /\ DropBuffer(s)

\* emitStatus "acting"
Acting(r) == busy' = busy \cup {IF IsBackground(r) THEN home[r] ELSE focused}

Texts == {p \in UNION {Range(sent[x]) : x \in Runs} : p.kind = "text"}
Others == UNION {Range(sent[x]) : x \in Runs} \ Texts

Stream(r, p) == sent' = [sent EXCEPT ![r] = Append(@, p)]

\* A slip: text is buffered for the session that has the focus.
TokenForFocus(r) ==
  LET p == Piece(r, Len(sent[r]) + 1, "text")
  IN /\ Emits(r)
     /\ focused # Draft
     /\ Cardinality(Texts) < MaxTexts
     /\ Stream(r, p)
     /\ buffer' = [buffer EXCEPT ![focused] = Append(@, p)]
     /\ frames' = frames \cup {focused}
     /\ UNCHANGED <<focusVars, visible, background, runVars, stops, transcript, outcome, slips>>

\* llm-token
Token(r) ==
  LET p == Piece(r, Len(sent[r]) + 1, "text")
      s == home[r]
  IN /\ Emits(r)
     /\ Cardinality(Texts) < MaxTexts
     /\ Stream(r, p)
     /\ buffer' = [buffer EXCEPT ![s] = Append(@, p)]
     /\ frames' = frames \cup {s}
     /\ busy' = IF s # focused THEN busy \cup {s} ELSE busy
     /\ UNCHANGED <<focusVars, visible, background, live, home, rejecting, stops, transcript, outcome, slips>>

\* What the three handlers below share: a block of some kind comes after the
\* text that was waiting.
Block(r, k) ==
  LET p == Piece(r, Len(sent[r]) + 1, k)
      Add(turn) == Put(turn, p)
  IN /\ Emits(r)
     /\ Cardinality(Others) < MaxBlocks
     /\ Stream(r, p)
     /\ Update(r, Add)
     /\ IF k = "tool" THEN Acting(r) ELSE UNCHANGED busy
     /\ Misplaced(r)
     /\ UNCHANGED <<focusVars, live, home, rejecting, stops, transcript, outcome>>

ToolCall(r) == Block(r, "tool")

\* llm-reasoning, the first delta of a block.  A later one changes the text of
\* the block, which the model does not hold, and flushes as a frame does.
Reasoning(r) == Block(r, "reasoning")

ApprovalRequested(r) == Block(r, "card")

\* llm-tool-result: completes the call's block, or adds a completed one.
Result(r) ==
  \E p \in Range(sent[r]) :
    LET done == [p EXCEPT !.kind = "result"]
        Complete(turn) == IF Holds(turn, p) THEN Turn(Replace(turn.blocks, p, done))
                          ELSE Put(turn, done)
    IN /\ Emits(r)
       /\ p.kind = "tool"
       /\ sent' = [sent EXCEPT ![r] = Replace(@, p, done)]
       /\ Update(r, Complete)
       /\ Acting(r)
       /\ Misplaced(r)
       /\ UNCHANGED <<focusVars, live, home, rejecting, stops, transcript, outcome>>

\* approval-resolved: marks the card, and creates nothing where there is none.
Resolve(r) ==
  \E p \in Range(sent[r]) :
    LET done == [p EXCEPT !.kind = "settled"]
        Mark(turn) == IF Holds(turn, p) THEN Turn(Replace(turn.blocks, p, done)) ELSE turn
    IN /\ Emits(r)
       /\ p.kind = "card"
       /\ sent' = [sent EXCEPT ![r] = Replace(@, p, done)]
       /\ Update(r, Mark)
       /\ Misplaced(r)
       /\ UNCHANGED <<focusVars, runVars, stops, transcript, outcome>>

\* llm-retry-reset: what the failed attempt streamed since the last tool or
\* card is taken back; the payload is the text before it.
RetryReset(r) ==
  \E n \in 0..Len(sent[r]) :
    LET before == SubSeq(sent[r], 1, n)
        attempt == {sent[r][i] : i \in (n + 1)..Len(sent[r])}
        Back(turn) == Turn(Trim(turn.blocks, TextCount(before), attempt))
    IN /\ Emits(r)
       /\ n > 0 => sent[r][n].kind \notin {"text", "reasoning"}
       /\ \A p \in attempt : p.kind \in {"text", "reasoning"}
       /\ sent' = [sent EXCEPT ![r] = before]
       /\ Update(r, Back)
       /\ Misplaced(r)
       /\ UNCHANGED <<focusVars, runVars, stops, transcript, outcome>>

\* The end of a run: a message of the run's final turn in its session's
\* transcript.  An error always leaves a message, an answer only if there is
\* something to show.
End(r, how) ==
  LET s == home[r]
      stashed == BackgroundFlushed(s)[s]
      final == IF IsBackground(r) \/ (s # focused /\ stashed.exists) THEN stashed
               ELSE VisibleFlushed(s)
      blocks == Lasting(final.blocks)
  IN /\ Emits(r)
     /\ outcome' = [outcome EXCEPT ![r] = how]
     /\ IF how = "failed" \/ blocks # <<>> \/ TextCount(sent[r]) > 0
        THEN Say(s, Answer(r, how, blocks))
        ELSE UNCHANGED transcript
     /\ visible' = IF s = focused THEN NoTurn ELSE visible
     /\ background' = [background EXCEPT ![s] = NoTurn]
     /\ DropBuffer(s)
     /\ live' = Forget(r)
     /\ busy' = busy \ {s}
     /\ UNCHANGED <<focusVars, home, stops, sent>>

\* llm-done
Done(r) == End(r, "done") /\ UNCHANGED rejecting /\ SlipIf(Caught(home[r]), "between")

\* llm-error; the command then rejects too.
Fail(r) == End(r, "failed") /\ rejecting' = rejecting \cup {r} /\ SlipIf(Caught(home[r]), "between")

\* The animation frame.
Frame(s) ==
  /\ s \in frames
  /\ visible' = VisibleFlushed(s)
  /\ background' = BackgroundFlushed(s)
  /\ DropBuffer(s)
  /\ SlipIf(Caught(s) /\ buffer[s] # <<>>, "between")
  /\ UNCHANGED <<focusVars, runVars, stops, transcript, sent, outcome>>
-----------------------------------------------------------------------------
FocusMoves ==
  \/ \E s \in Sessions : SelectNow(s) \/ SelectLater(s)
  \/ Open \/ OpenFails
  \/ NewSession \/ WorkspaceSwitched
  \/ Render \/ Swap

Event(r) ==
  \/ Token(r)
  \/ ToolCall(r) \/ Reasoning(r) \/ ApprovalRequested(r)
  \/ Result(r) \/ Resolve(r) \/ RetryReset(r)
  \/ Done(r) \/ Fail(r)

Next ==
  \/ FocusMoves
  \/ \E r \in Runs : Send(r) \/ Refuse(r) \/ Rejected(r) \/ Event(r)
  \/ \E c \in Stops : Stop(c) \/ Stopped(c)
  \/ \E s \in Sessions : Frame(s)

Spec == Init /\ [][Next]_vars
-----------------------------------------------------------------------------
(* Properties *)

Blocks == [run : Runs, n : Nat, kind : Kinds]
\* Text never waits without a frame that will flush it.
BufferHasFrame == \A s \in Sessions : buffer[s] # <<>> => s \in frames

BuffersHoldOwnText ==
  \A s \in Sessions : \A p \in Range(buffer[s]) :
    p.kind = "text" /\ IsLive(p.run) /\ home[p.run] = s

\* Whatever happens, the text waiting for a session is text of a live run of
\* that session: no handler, late event or focus change puts text into the
\* buffer of another session, leaves text behind there when its run ends, or
\* cancels the frame and keeps the text.
OwnBuffers == BuffersHoldOwnText /\ BufferHasFrame


\* Where the live turn of a session is.
TurnOf(s) == IF s = swapped THEN visible ELSE background[s]

\* Without a slip, the turn of a live run and the text waiting for it are what
\* the run has streamed, in order and each piece once, through any number of
\* focus changes, frames and retries: switching is lossless.
LiveTurnsAreTrue ==
  slips = {} => \A r \in Runs : IsLive(r) => TurnOf(home[r]).blocks \o buffer[home[r]] = sent[r]

\* Without a slip, a session with no live run shows no live turn and is not
\* shown as running, and one with a live run is: nothing of a run that ended,
\* or of the session viewed before, stays on the screen.
NoGhostTurns ==
  slips = {} =>
    /\ \A s \in Sessions : LiveIn(s) = {} => ~TurnOf(s).exists /\ buffer[s] = <<>>
    /\ busy = {home[r] : r \in {x \in Runs : IsLive(x)}}

\* An answer with nothing to show leaves no message.
Answerable(r) ==
  \/ outcome[r] \in {"failed", "stopped"}
  \/ outcome[r] = "done" /\ Lasting(sent[r]) # <<>>

AnswersOf(r) ==
  {i \in DOMAIN transcript[home[r]] :
     transcript[home[r]][i].run = r /\ transcript[home[r]][i].how # "late"}

\* What an answer should hold: the notice of a stop that came after the end of
\* its run holds nothing of the run.
Due(a) == Lasting(IF a.how = "late" THEN <<>> ELSE sent[a.run])

\* Without a slip, a run leaves one answer in the transcript of its session,
\* the whole of it, wherever the focus was when it ended and however it did.
\* An end and a stop that cross do not both write it: a stop whose run ended
\* within its await adds an empty notice, and no answer is overwritten.
OneWholeAnswer ==
  slips = {} =>
    /\ \A s \in Sessions : \A a \in Range(transcript[s]) : home[a.run] = s /\ a.blocks = Due(a)
    /\ \A r \in Started :
         /\ Cardinality(AnswersOf(r)) <= 1
         /\ Answerable(r) => AnswersOf(r) # {}

\* What the comment on the buffers says: text is never attributed to the wrong
\* session.  It fails in the code: a stop reads the visible turn after its
\* await, when another session may have the focus.
AnswersHoldOwnText ==
  \A s \in Sessions : \A a \in Range(transcript[s]) : \A p \in Range(a.blocks) :
    p.kind = "text" => home[p.run] = s
=============================================================================
