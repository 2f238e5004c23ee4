-------------------------- MODULE ChatStreamProofs --------------------------
(***************************************************************************)
(* What holds of the window for any number of sessions and runs, whatever  *)
(* the order of clicks, renders, events, frames and late answers: the text *)
(* that waits for a session was streamed by a live run of that session,    *)
(* and a frame that will show it is under way.                             *)
(***************************************************************************)
EXTENDS ChatStream, FiniteSetTheorems, SequenceTheorems, WellFoundedInduction, TLAPS

Views == Sessions \cup {Draft}

Types ==
  /\ selected \in Views /\ focused \in Views /\ swapped \in Views
  /\ opening # None => opening.session \in Sessions
  /\ live \in [Runs -> 0..Cardinality(Runs)]
  /\ home \in [Runs -> Sessions \cup {None}]
  /\ buffer \in [Sessions -> Seq(Blocks)]
  /\ frames \subseteq Sessions
  /\ sent \in [Runs -> Seq(Blocks)]

\* A call that awaits cancel_streaming names the session of its run.
StopsKnow ==
  /\ DOMAIN stops = Stops
  /\ \A c \in Stops :
       \/ stops[c] \in {None, Answered}
       \/ /\ stops[c].session \in Sessions
          /\ stops[c].run \in Runs => home[stops[c].run] = stops[c].session

IInv == Types /\ StopsKnow /\ BuffersHoldOwnText /\ BufferHasFrame

\* What most handlers do to the buffers: empty those of some sessions.
Clears(S) ==
  /\ buffer' = [x \in Sessions |-> IF x \in S THEN <<>> ELSE buffer[x]]
  /\ frames' = frames \ S
-----------------------------------------------------------------------------
(* Lemmas *)

LEMMA CardinalityOfRuns == Cardinality(Runs) \in Nat
BY FS_CardinalityType, StreamAssumption

\* The place a new run takes in the order of insertion.
LEMMA NextPlace ==
  ASSUME NEW r \in Runs, home[r] = None
  PROVE  Cardinality(Started) + 1 \in 1..Cardinality(Runs)
<1>1. Started \in SUBSET Runs /\ Started \cup {r} \in SUBSET Runs /\ r \notin Started
  BY DEF Started
<1>2. IsFiniteSet(Started) /\ Cardinality(Started) \in Nat
  BY <1>1, FS_Subset, FS_CardinalityType, StreamAssumption
<1>3. Cardinality(Started \cup {r}) = Cardinality(Started) + 1
  BY <1>1, <1>2, FS_AddElement
<1>4. Cardinality(Started \cup {r}) <= Cardinality(Runs)
  BY <1>1, FS_Subset, StreamAssumption
<1> QED
  BY <1>2, <1>3, <1>4, CardinalityOfRuns

\* The least of a set of natural numbers.
LEMMA LeastExists ==
  ASSUME NEW T \in SUBSET Nat, T # {}
  PROVE  \E m \in T : \A n \in T : m <= n
<1>1. PICK m \in T : \A n \in T : ~(<<n, m>> \in OpToRel(<, Nat))
  BY WFMin, NatLessThanWellFounded
<1>2. \A n \in T : ~(n < m)
  BY <1>1 DEF OpToRel
<1> QED
  BY <1>2

\* The run of a stop is a run of its session.
LEMMA LatestIsLive ==
  ASSUME NEW s \in Sessions, live \in [Runs -> 0..Cardinality(Runs)], LiveIn(s) # {}
  PROVE  Latest(s) \in LiveIn(s)
<1> DEFINE T == {n \in Nat : \A r \in LiveIn(s) : live[r] <= n}
<1>1. \A r \in LiveIn(s) : r \in Runs /\ live[r] \in Nat /\ live[r] >= 1 /\ live[r] <= Cardinality(Runs)
  BY CardinalityOfRuns DEF LiveIn, IsLive
<1>2. Cardinality(Runs) \in T
  BY <1>1, CardinalityOfRuns
<1>3. PICK m \in T : \A n \in T : m <= n
  <2> HIDE DEF T
  <2>1. T \in SUBSET Nat
    BY DEF T
  <2> QED
    BY <1>2, <2>1, LeastExists
<1>4. \E r \in LiveIn(s) : live[r] = m
  <2>1. SUFFICES ASSUME \A r \in LiveIn(s) : live[r] # m PROVE FALSE
    OBVIOUS
  <2>2. \A r \in LiveIn(s) : live[r] <= m - 1 /\ m >= 1
    BY <1>1, <1>3, <2>1
  <2>3. m \in Nat /\ m - 1 \in Nat
    BY <1>3, <2>2
  <2>4. m - 1 \in T
    BY <2>2, <2>3
  <2> QED
    BY <1>3, <2>3, <2>4
<1>5. \E r \in LiveIn(s) : \A x \in LiveIn(s) : live[x] <= live[r]
  BY <1>3, <1>4
<1> QED
  BY <1>5 DEF Latest

LEMMA RangeOfEmpty == Range(<<>>) = {}
BY DEF Range

LEMMA RangeOfAppend ==
  ASSUME NEW S, NEW q \in Seq(S), NEW x \in S
  PROVE  Range(Append(q, x)) = Range(q) \cup {x}
<1>1. DOMAIN Append(q, x) = 1..(Len(q) + 1) /\ DOMAIN q = 1..Len(q) /\ Len(q) \in Nat
  OBVIOUS
<1>2. \A i \in 1..Len(q) : Append(q, x)[i] = q[i]
  OBVIOUS
<1>3. Append(q, x)[Len(q) + 1] = x
  OBVIOUS
<1> QED
  BY <1>1, <1>2, <1>3 DEF Range

\* Emptying buffers keeps the invariants when the runs forgotten are of the
\* sessions emptied.
LEMMA ClearingKeeps ==
  ASSUME IInv, NEW S, Clears(S), UNCHANGED home, live' \in [Runs -> 0..Cardinality(Runs)],
         \A r \in Runs : live'[r] = live[r] \/ home[r] \in S
  PROVE  /\ buffer' \in [Sessions -> Seq(Blocks)] /\ frames' \subseteq Sessions
         /\ BuffersHoldOwnText' /\ BufferHasFrame'
<1>1. buffer' \in [Sessions -> Seq(Blocks)] /\ frames' \subseteq Sessions
  BY DEF Clears, IInv, Types
<1>2. BufferHasFrame'
  BY DEF Clears, IInv, Types, BufferHasFrame
<1>3. ASSUME NEW s \in Sessions, NEW p \in Range(buffer'[s])
      PROVE  p.kind = "text" /\ live'[p.run] # 0 /\ home'[p.run] = s
  <2>1. s \notin S /\ buffer'[s] = buffer[s]
    BY <1>3, RangeOfEmpty DEF Clears
  <2>2. p.kind = "text" /\ live[p.run] # 0 /\ home[p.run] = s
    BY <1>3, <2>1 DEF IInv, BuffersHoldOwnText, IsLive
  <2>3. p \in Blocks
    <3>1. buffer[s] \in Seq(Blocks)
      BY DEF IInv, Types
    <3>2. PICK i \in DOMAIN buffer[s] : p = buffer[s][i]
      BY <1>3, <2>1 DEF Range
    <3> QED
      BY <3>1, <3>2
  <2>4. p.run \in Runs
    BY <2>3 DEF Blocks
  <2> QED
    BY <2>1, <2>2, <2>4
<1> QED
  BY <1>1, <1>2, <1>3 DEF BuffersHoldOwnText, IsLive

LEMMA DropClears ==
  ASSUME IInv, NEW s \in Views, DropBuffer(s)
  PROVE  Clears({s})
<1>1. CASE s = Draft
  <2>1. Draft \notin Sessions
    BY StreamAssumption
  <2>2. frames' = frames \ {s}
    BY <1>1, <2>1 DEF DropBuffer, IInv, Types
  <2>3. buffer' = [x \in Sessions |-> IF x \in {s} THEN <<>> ELSE buffer[x]]
    BY <1>1, <2>1 DEF DropBuffer, IInv, Types
  <2> QED
    BY <2>2, <2>3 DEF Clears
<1>2. CASE s # Draft
  BY <1>2 DEF DropBuffer, Clears, IInv, Types
<1> QED
  BY <1>1, <1>2

\* Forgetting a run.
LEMMA ForgetKeepsPlaces ==
  ASSUME IInv, NEW r
  PROVE  /\ Forget(r) \in [Runs -> 0..Cardinality(Runs)]
         /\ \A x \in Runs : x # r => Forget(r)[x] = live[x]
BY CardinalityOfRuns DEF Forget, IInv, Types

LEMMA IdleClears ==
  ASSUME IInv, UNCHANGED <<buffer, frames>>
  PROVE  Clears({})
BY DEF Clears, IInv, Types

\* A step that empties buffers, forgets runs of the sessions emptied and
\* leaves the rest of the routing alone.
LEMMA ClearingStep ==
  ASSUME IInv, NEW S, Clears(S), UNCHANGED home, live' \in [Runs -> 0..Cardinality(Runs)],
         \A r \in Runs : live'[r] = live[r] \/ home[r] \in S,
         selected' \in Views, focused' \in Views, swapped' \in Views,
         opening' # None => opening'.session \in Sessions,
         sent' \in [Runs -> Seq(Blocks)],
         StopsKnow'
  PROVE  IInv'
BY ClearingKeeps DEF IInv, Types

LEMMA StopsStay ==
  ASSUME IInv, UNCHANGED <<stops, home>>
  PROVE  StopsKnow'
BY DEF IInv, StopsKnow
-----------------------------------------------------------------------------
(* The steps *)

LEMMA InitHolds == Init => IInv
<1> SUFFICES ASSUME Init PROVE IInv
  OBVIOUS
<1>1. Types
  BY StreamAssumption, CardinalityOfRuns DEF Init, Types, Views
<1>2. StopsKnow
  BY DEF Init, StopsKnow
<1>3. BuffersHoldOwnText /\ BufferHasFrame
  BY RangeOfEmpty DEF Init, BuffersHoldOwnText, BufferHasFrame
<1> QED
  BY <1>1, <1>2, <1>3 DEF IInv

\* Focus changes that are not rendered yet.
LEMMA FocusSteps ==
  ASSUME IInv,
         \/ \E s \in Sessions : SelectLater(s)
         \/ Open \/ OpenFails \/ WorkspaceSwitched \/ Render
  PROVE  IInv'
<1>1. UNCHANGED <<buffer, frames, live, home, sent, stops>>
  BY DEF SelectLater, Open, OpenFails, WorkspaceSwitched, Render, turnVars, runVars
<1>2. Clears({}) /\ StopsKnow'
  BY <1>1, IdleClears, StopsStay
<1>3. selected' \in Views /\ focused' \in Views /\ swapped' \in Views
  BY DEF IInv, Types, Views, SelectLater, Open, OpenFails, WorkspaceSwitched, Render
<1>4. opening' # None => opening'.session \in Sessions
  BY DEF IInv, Types, SelectLater, Open, OpenFails, WorkspaceSwitched, Render
<1>5. live' \in [Runs -> 0..Cardinality(Runs)] /\ sent' \in [Runs -> Seq(Blocks)]
  BY <1>1 DEF IInv, Types
<1> QED
  BY <1>1, <1>2, <1>3, <1>4, <1>5, ClearingStep

\* Focus changes that swap the turns.
LEMMA SwapSteps ==
  ASSUME IInv, (\E s \in Sessions : SelectNow(s)) \/ NewSession \/ Swap
  PROVE  IInv'
<1>1. UNCHANGED <<live, home, sent, stops>>
  BY DEF SelectNow, NewSession, Swap, Click, runVars
<1>2. StopsKnow'
  BY <1>1, StopsStay
<1>3. /\ selected' \in Views /\ focused' \in Views /\ swapped' \in Views
      /\ opening' # None => opening'.session \in Sessions
  BY DEF IInv, Types, Views, SelectNow, NewSession, Swap, Click
<1>4. \E S : Clears(S)
  <2>1. ASSUME NEW e \in Views, SwapTo(e) PROVE Clears({swapped, e})
    BY <2>1 DEF SwapTo, Clears
  <2>2. CASE \E s \in Sessions : SelectNow(s)
    BY <2>1, <2>2 DEF SelectNow, Views
  <2>3. CASE Swap
    BY <2>1, <2>3 DEF Swap, IInv, Types
  <2>4. CASE NewSession
    <3>1. SwapTo(Draft) \/ DropBuffer(focused)
      BY <2>4 DEF NewSession
    <3>2. Draft \in Views /\ focused \in Views
      BY DEF Views, IInv, Types
    <3> QED
      BY <2>1, <3>1, <3>2, DropClears
  <2> QED
    BY <2>2, <2>3, <2>4
<1>5. live' \in [Runs -> 0..Cardinality(Runs)] /\ sent' \in [Runs -> Seq(Blocks)]
  BY <1>1 DEF IInv, Types
<1> QED
  BY <1>1, <1>2, <1>3, <1>4, <1>5, ClearingStep

\* A run starts: its session's buffer is emptied, and no text of it is
\* anywhere yet.
LEMMA SendStep ==
  ASSUME IInv, NEW r \in Runs, Send(r)
  PROVE  IInv'
<1>1. focused \in Sessions /\ home[r] = None /\ r \in Runs
  BY DEF Send, IInv, Types, Views
<1>2. Clears({focused})
  BY DropClears DEF Send, IInv, Types
<1>3. home' \in [Runs -> Sessions \cup {None}] /\ live' \in [Runs -> 0..Cardinality(Runs)]
  <2>1. Cardinality(Started) + 1 \in 0..Cardinality(Runs)
    BY <1>1, NextPlace, CardinalityOfRuns
  <2> QED
    BY <1>1, <2>1 DEF Send, IInv, Types
<1>4. \A x \in Runs \ {r} : home'[x] = home[x] /\ live'[x] = live[x]
  BY DEF Send, IInv, Types
<1>5. buffer' \in [Sessions -> Seq(Blocks)] /\ frames' \subseteq Sessions
  BY <1>2 DEF Clears, IInv, Types
<1>6. Types'
  BY <1>3, <1>5 DEF Send, IInv, Types, focusVars
<1>7. StopsKnow'
  <2>1. None \notin Sessions
    BY StreamAssumption
  <2> QED
    BY <1>1, <1>4, <2>1 DEF Send, IInv, StopsKnow
<1>8. BufferHasFrame'
  BY <1>2 DEF Clears, IInv, Types, BufferHasFrame
<1>9. BuffersHoldOwnText'
  <2> SUFFICES ASSUME NEW s \in Sessions, NEW p \in Range(buffer'[s])
               PROVE  p.kind = "text" /\ live'[p.run] # 0 /\ home'[p.run] = s
    BY DEF BuffersHoldOwnText, IsLive
  <2>1. buffer'[s] = buffer[s]
    BY <1>2, RangeOfEmpty DEF Clears
  <2>2. p.kind = "text" /\ live[p.run] # 0 /\ home[p.run] = s
    BY <2>1 DEF IInv, BuffersHoldOwnText, IsLive
  <2>3. p.run \in Runs
    <3>1. buffer[s] \in Seq(Blocks)
      BY DEF IInv, Types
    <3>2. PICK i \in DOMAIN buffer[s] : p = buffer[s][i]
      BY <2>1 DEF Range
    <3>3. p \in Blocks
      BY <3>1, <3>2
    <3> QED
      BY <3>3 DEF Blocks
  <2>4. p.run # r
    BY <1>1, <2>2, StreamAssumption
  <2> QED
    BY <1>4, <2>2, <2>3, <2>4
<1> QED
  BY <1>6, <1>7, <1>8, <1>9 DEF IInv

LEMMA RefuseStep ==
  ASSUME IInv, NEW r \in Runs, Refuse(r)
  PROVE  IInv'
<1>1. UNCHANGED <<buffer, frames, live, home, sent, stops, selected, focused, swapped, opening>>
  BY DEF Refuse, focusVars, turnVars
<1> QED
  BY <1>1, IdleClears, StopsStay, ClearingStep DEF IInv, Types

LEMMA RejectedStep ==
  ASSUME IInv, NEW r \in Runs, Rejected(r)
  PROVE  IInv'
<1>1. UNCHANGED <<live, home, sent, stops, selected, focused, swapped, opening>>
  BY DEF Rejected, focusVars
<1>2. Clears({focused})
  BY DropClears DEF Rejected, IInv, Types
<1> QED
  BY <1>1, <1>2, StopsStay, ClearingStep DEF IInv, Types

\* The run of a stop, if there is one, is a run of the session it is for.
LEMMA StopStep ==
  ASSUME IInv, NEW c \in Stops, Stop(c)
  PROVE  IInv'
<1>1. UNCHANGED <<buffer, frames, live, home, sent, selected, focused, swapped, opening>>
  BY DEF Stop, focusVars, turnVars, runVars
<1>2. focused \in Sessions
  BY DEF Stop, IInv, Types, Views
<1>3. Latest(focused) \in Runs => home[Latest(focused)] = focused
  <2>1. CASE LiveIn(focused) = {}
    BY <2>1, StreamAssumption DEF Latest
  <2>2. CASE LiveIn(focused) # {}
    BY <1>2, <2>2, LatestIsLive DEF LiveIn, IInv, Types
  <2> QED
    BY <2>1, <2>2
<1>4. StopsKnow'
  BY <1>1, <1>2, <1>3 DEF Stop, IInv, StopsKnow
<1> QED
  BY <1>1, <1>4, IdleClears, ClearingStep DEF IInv, Types

\* A stop empties the buffers of its session and of the one in focus, and
\* forgets a run of its session.
LEMMA StoppedStep ==
  ASSUME IInv, NEW c \in Stops, Stopped(c)
  PROVE  IInv'
<1> DEFINE s == stops[c].session
           r == stops[c].run
<1>1. UNCHANGED <<home, sent, selected, focused, swapped, opening>>
  BY DEF Stopped, focusVars
<1>2. s \in Sessions /\ (r \in Runs => home[r] = s)
  BY DEF Stopped, IInv, StopsKnow
<1>3. Clears({s, focused})
  BY DEF Stopped, Clears
<1>4. live' = Forget(r)
  BY DEF Stopped
<1>5. live' \in [Runs -> 0..Cardinality(Runs)]
  BY <1>4, ForgetKeepsPlaces
<1>6. \A x \in Runs : live'[x] = live[x] \/ home[x] \in {s, focused}
  BY <1>2, <1>4, ForgetKeepsPlaces
<1>7. StopsKnow'
  BY <1>1 DEF Stopped, IInv, StopsKnow
<1> HIDE DEF s, r
<1> QED
  BY <1>1, <1>3, <1>5, <1>6, <1>7, ClearingStep DEF IInv, Types

\* The one action that buffers: text of a live run for the session of the run.
LEMMA TokenStep ==
  ASSUME IInv, NEW r \in Runs, Token(r)
  PROVE  IInv'
<1> DEFINE p == Piece(r, Len(sent[r]) + 1, "text")
           s == home[r]
<1>1. s \in Sessions /\ live[r] # 0
  BY DEF Token, Emits, IsLive, IInv, Types
<1>2. p \in Blocks
  BY DEF Piece, Blocks, Kinds, IInv, Types
<1>3. buffer' = [buffer EXCEPT ![s] = Append(@, p)] /\ frames' = frames \cup {s}
  BY DEF Token
<1>4. UNCHANGED <<selected, focused, swapped, opening, live, home, stops>>
  BY DEF Token, focusVars
<1>5. sent' \in [Runs -> Seq(Blocks)]
  BY <1>2 DEF Token, Stream, IInv, Types
<1>6. p.kind = "text" /\ p.run = r
  BY DEF Piece
<1> HIDE DEF p, s
<1>7. Types'
  BY <1>1, <1>2, <1>3, <1>4, <1>5 DEF IInv, Types
<1>8. BufferHasFrame'
  BY <1>1, <1>3 DEF IInv, Types, BufferHasFrame
<1>9. BuffersHoldOwnText'
  <2> SUFFICES ASSUME NEW x \in Sessions, NEW q \in Range(buffer'[x])
               PROVE  q.kind = "text" /\ live[q.run] # 0 /\ home[q.run] = x
    BY <1>4 DEF BuffersHoldOwnText, IsLive
  <2>1. buffer[s] \in Seq(Blocks)
    BY <1>1 DEF IInv, Types
  <2>2. Range(Append(buffer[s], p)) = Range(buffer[s]) \cup {p}
    BY <1>2, <2>1, RangeOfAppend
  <2>3. q \in Range(buffer[x]) \/ (x = s /\ q = p)
    BY <1>1, <1>3, <2>2 DEF IInv, Types
  <2>4. q \in Range(buffer[x]) => q.kind = "text" /\ live[q.run] # 0 /\ home[q.run] = x
    BY DEF IInv, BuffersHoldOwnText, IsLive
  <2>5. s = home[r]
    BY DEF s
  <2> QED
    BY <1>1, <1>6, <2>3, <2>4, <2>5
<1> QED
  BY <1>4, <1>7, <1>8, <1>9, StopsStay DEF IInv

LEMMA ReplaceStays ==
  ASSUME NEW S, NEW q \in Seq(S), NEW old, NEW new \in S
  PROVE  Replace(q, old, new) \in Seq(S)
<1>1. Replace(q, old, new) \in [1..Len(q) -> S] /\ Len(q) \in Nat
  BY DEF Replace
<1> QED
  BY <1>1

\* The events of a run, a new block of any kind together.
LEMMA EventIs ==
  ASSUME NEW r \in Runs, Event(r)
  PROVE  \/ Token(r) \/ \E k \in Opening \cup {"reasoning"} : Block(r, k)
         \/ Result(r) \/ Resolve(r) \/ RetryReset(r) \/ Done(r) \/ Fail(r)
BY DEF Event, ToolCall, Reasoning, ApprovalRequested, Opening

\* Events that change a turn flush the buffer of the run's session.
LEMMA TurnEvents ==
  ASSUME IInv, NEW r \in Runs,
         (\E k \in Opening \cup {"reasoning"} : Block(r, k)) \/ Result(r) \/ Resolve(r) \/ RetryReset(r)
  PROVE  IInv'
<1>1. UNCHANGED <<live, home, stops, selected, focused, swapped, opening>>
  BY DEF Block, Result, Resolve, RetryReset, focusVars, runVars
<1>2. home[r] \in Views /\ DropBuffer(home[r])
  BY DEF Block, Result, Resolve, RetryReset, Update, Emits, IInv, Types, Views
<1>3. Clears({home[r]})
  BY <1>2, DropClears
<1>4. sent' \in [Runs -> Seq(Blocks)]
  <2>1. sent \in [Runs -> Seq(Blocks)]
    BY DEF IInv, Types
  <2>2. ASSUME NEW k \in Opening \cup {"reasoning"}, Block(r, k)
        PROVE  sent' \in [Runs -> Seq(Blocks)]
    <3>1. Piece(r, Len(sent[r]) + 1, k) \in Blocks
      BY <2>1 DEF Piece, Blocks, Kinds, Opening
    <3> QED
      BY <2>1, <2>2, <3>1 DEF Block, Stream
  <2>3. ASSUME NEW q \in Range(sent[r]), NEW k \in Kinds
        PROVE  [q EXCEPT !.kind = k] \in Blocks
    <3>1. sent[r] \in Seq(Blocks)
      BY <2>1
    <3>2. q \in Blocks
      BY <3>1 DEF Range
    <3> QED
      BY <3>2 DEF Blocks
  <2>4. ASSUME NEW q \in Range(sent[r]), NEW k \in Kinds,
               sent' = [sent EXCEPT ![r] = Replace(@, q, [q EXCEPT !.kind = k])]
        PROVE  sent' \in [Runs -> Seq(Blocks)]
    <3>1. sent[r] \in Seq(Blocks)
      BY <2>1
    <3>2. Replace(sent[r], q, [q EXCEPT !.kind = k]) \in Seq(Blocks)
      BY <2>3, <3>1, ReplaceStays
    <3> QED
      BY <2>1, <2>4, <3>2
  <2>5. CASE Result(r)
    <3>1. PICK q \in Range(sent[r]) : sent' = [sent EXCEPT ![r] = Replace(@, q, [q EXCEPT !.kind = "result"])]
      BY <2>5 DEF Result
    <3> QED
      BY <2>4, <3>1 DEF Kinds
  <2>6. CASE Resolve(r)
    <3>1. PICK q \in Range(sent[r]) : sent' = [sent EXCEPT ![r] = Replace(@, q, [q EXCEPT !.kind = "settled"])]
      BY <2>6 DEF Resolve
    <3> QED
      BY <2>4, <3>1 DEF Kinds
  <2>7. CASE RetryReset(r)
    <3>1. PICK n \in 0..Len(sent[r]) : sent' = [sent EXCEPT ![r] = SubSeq(sent[r], 1, n)]
      BY <2>7 DEF RetryReset
    <3>2. sent[r] \in Seq(Blocks)
      BY <2>1
    <3>3. SubSeq(sent[r], 1, n) \in Seq(Blocks)
      BY <3>1, <3>2
    <3> QED
      BY <2>1, <3>1, <3>3
  <2> QED
    BY <2>2, <2>5, <2>6, <2>7
<1> QED
  BY <1>1, <1>3, <1>4, StopsStay, ClearingStep DEF IInv, Types

\* A run that ends takes the text waiting for its session along.
LEMMA EndSteps ==
  ASSUME IInv, NEW r \in Runs, Done(r) \/ Fail(r)
  PROVE  IInv'
<1>1. PICK how \in {"done", "failed"} : End(r, how)
  BY DEF Done, Fail
<1>2. UNCHANGED <<home, stops, sent, selected, focused, swapped, opening>>
  BY <1>1 DEF End, focusVars
<1>3. home[r] \in Views /\ DropBuffer(home[r])
  BY <1>1 DEF End, Emits, IInv, Types, Views
<1>4. Clears({home[r]})
  BY <1>3, DropClears
<1>5. live' = Forget(r)
  BY <1>1 DEF End
<1>6. \A x \in Runs : live'[x] = live[x] \/ home[x] \in {home[r]}
  BY <1>5, ForgetKeepsPlaces
<1> QED
  BY <1>2, <1>4, <1>5, <1>6, StopsStay, ForgetKeepsPlaces, ClearingStep DEF IInv, Types

LEMMA FrameStep ==
  ASSUME IInv, NEW s \in Sessions, Frame(s)
  PROVE  IInv'
<1>1. UNCHANGED <<live, home, sent, stops, selected, focused, swapped, opening>>
  BY DEF Frame, focusVars, runVars
<1>2. Clears({s})
  BY DropClears DEF Frame, Views
<1> QED
  BY <1>1, <1>2, StopsStay, ClearingStep DEF IInv, Types

LEMMA StutterStep ==
  ASSUME IInv, UNCHANGED vars
  PROVE  IInv'
<1>1. UNCHANGED <<buffer, frames, live, home, sent, stops, selected, focused, swapped, opening>>
  BY DEF vars, focusVars, turnVars, runVars
<1> QED
  BY <1>1, IdleClears, StopsStay, ClearingStep DEF IInv, Types
-----------------------------------------------------------------------------
\* The routing of text is kept by every handler.
THEOREM RoutingHolds == Spec => []IInv
<1>1. IInv /\ [Next]_vars => IInv'
  <2> SUFFICES ASSUME IInv, [Next]_vars PROVE IInv'
    OBVIOUS
  <2>1. CASE FocusMoves
    BY <2>1, FocusSteps, SwapSteps DEF FocusMoves
  <2>2. ASSUME NEW r \in Runs, Send(r) \/ Refuse(r) \/ Rejected(r) PROVE IInv'
    BY <2>2, SendStep, RefuseStep, RejectedStep
  <2>3. ASSUME NEW r \in Runs, Event(r) PROVE IInv'
    BY <2>3, EventIs, TokenStep, TurnEvents, EndSteps
  <2>4. ASSUME NEW c \in Stops, Stop(c) \/ Stopped(c) PROVE IInv'
    BY <2>4, StopStep, StoppedStep
  <2>5. ASSUME NEW s \in Sessions, Frame(s) PROVE IInv'
    BY <2>5, FrameStep
  <2>6. CASE UNCHANGED vars
    BY <2>6, StutterStep
  <2> QED
    BY <2>1, <2>2, <2>3, <2>4, <2>5, <2>6 DEF Next
<1> QED
  BY <1>1, InitHolds, PTL DEF Spec

\* For any number of sessions and runs, the text that waits for a session was
\* streamed by a live run of that session, and has a frame that will show it:
\* neither a switch, nor a late event, nor a stop that comes back when another
\* session is viewed puts text into another session's buffer, and none of the
\* handlers that cancel frames leaves text behind.
THEOREM BuffersAreOwn == Spec => []OwnBuffers
<1>1. IInv => OwnBuffers
  BY DEF IInv, OwnBuffers
<1> QED
  BY <1>1, RoutingHolds, PTL
-----------------------------------------------------------------------------
(* What is taken back *)

\* The places of a block list that hold text, up to one of them.
TextsUpTo(b, i) == {j \in 1..i : b[j].kind = "text"}

LEMMA TextsCounted ==
  ASSUME NEW b \in Seq(Blocks), NEW i \in 0..Len(b)
  PROVE  /\ TextCount(SubSeq(b, 1, i)) = Cardinality(TextsUpTo(b, i))
         /\ IsFiniteSet(TextsUpTo(b, i)) /\ Cardinality(TextsUpTo(b, i)) \in Nat
<1>1. DOMAIN SubSeq(b, 1, i) = 1..i /\ \A j \in 1..i : SubSeq(b, 1, i)[j] = b[j]
  OBVIOUS
<1>2. {j \in DOMAIN SubSeq(b, 1, i) : SubSeq(b, 1, i)[j].kind = "text"} = TextsUpTo(b, i)
  BY <1>1 DEF TextsUpTo
<1>3. IsFiniteSet(1..i)
  BY FS_Interval
<1>4. IsFiniteSet(TextsUpTo(b, i))
  BY <1>3, FS_Subset DEF TextsUpTo
<1> QED
  BY <1>2, <1>4, FS_CardinalityType DEF TextCount

\* The first places of a list, chosen, are its beginning.
LEMMA ChosenFirst ==
  ASSUME NEW b \in Seq(Blocks), NEW n \in 0..Len(b)
  PROVE  Chosen(b, 1..n) = SubSeq(b, 1, n)
<1>1. ASSUME NEW i \in 0..n PROVE Cardinality(1..i) = i
  <2>1. Cardinality(1..i) = IF 1 > i THEN 0 ELSE i - 1 + 1
    BY FS_Interval, SMTT(30)
  <2> QED
    BY <2>1
<1>2. ASSUME NEW i \in 1..n PROVE Cardinality({k \in 1..n : k <= i}) = i
  <2>1. {k \in 1..n : k <= i} = 1..i
    OBVIOUS
  <2>2. Cardinality(1..i) = i
    BY <1>1
  <2> QED
    BY <2>1, <2>2, Zenon
<1>3. ASSUME NEW j \in 1..n
      PROVE  (CHOOSE i \in 1..n : Cardinality({k \in 1..n : k <= i}) = j) = j
  <2>1. \A i \in 1..n : Cardinality({k \in 1..n : k <= i}) = j <=> i = j
    BY <1>2
  <2> DEFINE P(i) == Cardinality({k \in 1..n : k <= i}) = j
  <2>2. \A i \in 1..n : P(i) <=> i = j
    BY <2>1
  <2> HIDE DEF P
  <2>3. (CHOOSE i \in 1..n : P(i)) = j
    BY <2>2
  <2> QED
    BY <2>3 DEF P
<1>4. Cardinality(1..n) = n
  BY <1>1
<1>5. Chosen(b, 1..n) = [j \in 1..n |-> b[j]]
  <2>1. Chosen(b, 1..n)
          = [j \in 1..n |-> b[CHOOSE i \in 1..n : Cardinality({k \in 1..n : k <= i}) = j]]
    BY <1>4, Zenon DEF Chosen
  <2> QED
    BY <1>3, <2>1, Zenon
<1>6. SubSeq(b, 1, n) = [j \in 1..n |-> b[j]]
  OBVIOUS
<1> QED
  BY <1>5, <1>6

\* What a failed attempt streamed is the end of the list, and taking it back leaves what was before.
LEMMA TrimTakesBack ==
  ASSUME NEW b \in Seq(Blocks), \A i \in DOMAIN b : b[i].n = i, NEW n \in 0..Len(b),
         NEW attempt, attempt = {b[i] : i \in (n + 1)..Len(b)},
         \A p \in attempt : p.kind \in {"text", "reasoning"}
  PROVE  Trim(b, TextCount(SubSeq(b, 1, n)), attempt) = SubSeq(b, 1, n)
<1> DEFINE limit == TextCount(SubSeq(b, 1, n))
           Keeps(i) == CASE b[i].kind = "text" -> TextCount(SubSeq(b, 1, i)) <= limit
                         [] b[i].kind = "reasoning" -> b[i] \notin attempt
                         [] OTHER -> TRUE
<1>1. DOMAIN b = 1..Len(b) /\ Len(b) \in Nat /\ \A i \in 1..Len(b) : b[i] \in Blocks
  OBVIOUS
<1>2. ASSUME NEW i \in 1..n PROVE Keeps(i)
  <2>1. b[i].kind = "text" => TextCount(SubSeq(b, 1, i)) <= limit
    <3>1. TextsUpTo(b, i) \subseteq TextsUpTo(b, n)
      BY DEF TextsUpTo
    <3>2. i \in 0..Len(b)
      OBVIOUS
    <3>3. Cardinality(TextsUpTo(b, i)) <= Cardinality(TextsUpTo(b, n))
      BY <3>1, TextsCounted, FS_Subset
    <3> QED
      BY <3>2, <3>3, TextsCounted
  <2>2. b[i] \notin attempt
    <3> SUFFICES ASSUME NEW k \in (n + 1)..Len(b), b[k] = b[i] PROVE FALSE
      OBVIOUS
    <3>1. b[k].n = k /\ b[i].n = i
      BY <1>1
    <3> QED
      BY <3>1
  <2> HIDE DEF limit
  <2> QED
    BY <2>1, <2>2
<1>3. ASSUME NEW i \in (n + 1)..Len(b) PROVE ~Keeps(i)
  <2>1. b[i] \in attempt /\ b[i].kind \in {"text", "reasoning"}
    OBVIOUS
  <2>2. ASSUME b[i].kind = "text" PROVE ~(TextCount(SubSeq(b, 1, i)) <= limit)
    <3> DEFINE before == TextsUpTo(b, n)
    <3>1. before \cup {i} \subseteq TextsUpTo(b, i) /\ i \notin before
      BY <2>2 DEF TextsUpTo
    <3>2. IsFiniteSet(before) /\ Cardinality(before) \in Nat
      BY TextsCounted
    <3>3. Cardinality(before \cup {i}) = Cardinality(before) + 1
      BY <3>1, <3>2, FS_AddElement
    <3>4. i \in 0..Len(b)
      OBVIOUS
    <3>5. IsFiniteSet(TextsUpTo(b, i)) /\ Cardinality(TextsUpTo(b, i)) \in Nat
      BY <3>4, TextsCounted
    <3>6. Cardinality(before \cup {i}) <= Cardinality(TextsUpTo(b, i))
      BY <3>1, <3>5, FS_Subset
    <3>7. limit = Cardinality(before) /\ TextCount(SubSeq(b, 1, i)) = Cardinality(TextsUpTo(b, i))
      BY <3>4, TextsCounted
    <3> HIDE DEF before, limit
    <3> QED
      BY <3>2, <3>3, <3>5, <3>6, <3>7
  <2> HIDE DEF limit
  <2> QED
    BY <2>1, <2>2
<1>4. {i \in DOMAIN b : Keeps(i)} = 1..n
  <2> HIDE DEF Keeps
  <2> QED
    BY <1>1, <1>2, <1>3
<1>5. Trim(b, limit, attempt) = Chosen(b, {i \in DOMAIN b : Keeps(i)})
  BY DEF Trim
<1> HIDE DEF Keeps, limit
<1>6. Trim(b, limit, attempt) = SubSeq(b, 1, n)
  BY <1>4, <1>5, ChosenFirst
<1> QED
  BY <1>6 DEF limit
-----------------------------------------------------------------------------
(* Without a slip: the runs *)

LiveHomes == {home[r] : r \in {x \in Runs : IsLive(x)}}

\* Of the runs: what a run streams is numbered, a session has one live run at most and is shown as
\* running when it has one, and what a run may still do follows from how it ended.
RunsHold ==
  /\ \A r \in Runs : \A i \in DOMAIN sent[r] : sent[r][i].n = i
  /\ \A r \in Runs : IsLive(r) =>
       /\ home[r] \in Sessions /\ outcome[r] \in {"none", "refused"}
       /\ \A x \in Runs : IsLive(x) /\ home[x] = home[r] => x = r
  /\ busy = LiveHomes
  /\ \A r \in Runs : home[r] = None => sent[r] = <<>> /\ outcome[r] = "none" /\ ~IsLive(r)
  /\ \A r \in Runs : home[r] # None /\ ~IsLive(r) => outcome[r] # "none"
  /\ \A r \in rejecting : r \in Runs /\ outcome[r] \in {"refused", "failed"}
  /\ \A c \in Stops : stops[c] # None => stops[c].run \in Runs \cup {None}
  /\ outcome \in [Runs -> {"none", "done", "failed", "stopped", "refused"}]

LEMMA SlipsStay == ASSUME [Next]_vars, slips' = {} PROVE slips = {}
<1>1. CASE FocusMoves
  BY <1>1 DEF FocusMoves, SelectNow, SelectLater, Open, OpenFails, NewSession, WorkspaceSwitched,
              Render, Swap, SwapTo, SlipIf
<1>2. ASSUME NEW r \in Runs, Send(r) \/ Refuse(r) \/ Rejected(r) PROVE slips = {}
  BY <1>2 DEF Send, Refuse, Rejected
<1>3. ASSUME NEW r \in Runs, Event(r) PROVE slips = {}
  BY <1>3, EventIs DEF Token, Block, Result, Resolve, RetryReset, Done, Fail, Misplaced, SlipIf
<1>4. ASSUME NEW c \in Stops, Stop(c) \/ Stopped(c) PROVE slips = {}
  BY <1>4 DEF Stop, Stopped, SlipIf
<1>5. ASSUME NEW s \in Sessions, Frame(s) PROVE slips = {}
  BY <1>5 DEF Frame, SlipIf
<1>6. CASE UNCHANGED vars
  BY <1>6 DEF vars
<1> QED
  BY <1>1, <1>2, <1>3, <1>4, <1>5, <1>6 DEF Next

\* Without a slip, an event finds its session where its turn is: shown and in focus, or neither.
Placed(s) == (s = focused /\ s = swapped) \/ (s # focused /\ s # swapped /\ focused # Draft)

LEMMA MisplacedNot ==
  ASSUME Types, NEW r \in Runs, home[r] \in Sessions, Misplaced(r), slips' = {}
  PROVE  Placed(home[r]) /\ focused # Draft
BY StreamAssumption DEF Misplaced, Caught, Between, Placed, Types, Views

\* A change of a block in place keeps the numbers.
LEMMA ReplaceKeepsNumbers ==
  ASSUME NEW b \in Seq(Blocks), \A i \in DOMAIN b : b[i].n = i, NEW q \in Range(b), NEW k \in Kinds
  PROVE  \A i \in DOMAIN Replace(b, q, [q EXCEPT !.kind = k]) :
           Replace(b, q, [q EXCEPT !.kind = k])[i].n = i
<1>1. q \in Blocks
  <2>1. PICK i \in DOMAIN b : q = b[i]
    BY DEF Range
  <2> QED
    BY <2>1
<1>2. [q EXCEPT !.kind = k].n = q.n
  BY <1>1 DEF Blocks
<1> QED
  BY <1>2 DEF Replace

\* Events in which a live run streams, changes or takes back blocks.
Streams(r) ==
  Token(r) \/ (\E k \in Opening \cup {"reasoning"} : Block(r, k)) \/ Result(r) \/ Resolve(r)
           \/ RetryReset(r)

LEMMA StreamsFacts ==
  ASSUME IInv, RunsHold, NEW r \in Runs, Streams(r), slips' = {}
  PROVE  /\ IsLive(r) /\ home[r] \in Sessions /\ outcome[r] = "none"
         /\ UNCHANGED <<focusVars, live, home, rejecting, stops, transcript, outcome>>
         /\ \A x \in Runs \ {r} : sent'[x] = sent[x]
         /\ busy' = busy
         /\ \A i \in DOMAIN sent'[r] : sent'[r][i].n = i
<1>1. IsLive(r) /\ outcome[r] \in {"none", "stopped"}
  BY DEF Streams, Token, Block, Result, Resolve, RetryReset, Emits
<1>2. home[r] \in Sessions /\ outcome[r] = "none" /\ home[r] \in busy
  BY <1>1 DEF RunsHold, LiveHomes
<1>3. UNCHANGED <<focusVars, live, home, rejecting, stops, transcript, outcome>>
  BY DEF Streams, Token, Block, Result, Resolve, RetryReset, runVars
<1>4. \A x \in Runs \ {r} : sent'[x] = sent[x]
  BY DEF Streams, Token, Block, Result, Resolve, RetryReset, Stream, IInv, Types
<1>5. busy' = busy
  <2>1. CASE Token(r)
    BY <1>2, <2>1 DEF Token
  <2>2. CASE ~Token(r)
    <3>1. Misplaced(r) /\ (Acting(r) \/ busy' = busy)
      BY <2>2 DEF Streams, Block, Result, Resolve, RetryReset, runVars
    <3>2. Placed(home[r])
      BY <1>2, <3>1, MisplacedNot DEF IInv
    <3> QED
      BY <1>2, <3>1, <3>2 DEF Acting, IsBackground, Placed
  <2> QED
    BY <2>1, <2>2
<1>6. \A i \in DOMAIN sent'[r] : sent'[r][i].n = i
  <2>1. sent \in [Runs -> Seq(Blocks)] /\ sent[r] \in Seq(Blocks)
    BY DEF IInv, Types
  <2>2. \A i \in DOMAIN sent[r] : sent[r][i].n = i
    BY DEF RunsHold
  <2>3. ASSUME NEW k, sent' = [sent EXCEPT ![r] = Append(@, Piece(r, Len(sent[r]) + 1, k))]
        PROVE  \A i \in DOMAIN sent'[r] : sent'[r][i].n = i
    <3>1. sent'[r] = Append(sent[r], Piece(r, Len(sent[r]) + 1, k))
      BY <2>1, <2>3
    <3>2. /\ DOMAIN sent'[r] = 1..(Len(sent[r]) + 1) /\ DOMAIN sent[r] = 1..Len(sent[r])
          /\ \A i \in 1..Len(sent[r]) : sent'[r][i] = sent[r][i]
          /\ sent'[r][Len(sent[r]) + 1].n = Len(sent[r]) + 1
      BY <2>1, <3>1 DEF Piece
    <3> QED
      BY <2>2, <3>2
  <2>4. CASE Token(r)
    BY <2>3, <2>4 DEF Token, Stream
  <2>5. ASSUME NEW k \in Opening \cup {"reasoning"}, Block(r, k)
        PROVE  \A i \in DOMAIN sent'[r] : sent'[r][i].n = i
    BY <2>3, <2>5 DEF Block, Stream
  <2>6. ASSUME NEW q \in Range(sent[r]), NEW k \in Kinds,
               sent' = [sent EXCEPT ![r] = Replace(@, q, [q EXCEPT !.kind = k])]
        PROVE  \A i \in DOMAIN sent'[r] : sent'[r][i].n = i
    <3>1. sent'[r] = Replace(sent[r], q, [q EXCEPT !.kind = k])
      BY <2>1, <2>6
    <3> QED
      BY <2>1, <2>2, <3>1, ReplaceKeepsNumbers
  <2>7. CASE Result(r)
    <3>1. PICK q \in Range(sent[r]) :
            sent' = [sent EXCEPT ![r] = Replace(@, q, [q EXCEPT !.kind = "result"])]
      BY <2>7 DEF Result
    <3> QED
      BY <2>6, <3>1 DEF Kinds
  <2>8. CASE Resolve(r)
    <3>1. PICK q \in Range(sent[r]) :
            sent' = [sent EXCEPT ![r] = Replace(@, q, [q EXCEPT !.kind = "settled"])]
      BY <2>8 DEF Resolve
    <3> QED
      BY <2>6, <3>1 DEF Kinds
  <2>9. CASE RetryReset(r)
    <3>1. PICK n \in 0..Len(sent[r]) : sent' = [sent EXCEPT ![r] = SubSeq(sent[r], 1, n)]
      BY <2>9 DEF RetryReset
    <3>2. sent'[r] = SubSeq(sent[r], 1, n)
      BY <2>1, <3>1
    <3>3. DOMAIN sent'[r] = 1..n /\ \A i \in 1..n : sent'[r][i] = sent[r][i] /\ i \in DOMAIN sent[r]
      BY <2>1, <3>2
    <3> QED
      BY <2>2, <3>3
  <2> QED
    BY <2>4, <2>5, <2>7, <2>8, <2>9 DEF Streams
<1> QED
  BY <1>1, <1>2, <1>3, <1>4, <1>5, <1>6

LEMMA RunsStay ==
  ASSUME RunsHold, UNCHANGED <<live, home, rejecting, stops, sent, outcome>>,
         busy' = busy \/ busy' = busy \ {Draft}
  PROVE  RunsHold'
<1>1. Draft \notin busy
  BY StreamAssumption DEF RunsHold, LiveHomes
<1>2. LiveHomes' = LiveHomes
  BY DEF LiveHomes, IsLive
<1> QED
  BY <1>1, <1>2 DEF RunsHold, IsLive

LEMMA RunsSend ==
  ASSUME IInv, RunsHold, NEW r \in Runs, Send(r)
  PROVE  RunsHold'
<1>1. focused \in Sessions /\ home[r] = None /\ focused \notin busy
  BY DEF Send, IInv, Types, Views
<1>2. /\ home'[r] = focused /\ live'[r] # 0
      /\ \A x \in Runs \ {r} : home'[x] = home[x] /\ live'[x] = live[x]
  <2>1. Cardinality(Started) + 1 \in 1..Cardinality(Runs)
    BY <1>1, NextPlace
  <2>2. Cardinality(Started) + 1 # 0
    BY <2>1, CardinalityOfRuns
  <2> QED
    BY <2>2 DEF Send, IInv, Types
<1>3. UNCHANGED <<sent, outcome, rejecting, stops>> /\ busy' = busy \cup {focused}
  BY DEF Send
<1>4. ~IsLive(r) /\ outcome[r] = "none"
  BY <1>1 DEF RunsHold
<1>5. \A x \in Runs \ {r} : IsLive(x)' = IsLive(x)
  BY <1>2 DEF IsLive
<1>6. IsLive(r)'
  BY <1>2 DEF IsLive
<1>7. LiveHomes' = LiveHomes \cup {focused}
  BY <1>2, <1>4, <1>5, <1>6 DEF LiveHomes
<1>8. \A x \in Runs : IsLive(x) => home[x] # focused
  BY <1>1 DEF RunsHold, LiveHomes
<1>9. \A x \in Runs : IsLive(x)' =>
        /\ home'[x] \in Sessions /\ outcome'[x] \in {"none", "refused"}
        /\ \A y \in Runs : IsLive(y)' /\ home'[y] = home'[x] => y = x
  BY <1>1, <1>2, <1>3, <1>4, <1>5, <1>8 DEF RunsHold
<1>10. \A x \in Runs : home'[x] = None => sent'[x] = <<>> /\ outcome'[x] = "none" /\ ~IsLive(x)'
  BY <1>1, <1>2, <1>3, <1>5, StreamAssumption DEF RunsHold
<1>11. \A x \in Runs : home'[x] # None /\ ~IsLive(x)' => outcome'[x] # "none"
  BY <1>2, <1>3, <1>5, <1>6 DEF RunsHold
<1> QED
  BY <1>3, <1>7, <1>9, <1>10, <1>11 DEF RunsHold

LEMMA RunsRefuse ==
  ASSUME RunsHold, NEW r \in Runs, Refuse(r)
  PROVE  RunsHold'
<1>1. /\ home[r] # None /\ outcome' = [outcome EXCEPT ![r] = "refused"]
      /\ rejecting' = rejecting \cup {r}
      /\ UNCHANGED <<live, home, busy, stops, sent>>
  BY DEF Refuse
<1>2. outcome'[r] = "refused" /\ \A x \in Runs \ {r} : outcome'[x] = outcome[x]
  BY <1>1 DEF RunsHold
<1>3. LiveHomes' = LiveHomes
  BY <1>1 DEF LiveHomes, IsLive
<1> QED
  BY <1>1, <1>2, <1>3 DEF RunsHold, IsLive

\* A rejection that does no harm: the run is not live, and no other is where the view changes.
LEMMA RejectedNot ==
  ASSUME RunsHold, NEW r \in Runs, Rejected(r), slips' = {}
  PROVE  \A x \in Runs : IsLive(x) => home[x] \notin {focused, swapped, home[r]}
<1>1. ~(outcome[r] = "refused" /\ IsLive(r))
  BY DEF Rejected
<1>2. ~\E x \in Runs \ {r} : IsLive(x) /\ home[x] \in {focused, swapped, home[r]}
  BY DEF Rejected
<1>3. ~IsLive(r)
  BY <1>1 DEF Rejected, RunsHold
<1> QED
  BY <1>2, <1>3

LEMMA RunsRejected ==
  ASSUME RunsHold, NEW r \in Runs, Rejected(r), slips' = {}
  PROVE  RunsHold'
<1>1. /\ rejecting' = rejecting \ {r} /\ busy' = busy \ {home[r]}
      /\ UNCHANGED <<live, home, stops, sent, outcome>>
  BY DEF Rejected
<1>2. home[r] \notin busy
  BY RejectedNot DEF RunsHold, LiveHomes
<1>3. LiveHomes' = LiveHomes
  BY <1>1 DEF LiveHomes, IsLive
<1> QED
  BY <1>1, <1>2, <1>3 DEF RunsHold, IsLive

\* A run that ends is not live any more, and its session is not shown as running.
LEMMA RunsForget ==
  ASSUME IInv, RunsHold, NEW r \in Runs, IsLive(r), NEW how \in {"done", "failed", "stopped", "refused"},
         live' = Forget(r), busy' = busy \ {home[r]}, outcome' = [outcome EXCEPT ![r] = how],
         UNCHANGED <<home, sent>>,
         rejecting' = rejecting \/ (rejecting' = rejecting \cup {r} /\ how = "failed"),
         how = "refused" \/ outcome[r] = "none",
         \A c \in Stops : stops'[c] # None => stops'[c].run \in Runs \cup {None}
  PROVE  RunsHold'
<1>1. /\ ~IsLive(r)' /\ \A x \in Runs \ {r} : IsLive(x)' = IsLive(x)
  BY DEF Forget, IsLive
<1>2. outcome'[r] = how /\ \A x \in Runs \ {r} : outcome'[x] = outcome[x]
  BY DEF RunsHold
<1>3. LiveHomes' = LiveHomes \ {home[r]}
  BY <1>1 DEF LiveHomes, RunsHold
<1>4. busy' = LiveHomes'
  BY <1>3 DEF RunsHold
<1>5. \A x \in Runs : IsLive(x)' =>
        /\ home'[x] \in Sessions /\ outcome'[x] \in {"none", "refused"}
        /\ \A y \in Runs : IsLive(y)' /\ home'[y] = home'[x] => y = x
  BY <1>1, <1>2 DEF RunsHold
<1>6. \A x \in Runs : home'[x] = None => sent'[x] = <<>> /\ outcome'[x] = "none" /\ ~IsLive(x)'
  BY <1>1, <1>2, StreamAssumption DEF RunsHold
<1>7. \A x \in rejecting' : x \in Runs /\ outcome'[x] \in {"refused", "failed"}
  BY <1>2 DEF RunsHold
<1>8. outcome' \in [Runs -> {"none", "done", "failed", "stopped", "refused"}]
  BY DEF RunsHold
<1>9. \A x \in Runs : home'[x] # None /\ ~IsLive(x)' => outcome'[x] # "none"
  BY <1>1, <1>2 DEF RunsHold
<1> QED
  BY <1>4, <1>5, <1>6, <1>7, <1>8, <1>9 DEF RunsHold

\* A stop that does no harm is for the session shown, and for its live run or for one that has
\* ended and was its last.
LEMMA StoppedInTime ==
  ASSUME IInv, RunsHold, NEW c \in Stops, Stopped(c), slips' = {},
         NEW s, NEW r, s = stops[c].session, r = stops[c].run
  PROVE  /\ s \in Sessions /\ s = focused /\ s = swapped
         /\ r \in Runs /\ home[r] = s
         /\ ~IsLive(r) => /\ LiveIn(s) = {} /\ live' = live
                          /\ outcome[r] # "none" /\ outcome' = outcome
<1>1. /\ focused = s /\ ~Between /\ r # None /\ (live[r] = 0 => LiveIn(s) = {})
      /\ live' = Forget(r)
      /\ outcome' = [x \in Runs |-> IF x = r /\ outcome[r] = "none" THEN "stopped" ELSE outcome[x]]
  BY DEF Stopped, SlipIf
<1>2. s \in Sessions /\ (r \in Runs => home[r] = s)
  BY DEF Stopped, IInv, StopsKnow
<1>3. r \in Runs
  BY <1>1 DEF Stopped, RunsHold
<1>4. ASSUME ~IsLive(r) PROVE live' = live /\ outcome[r] # "none" /\ outcome' = outcome
  <2>1. live[r] = 0 /\ live \in [Runs -> 0..Cardinality(Runs)]
    BY <1>4 DEF IsLive, IInv, Types
  <2>2. live' = live
    BY <1>1, <2>1 DEF Forget
  <2>3. outcome[r] # "none" /\ outcome \in [Runs -> {"none", "done", "failed", "stopped", "refused"}]
    BY <1>2, <1>3, <1>4, StreamAssumption DEF RunsHold
  <2>4. outcome' = outcome
    BY <1>1, <2>3
  <2> QED
    BY <2>2, <2>3, <2>4
<1> QED
  BY <1>1, <1>2, <1>3, <1>4 DEF Between, IsLive

LEMMA RunsStopped ==
  ASSUME IInv, RunsHold, NEW c \in Stops, Stopped(c), slips' = {}
  PROVE  RunsHold'
<1> DEFINE s == stops[c].session
           r == stops[c].run
           how == IF outcome[r] = "none" THEN "stopped" ELSE outcome[r]
<1>1. s \in Sessions /\ r \in Runs /\ home[r] = s
  BY StoppedInTime
<1>2. IsLive(r) => how \in {"stopped", "refused"} /\ (how = "refused" \/ outcome[r] = "none")
  BY <1>1 DEF RunsHold
<1>3. outcome' = [outcome EXCEPT ![r] = how]
  <2>1. outcome' = [x \in Runs |-> IF x = r /\ outcome[r] = "none" THEN "stopped" ELSE outcome[x]]
    BY DEF Stopped
  <2> QED
    BY <1>1, <2>1 DEF RunsHold
<1>4. live' = Forget(r) /\ busy' = busy \ {home[r]} /\ UNCHANGED <<home, sent, rejecting>>
  BY <1>1 DEF Stopped
<1>5. \A d \in Stops : stops'[d] # None => stops'[d].run \in Runs \cup {None}
  <2>1. stops' = [stops EXCEPT ![c] = Answered] /\ Answered.run = None
    BY DEF Stopped, Answered
  <2> QED
    BY <2>1 DEF RunsHold, IInv, StopsKnow
<1>6. ~IsLive(r) => LiveIn(s) = {} /\ live' = live /\ outcome' = outcome
  BY StoppedInTime
<1> HIDE DEF s, r, how
<1>7. CASE IsLive(r)
  BY <1>1, <1>2, <1>3, <1>4, <1>5, <1>7, RunsForget
<1>8. CASE ~IsLive(r)
  <2>1. UNCHANGED <<live, home, rejecting, sent, outcome>> /\ LiveIn(s) = {}
    BY <1>4, <1>6, <1>8
  <2>2. s \notin LiveHomes
    BY <2>1 DEF LiveHomes, LiveIn
  <2>3. busy' = busy
    BY <1>1, <1>4, <2>2 DEF RunsHold
  <2>4. LiveHomes' = LiveHomes
    BY <2>1 DEF LiveHomes, IsLive
  <2> QED
    BY <1>5, <2>1, <2>3, <2>4 DEF RunsHold, IsLive
<1> QED
  BY <1>7, <1>8

LEMMA RunsEnd ==
  ASSUME IInv, RunsHold, NEW r \in Runs, Done(r) \/ Fail(r)
  PROVE  RunsHold'
<1>1. PICK how \in {"done", "failed"} :
        /\ End(r, how)
        /\ rejecting' = rejecting \/ (rejecting' = rejecting \cup {r} /\ how = "failed")
  BY DEF Done, Fail
<1>2. /\ IsLive(r) /\ live' = Forget(r) /\ busy' = busy \ {home[r]}
      /\ outcome' = [outcome EXCEPT ![r] = how] /\ UNCHANGED <<home, sent, stops>>
      /\ outcome[r] \in {"none", "stopped"}
  BY <1>1 DEF End, Emits
<1>3. outcome[r] = "none"
  BY <1>2 DEF RunsHold
<1>4. \A c \in Stops : stops'[c] # None => stops'[c].run \in Runs \cup {None}
  BY <1>2 DEF RunsHold
<1> QED
  BY <1>1, <1>2, <1>3, <1>4, RunsForget

LEMMA RunsStop ==
  ASSUME IInv, RunsHold, NEW c \in Stops, Stop(c)
  PROVE  RunsHold'
<1>1. UNCHANGED <<live, home, busy, rejecting, sent, outcome>> /\ focused \in Sessions
  BY DEF Stop, runVars, IInv, Types, Views
<1>2. Latest(focused) \in Runs \cup {None}
  <2>1. CASE LiveIn(focused) = {}
    BY <2>1 DEF Latest
  <2>2. CASE LiveIn(focused) # {}
    BY <1>1, <2>2, LatestIsLive DEF LiveIn, IInv, Types
  <2> QED
    BY <2>1, <2>2
<1>3. \A d \in Stops : stops'[d] # None => stops'[d].run \in Runs \cup {None}
  <2>1. stops' = [stops EXCEPT ![c] = [session |-> focused, run |-> Latest(focused)]]
    BY DEF Stop
  <2> QED
    BY <1>2, <2>1 DEF RunsHold, IInv, StopsKnow
<1>4. LiveHomes' = LiveHomes
  BY <1>1 DEF LiveHomes, IsLive
<1> QED
  BY <1>1, <1>3, <1>4 DEF RunsHold, IsLive

LEMMA RunsStep ==
  ASSUME IInv, RunsHold, [Next]_vars, slips' = {}
  PROVE  RunsHold'
<1>1. CASE FocusMoves
  <2>1. /\ UNCHANGED <<live, home, rejecting, stops, sent, outcome>>
        /\ busy' = busy \/ busy' = busy \ {Draft}
    BY <1>1 DEF FocusMoves, SelectNow, SelectLater, Open, OpenFails, NewSession,
                WorkspaceSwitched, Render, Swap, Click, runVars
  <2> QED
    BY <2>1, RunsStay
<1>2. ASSUME NEW r \in Runs, Send(r) \/ Refuse(r) \/ Rejected(r) PROVE RunsHold'
  BY <1>2, RunsSend, RunsRefuse, RunsRejected
<1>3. ASSUME NEW r \in Runs, Streams(r) PROVE RunsHold'
  <2>1. /\ UNCHANGED <<live, home, rejecting, stops, outcome, busy>>
        /\ \A x \in Runs \ {r} : sent'[x] = sent[x]
        /\ \A i \in DOMAIN sent'[r] : sent'[r][i].n = i
        /\ home[r] \in Sessions
    BY <1>3, StreamsFacts
  <2>2. LiveHomes' = LiveHomes
    BY <2>1 DEF LiveHomes, IsLive
  <2>3. \A x \in Runs : home'[x] = None => sent'[x] = <<>> /\ outcome'[x] = "none" /\ ~IsLive(x)'
    BY <2>1, StreamAssumption DEF RunsHold, IsLive
  <2>4. \A x \in Runs : \A i \in DOMAIN sent'[x] : sent'[x][i].n = i
    BY <2>1 DEF RunsHold
  <2> QED
    BY <2>1, <2>2, <2>3, <2>4 DEF RunsHold, IsLive
<1>4. ASSUME NEW r \in Runs, Done(r) \/ Fail(r) PROVE RunsHold'
  BY <1>4, RunsEnd
<1>5. ASSUME NEW c \in Stops, Stop(c) \/ Stopped(c) PROVE RunsHold'
  BY <1>5, RunsStop, RunsStopped
<1>6. ASSUME NEW s \in Sessions, Frame(s) PROVE RunsHold'
  BY <1>6, RunsStay DEF Frame, runVars
<1>7. CASE UNCHANGED vars
  BY <1>7, RunsStay DEF vars, runVars
<1> QED
  BY <1>1, <1>2, <1>3, <1>4, <1>5, <1>6, <1>7, EventIs DEF Next, Streams
-----------------------------------------------------------------------------
(* Without a slip: the turns *)

Turns == {t \in [exists : BOOLEAN, blocks : Seq(Blocks)] : t.exists \/ t.blocks = <<>>}

\* The turn of a session and the text waiting for it are what its live run streamed.
TurnIsTrue(s) ==
  /\ \A r \in LiveIn(s) : TurnOf(s).blocks \o buffer[s] = sent[r]
  /\ LiveIn(s) = {} => ~TurnOf(s).exists /\ buffer[s] = <<>>

\* The draft view shows no turn, and a turn still stashed for the session shown is shadowed by the
\* one on the screen.
ViewHolds ==
  /\ visible \in Turns /\ background \in [Sessions -> Turns]
  /\ swapped # Draft /\ background[swapped].exists => visible.exists
  /\ swapped = Draft => ~visible.exists

TurnsHold == ViewHolds /\ \A s \in Sessions : TurnIsTrue(s)

LEMMA NoTurnIs ==
  /\ NoTurn \in Turns /\ NoTurn.exists = FALSE /\ NoTurn.blocks = <<>>
  /\ \A t \in Turns : ~t.exists => t = NoTurn
<1>1. <<>> \in Seq(Blocks)
  OBVIOUS
<1> QED
  BY <1>1 DEF NoTurn, Turns

LEMMA TurnIs ==
  ASSUME NEW b \in Seq(Blocks)
  PROVE  Turn(b) \in Turns /\ Turn(b).exists = TRUE /\ Turn(b).blocks = b
BY DEF Turn, Turns

LEMMA ExtendIs ==
  ASSUME NEW t \in Turns, NEW q \in Seq(Blocks)
  PROVE  /\ Extend(t, q) \in Turns
         /\ Extend(t, q).blocks = t.blocks \o q
         /\ t.exists => Extend(t, q).exists
         /\ q = <<>> => Extend(t, q) = t
<1>1. t.blocks \in Seq(Blocks) /\ t.blocks \o q \in Seq(Blocks)
  BY DEF Turns
<1>2. CASE q = <<>>
  <2>1. t.blocks \o q = t.blocks
    BY <1>1, <1>2
  <2> QED
    BY <1>2, <2>1 DEF Extend
<1>3. CASE q # <<>>
  <2>1. Extend(t, q) = Turn(t.blocks \o q)
    BY <1>3 DEF Extend
  <2> QED
    BY <1>1, <1>3, <2>1, TurnIs
<1> QED
  BY <1>2, <1>3

LEMMA Untouched ==
  ASSUME NEW s \in Sessions, TurnIsTrue(s), TurnOf(s)' = TurnOf(s), buffer'[s] = buffer[s],
         LiveIn(s)' = LiveIn(s), \A r \in LiveIn(s) : sent'[r] = sent[r]
  PROVE  TurnIsTrue(s)'
BY DEF TurnIsTrue

\* The turn of one session changes where it is, and the buffer of that session.
LEMMA OneTurn ==
  ASSUME IInv, TurnsHold, NEW s \in Sessions, NEW t \in Turns, NEW b,
         UNCHANGED <<swapped, live, home>>,
         IF s = swapped THEN visible' = t /\ background' = background
                        ELSE visible' = visible /\ background' = [background EXCEPT ![s] = t],
         buffer' = [buffer EXCEPT ![s] = b],
         TurnOf(s).exists => t.exists,
         \A r \in Runs : home[r] # s => sent'[r] = sent[r],
         \A r \in LiveIn(s) : t.blocks \o b = sent'[r],
         LiveIn(s) = {} => ~t.exists /\ b = <<>>
  PROVE  TurnsHold'
<1>1. Draft \notin Sessions
  BY StreamAssumption
<1>2. \A x : LiveIn(x)' = LiveIn(x)
  BY DEF LiveIn, IsLive
<1>3. TurnOf(s)' = t /\ buffer'[s] = b
  BY DEF TurnOf, TurnsHold, ViewHolds, IInv, Types
<1>4. TurnIsTrue(s)'
  BY <1>2, <1>3 DEF TurnIsTrue
<1>5. ASSUME NEW x \in Sessions, x # s PROVE TurnIsTrue(x)'
  <2>1. TurnOf(x)' = TurnOf(x) /\ buffer'[x] = buffer[x]
    BY <1>5 DEF TurnOf, TurnsHold, ViewHolds, IInv, Types
  <2>2. \A r \in LiveIn(x) : sent'[r] = sent[r]
    BY <1>5 DEF LiveIn
  <2>3. TurnIsTrue(x)
    BY DEF TurnsHold
  <2> QED
    BY <1>2, <2>1, <2>2, <2>3, Untouched
<1>6. visible' \in Turns /\ background' \in [Sessions -> Turns]
  BY DEF TurnsHold, ViewHolds
<1>7. swapped' = Draft => ~visible'.exists
  BY <1>1 DEF TurnsHold, ViewHolds
<1>8. swapped' # Draft /\ background'[swapped'].exists => visible'.exists
  <2>1. CASE s = swapped
    BY <2>1 DEF TurnsHold, ViewHolds, TurnOf
  <2>2. CASE s # swapped
    BY <2>2 DEF TurnsHold, ViewHolds, IInv, Types, Views
  <2> QED
    BY <2>1, <2>2
<1> QED
  BY <1>4, <1>5, <1>6, <1>7, <1>8 DEF TurnsHold, ViewHolds

\* Turns that nothing touches.
LEMMA TurnsStay ==
  ASSUME TurnsHold, UNCHANGED <<swapped, visible, background, buffer, live, home, sent>>
  PROVE  TurnsHold'
<1>1. \A x : LiveIn(x)' = LiveIn(x) /\ TurnOf(x)' = TurnOf(x)
  BY DEF LiveIn, IsLive, TurnOf
<1>2. \A s \in Sessions : TurnIsTrue(s)'
  BY <1>1, Untouched DEF TurnsHold
<1> QED
  BY <1>2 DEF TurnsHold, ViewHolds

\* The turns of some sessions go, which then have no live run or one that has streamed nothing.
LEMMA TurnsGo ==
  ASSUME IInv, TurnsHold, NEW S \in SUBSET Sessions,
         visible' \in Turns, background' \in [Sessions -> Turns],
         swapped' # Draft /\ background'[swapped'].exists => visible'.exists,
         swapped' = Draft => ~visible'.exists,
         \A s \in S : /\ TurnOf(s)' = NoTurn /\ buffer'[s] = <<>>
                      /\ \A r \in LiveIn(s)' : sent'[r] = <<>>,
         \A s \in Sessions \ S : /\ TurnOf(s)' = TurnOf(s) /\ buffer'[s] = buffer[s]
                                 /\ LiveIn(s)' = LiveIn(s)
                                 /\ \A r \in LiveIn(s) : sent'[r] = sent[r]
  PROVE  TurnsHold'
<1>1. ASSUME NEW s \in S PROVE TurnIsTrue(s)'
  <2>1. TurnOf(s)'.blocks \o buffer'[s] = <<>> /\ ~TurnOf(s)'.exists
    BY NoTurnIs
  <2> QED
    BY <2>1 DEF TurnIsTrue
<1>2. ASSUME NEW s \in Sessions \ S PROVE TurnIsTrue(s)'
  BY <1>2, Untouched DEF TurnsHold
<1> QED
  BY <1>1, <1>2 DEF TurnsHold, ViewHolds

\* A swap between two views: the turn left is stashed if its session streams, and the one shown is
\* that of the session entered.
LEMMA TurnsSwap ==
  ASSUME IInv, TurnsHold, NEW e \in Views, e # swapped, SwapTo(e), swapped' = e, slips' = {},
         UNCHANGED <<live, home, sent>>
  PROVE  TurnsHold'
<1>0. PICK left \in Views : left = swapped
  BY DEF IInv, Types
<1> DEFINE outgoing == IF left = Draft THEN <<>> ELSE buffer[left]
           folded == IF visible.exists THEN Extend(visible, outgoing) ELSE visible
           streams == left # Draft /\ LiveIn(left) # {}
           incoming == IF e = Draft THEN NoTurn ELSE background[e]
<1>1. /\ Draft \notin Sessions /\ left \in Views /\ visible \in Turns
      /\ background \in [Sessions -> Turns] /\ buffer \in [Sessions -> Seq(Blocks)]
      /\ outgoing \in Seq(Blocks) /\ incoming \in Turns
  BY <1>0, StreamAssumption, NoTurnIs DEF IInv, Types, Views, TurnsHold, ViewHolds
<1>2. /\ background' = IF streams /\ visible.exists THEN [background EXCEPT ![left] = folded] ELSE background
      /\ visible' = IF e = Draft THEN IF streams \/ incoming.exists THEN incoming ELSE folded
                    ELSE Extend(IF streams \/ incoming.exists THEN incoming ELSE folded, buffer[e])
      /\ buffer' = [s \in Sessions |-> IF s \in {left, e} THEN <<>> ELSE buffer[s]]
      /\ outgoing = <<>> \/ visible.exists
  BY <1>0 DEF SwapTo, SlipIf
<1>3. folded \in Turns /\ folded.blocks = visible.blocks \o outgoing
  <2>1. outgoing = <<>> => visible.blocks \o outgoing = visible.blocks
    BY <1>1 DEF Turns
  <2> QED
    BY <1>1, <1>2, <2>1, ExtendIs
<1>4. ~streams => visible = NoTurn /\ folded = NoTurn
  <2>1. CASE left = Draft
    BY <1>0, <1>1, <2>1, NoTurnIs DEF TurnsHold, ViewHolds
  <2>2. CASE left # Draft /\ LiveIn(left) = {}
    <3>1. TurnIsTrue(left)
      BY <1>1, <2>2 DEF TurnsHold, Views
    <3>2. ~visible.exists
      BY <1>0, <2>2, <3>1 DEF TurnIsTrue, TurnOf
    <3> QED
      BY <1>1, <3>2, NoTurnIs
  <2> QED
    BY <2>1, <2>2
<1>5. visible' = IF e = Draft THEN NoTurn ELSE Extend(background[e], buffer[e])
  <2>1. ~streams /\ ~incoming.exists => folded = incoming
    BY <1>1, <1>4, NoTurnIs
  <2> HIDE DEF folded, streams
  <2>2. visible' = IF e = Draft THEN incoming ELSE Extend(incoming, buffer[e])
    BY <1>2, <2>1
  <2> QED
    BY <2>2
<1> HIDE DEF folded, outgoing, incoming
<1>6. visible' \in Turns /\ background' \in [Sessions -> Turns]
  <2>1. e # Draft => background[e] \in Turns /\ buffer[e] \in Seq(Blocks)
    BY <1>1 DEF Views
  <2>2. visible' \in Turns
    BY <1>5, <2>1, ExtendIs, NoTurnIs
  <2>3. background' \in [Sessions -> Turns]
    BY <1>1, <1>2, <1>3
  <2> QED
    BY <2>2, <2>3
<1>7. \A x : LiveIn(x)' = LiveIn(x)
  BY DEF LiveIn, IsLive
<1>8. ASSUME e # Draft
      PROVE  /\ TurnIsTrue(e)'
             /\ background'[e].exists => visible'.exists
  <2>1. e \in Sessions /\ TurnOf(e) = background[e] /\ TurnOf(e)' = visible' /\ buffer'[e] = <<>>
    BY <1>0, <1>1, <1>2, <1>8 DEF Views, TurnOf
  <2>2. background[e] \in Turns /\ buffer[e] \in Seq(Blocks)
    BY <1>1, <2>1
  <2>3. /\ visible' = Extend(background[e], buffer[e])
        /\ visible'.blocks = background[e].blocks \o buffer[e]
        /\ background[e].exists => visible'.exists
        /\ buffer[e] = <<>> => visible' = background[e]
    BY <1>5, <1>8, <2>2, ExtendIs
  <2>4. background'[e] = background[e]
    BY <1>0, <1>1, <1>2, <2>1
  <2>5. TurnIsTrue(e)
    BY <2>1 DEF TurnsHold
  <2>6. visible'.blocks \o <<>> = visible'.blocks
    BY <1>6 DEF Turns
  <2>7. TurnIsTrue(e)'
    BY <1>7, <2>1, <2>3, <2>5, <2>6 DEF TurnIsTrue
  <2> QED
    BY <2>3, <2>4, <2>7
<1>9. ASSUME left # Draft PROVE TurnIsTrue(left)'
  <2>1. /\ left \in Sessions /\ TurnOf(left) = visible /\ TurnOf(left)' = background'[left]
        /\ buffer'[left] = <<>> /\ outgoing = buffer[left]
    BY <1>0, <1>1, <1>2, <1>9 DEF Views, TurnOf, outgoing
  <2>2. TurnIsTrue(left)
    BY <2>1 DEF TurnsHold
  <2>3. ~visible.exists => background[left] = NoTurn /\ visible = NoTurn
    BY <1>0, <1>1, <1>9, <2>1, NoTurnIs DEF TurnsHold, ViewHolds
  <2>4. ASSUME LiveIn(left) # {} PROVE background'[left].blocks = visible.blocks \o buffer[left]
    <3>1. CASE visible.exists
      BY <1>1, <1>2, <1>3, <1>9, <2>1, <2>4, <3>1
    <3>2. CASE ~visible.exists
      <4>1. background'[left] = background[left]
        BY <1>2, <3>2
      <4>2. buffer[left] = <<>> /\ <<>> \o <<>> = <<>>
        BY <1>2, <2>1, <3>2
      <4> QED
        BY <2>3, <3>2, <4>1, <4>2, NoTurnIs
    <3> QED
      BY <3>1, <3>2
  <2>5. background'[left].blocks \o <<>> = background'[left].blocks
    BY <1>6, <2>1 DEF Turns
  <2>6. ASSUME LiveIn(left) = {} PROVE ~background'[left].exists
    BY <1>2, <1>4, <2>3, <2>6, NoTurnIs
  <2>7. ASSUME NEW r \in LiveIn(left) PROVE background'[left].blocks \o <<>> = sent'[r]
    BY <2>1, <2>2, <2>4, <2>5 DEF TurnIsTrue
  <2> QED
    BY <1>7, <2>1, <2>6, <2>7 DEF TurnIsTrue
<1>10. ASSUME NEW x \in Sessions, x # e, x # left PROVE TurnIsTrue(x)'
  <2>1. TurnOf(x)' = TurnOf(x) /\ buffer'[x] = buffer[x]
    BY <1>0, <1>1, <1>2, <1>10 DEF TurnOf
  <2>2. TurnIsTrue(x)
    BY DEF TurnsHold
  <2> QED
    BY <1>7, <2>1, <2>2, Untouched
<1>11. \A s \in Sessions : TurnIsTrue(s)'
  BY <1>1, <1>8, <1>9, <1>10
<1>12. swapped' = Draft => ~visible'.exists
  BY <1>5, NoTurnIs
<1>13. swapped' # Draft /\ background'[swapped'].exists => visible'.exists
  BY <1>8
<1> QED
  BY <1>6, <1>11, <1>12, <1>13 DEF TurnsHold, ViewHolds
\* What the events and frames change in a session's turn, once its text is flushed.
Flushed(s) == Extend(TurnOf(s), buffer[s])

LEMMA FlushedIs ==
  ASSUME IInv, TurnsHold, NEW s \in Sessions
  PROVE  /\ TurnOf(s) \in Turns /\ buffer[s] \in Seq(Blocks) /\ Flushed(s) \in Turns
         /\ TurnOf(s).exists => Flushed(s).exists
         /\ \A r \in LiveIn(s) : Flushed(s).blocks = sent[r]
         /\ s = focused /\ s = swapped => VisibleFlushed(s) = Flushed(s) /\ BackgroundFlushed(s) = background
         /\ s # focused /\ s # swapped => /\ VisibleFlushed(s) = visible
                                          /\ BackgroundFlushed(s) = [background EXCEPT ![s] = Flushed(s)]
<1>1. visible \in Turns /\ background \in [Sessions -> Turns] /\ buffer[s] \in Seq(Blocks)
  BY DEF TurnsHold, ViewHolds, IInv, Types
<1>2. TurnOf(s) \in Turns
  BY <1>1 DEF TurnOf
<1>3. /\ Flushed(s) \in Turns /\ Flushed(s).blocks = TurnOf(s).blocks \o buffer[s]
      /\ TurnOf(s).exists => Flushed(s).exists
  BY <1>1, <1>2, ExtendIs DEF Flushed
<1>4. \A r \in LiveIn(s) : Flushed(s).blocks = sent[r]
  BY <1>3 DEF TurnsHold, TurnIsTrue
<1>5. s = focused /\ s = swapped => VisibleFlushed(s) = Flushed(s) /\ BackgroundFlushed(s) = background
  BY DEF VisibleFlushed, BackgroundFlushed, Flushed, TurnOf
<1>6. s # focused /\ s # swapped => /\ VisibleFlushed(s) = visible
                                    /\ BackgroundFlushed(s) = [background EXCEPT ![s] = Flushed(s)]
  BY DEF VisibleFlushed, BackgroundFlushed, Flushed, TurnOf
<1> QED
  BY <1>1, <1>2, <1>3, <1>4, <1>5, <1>6

LEMMA LiveAlone ==
  ASSUME RunsHold, NEW r \in Runs, IsLive(r)
  PROVE  LiveIn(home[r]) = {r} /\ home[r] \in Sessions
BY DEF RunsHold, LiveIn

\* An event changes the turn of its session, wherever it is, and of no other.
LEMMA UpdateIs ==
  ASSUME IInv, RunsHold, TurnsHold, NEW r \in Runs, IsLive(r), Placed(home[r]),
         UNCHANGED <<swapped, live, home>>, \A x \in Runs \ {r} : sent'[x] = sent[x],
         DropBuffer(home[r]),
         NEW t \in Turns, Flushed(home[r]).exists => t.exists, t.blocks = sent'[r],
         IF home[r] # focused
         THEN /\ visible' = visible
              /\ background' = [BackgroundFlushed(home[r]) EXCEPT ![home[r]] = t]
         ELSE visible' = t /\ background' = BackgroundFlushed(home[r])
  PROVE  TurnsHold'
<1>1. PICK s \in Sessions : s = home[r]
  BY LiveAlone
<1>2. LiveIn(s) = {r}
  BY <1>1, LiveAlone
<1>3. /\ background \in [Sessions -> Turns]
      /\ TurnOf(s).exists => t.exists
      /\ s = swapped => s = focused /\ BackgroundFlushed(s) = background
      /\ s # swapped => /\ s # focused
                        /\ BackgroundFlushed(s) = [background EXCEPT ![s] = Flushed(s)]
  BY <1>1, FlushedIs DEF Placed, TurnsHold, ViewHolds
<1>4. IF s = swapped THEN visible' = t /\ background' = background
                     ELSE visible' = visible /\ background' = [background EXCEPT ![s] = t]
  BY <1>1, <1>3
<1>5. buffer' = [buffer EXCEPT ![s] = <<>>]
  BY <1>1, StreamAssumption DEF DropBuffer
<1>6. t.blocks \o <<>> = sent'[r]
  <2>1. t.blocks \o <<>> = t.blocks
    BY DEF Turns
  <2> QED
    BY <2>1
<1>7. \A x \in Runs : home[x] # s => sent'[x] = sent[x]
  BY <1>1
<1>8. LiveIn(s) # {}
  BY <1>2
<1>9. \A x \in LiveIn(s) : t.blocks \o <<>> = sent'[x]
  BY <1>2, <1>6
<1>10. LiveIn(s) = {} => ~t.exists /\ <<>> = <<>>
  BY <1>8
<1> QED
  BY <1>3, <1>4, <1>5, <1>7, <1>9, <1>10, OneTurn, ZenonT(60)

LEMMA TurnsToken ==
  ASSUME IInv, RunsHold, TurnsHold, NEW r \in Runs, Token(r)
  PROVE  TurnsHold'
<1> DEFINE p == Piece(r, Len(sent[r]) + 1, "text")
<1>1. IsLive(r)
  BY DEF Token, Emits
<1>2. PICK s \in Sessions : s = home[r]
  BY <1>1, LiveAlone
<1>3. LiveIn(s) = {r}
  BY <1>1, <1>2, LiveAlone
<1>4. /\ UNCHANGED <<swapped, live, home, visible, background>>
      /\ buffer' = [buffer EXCEPT ![s] = Append(buffer[s], p)]
      /\ sent' = [sent EXCEPT ![r] = Append(sent[r], p)]
  BY <1>2 DEF Token, Stream, focusVars
<1>5. p \in Blocks
  BY DEF Piece, Blocks, Kinds, IInv, Types
<1>6. /\ TurnOf(s) \in Turns /\ buffer[s] \in Seq(Blocks) /\ sent[r] \in Seq(Blocks)
      /\ visible \in Turns /\ background \in [Sessions -> Turns]
  BY FlushedIs DEF IInv, Types, TurnsHold, ViewHolds
<1>7. TurnOf(s).blocks \o buffer[s] = sent[r]
  BY <1>3 DEF TurnsHold, TurnIsTrue
<1>8. sent'[r] = Append(sent[r], p) /\ \A x \in Runs : home[x] # s => sent'[x] = sent[x]
  BY <1>2, <1>4 DEF IInv, Types
<1>9. TurnOf(s).blocks \o Append(buffer[s], p) = sent'[r]
  <2>1. TurnOf(s).blocks \in Seq(Blocks)
    BY <1>6 DEF Turns
  <2> DEFINE a == TurnOf(s).blocks
             c == buffer[s]
  <2> HIDE DEF a, c, p
  <2>2. a \in Seq(Blocks) /\ c \in Seq(Blocks) /\ a \o c \in Seq(Blocks) /\ <<p>> \in Seq(Blocks)
    BY <1>5, <1>6, <2>1 DEF a, c
  <2>3. a \o (c \o <<p>>) = (a \o c) \o <<p>>
    BY <2>2, ConcatAssociative
  <2>4. Append(c, p) = c \o <<p>> /\ Append(a \o c, p) = (a \o c) \o <<p>>
    BY <1>5, <2>2, AppendIsConcat
  <2> QED
    BY <1>7, <1>8, <2>3, <2>4 DEF a, c
<1>10. IF s = swapped THEN visible' = TurnOf(s) /\ background' = background
                      ELSE visible' = visible /\ background' = [background EXCEPT ![s] = TurnOf(s)]
  BY <1>4, <1>6 DEF TurnOf
<1> HIDE DEF p
<1>11. \A x \in LiveIn(s) : TurnOf(s).blocks \o Append(buffer[s], p) = sent'[x]
  BY <1>3, <1>9
<1>12. LiveIn(s) # {}
  BY <1>3
<1>13. LiveIn(s) = {} => ~TurnOf(s).exists /\ Append(buffer[s], p) = <<>>
  BY <1>12
<1> DEFINE t == TurnOf(s)
           b == Append(buffer[s], p)
<1>14. /\ t \in Turns /\ buffer' = [buffer EXCEPT ![s] = b] /\ (TurnOf(s).exists => t.exists)
       /\ IF s = swapped THEN visible' = t /\ background' = background
                         ELSE visible' = visible /\ background' = [background EXCEPT ![s] = t]
       /\ \A x \in LiveIn(s) : t.blocks \o b = sent'[x]
       /\ LiveIn(s) = {} => ~t.exists /\ b = <<>>
  BY <1>4, <1>6, <1>10, <1>11, <1>13
<1> HIDE DEF t, b
<1>15. UNCHANGED <<swapped, live, home>> /\ \A x \in Runs : home[x] # s => sent'[x] = sent[x]
  BY <1>4, <1>8
<1> QED
  BY <1>14, <1>15, OneTurn, ZenonT(60)

LEMMA TurnsFrame ==
  ASSUME IInv, TurnsHold, NEW s \in Sessions, Frame(s), slips' = {}
  PROVE  TurnsHold'
<1>1. /\ UNCHANGED <<swapped, focused, live, home, sent>>
      /\ visible' = VisibleFlushed(s) /\ background' = BackgroundFlushed(s)
      /\ buffer' = [buffer EXCEPT ![s] = <<>>]
      /\ ~(Caught(s) /\ buffer[s] # <<>>)
  BY StreamAssumption DEF Frame, focusVars, runVars, DropBuffer, SlipIf
<1>2. /\ visible \in Turns /\ background \in [Sessions -> Turns]
      /\ buffer \in [Sessions -> Seq(Blocks)]
  BY DEF IInv, Types, TurnsHold, ViewHolds
<1>3. CASE buffer[s] = <<>>
  <2>1. visible' = visible /\ background' = background /\ buffer' = buffer
    BY <1>1, <1>2, <1>3 DEF VisibleFlushed, BackgroundFlushed, Extend
  <2> QED
    BY <1>1, <2>1, TurnsStay
<1>4. CASE buffer[s] # <<>>
  <2>1. (s = focused /\ s = swapped) \/ (s # focused /\ s # swapped)
    BY <1>1, <1>4 DEF Caught, Between
  <2>2. IF s = swapped THEN visible' = Flushed(s) /\ background' = background
                       ELSE visible' = visible /\ background' = [background EXCEPT ![s] = Flushed(s)]
    BY <1>1, <2>1, FlushedIs
  <2>3. /\ Flushed(s) \in Turns /\ (TurnOf(s).exists => Flushed(s).exists)
        /\ \A r \in LiveIn(s) : Flushed(s).blocks = sent[r]
    BY FlushedIs
  <2>4. Flushed(s).blocks \o <<>> = Flushed(s).blocks
    BY <2>3 DEF Turns
  <2>5. LiveIn(s) # {}
    BY <1>4 DEF TurnsHold, TurnIsTrue
  <2>6. \A r \in LiveIn(s) : Flushed(s).blocks \o <<>> = sent'[r]
    BY <1>1, <2>3, <2>4
  <2> QED
    BY <1>1, <2>2, <2>3, <2>5, <2>6, OneTurn
<1> QED
  BY <1>3, <1>4
LEMMA FlushedPlaces ==
  ASSUME IInv, TurnsHold, NEW s \in Sessions, Placed(s)
  PROVE  /\ s # focused => BackgroundFlushed(s)[s] = Flushed(s)
         /\ s = focused => VisibleFlushed(s) = Flushed(s)
<1>1. background \in [Sessions -> Turns]
  BY DEF TurnsHold, ViewHolds
<1>2. s # focused => BackgroundFlushed(s) = [background EXCEPT ![s] = Flushed(s)]
  BY FlushedIs DEF Placed
<1> QED
  BY <1>1, <1>2, FlushedIs DEF Placed

\* What every event that changes a turn finds.
LEMMA EventFinds ==
  ASSUME IInv, RunsHold, TurnsHold, NEW r \in Runs, Streams(r), Misplaced(r), DropBuffer(home[r]),
         slips' = {}
  PROVE  /\ IsLive(r) /\ Placed(home[r]) /\ DropBuffer(home[r])
         /\ IsBackground(r) <=> home[r] # focused
         /\ UNCHANGED <<swapped, live, home>> /\ \A x \in Runs \ {r} : sent'[x] = sent[x]
         /\ Flushed(home[r]) \in Turns /\ Flushed(home[r]).blocks = sent[r]
         /\ home[r] # focused => BackgroundFlushed(home[r])[home[r]] = Flushed(home[r])
         /\ home[r] = focused => VisibleFlushed(home[r]) = Flushed(home[r])
<1>1. /\ IsLive(r) /\ home[r] \in Sessions /\ UNCHANGED <<swapped, live, home>>
      /\ \A x \in Runs \ {r} : sent'[x] = sent[x]
  BY StreamsFacts DEF focusVars
<1>3. Placed(home[r]) /\ focused # Draft
  BY <1>1, MisplacedNot DEF IInv
<1>4. LiveIn(home[r]) = {r}
  BY <1>1, LiveAlone
<1>5. Flushed(home[r]) \in Turns /\ Flushed(home[r]).blocks = sent[r]
  BY <1>1, <1>4, FlushedIs
<1>6. IsBackground(r) <=> home[r] # focused
  BY <1>3 DEF IsBackground
<1>7. /\ home[r] # focused => BackgroundFlushed(home[r])[home[r]] = Flushed(home[r])
      /\ home[r] = focused => VisibleFlushed(home[r]) = Flushed(home[r])
  BY <1>1, <1>3, FlushedPlaces
<1> QED
  BY <1>1, <1>3, <1>5, <1>6, <1>7

LEMMA TurnsBlock ==
  ASSUME IInv, RunsHold, TurnsHold, NEW r \in Runs, NEW k \in Opening \cup {"reasoning"}, Block(r, k),
         slips' = {}
  PROVE  TurnsHold'
<1> DEFINE p == Piece(r, Len(sent[r]) + 1, k)
           t == Put(Flushed(home[r]), p)
<1>1. Streams(r) /\ Misplaced(r) /\ DropBuffer(home[r])
  BY DEF Block, Update, Streams
<1>2. sent'[r] = Append(sent[r], p) /\ sent[r] \in Seq(Blocks) /\ p \in Blocks
  BY DEF Block, Stream, IInv, Types, Piece, Blocks, Kinds, Opening
<1>3. t \in Turns /\ t.exists = TRUE /\ t.blocks = sent'[r]
  <2>1. Flushed(home[r]).blocks = sent[r]
    BY <1>1, EventFinds
  <2>2. t = Turn(Append(sent[r], p))
    BY <2>1 DEF Put
  <2>3. Append(sent[r], p) \in Seq(Blocks)
    BY <1>2
  <2> HIDE DEF t, p
  <2> QED
    BY <1>2, <2>2, <2>3, TurnIs
<1>4. IF IsBackground(r)
      THEN /\ visible' = visible
           /\ background' = [BackgroundFlushed(home[r]) EXCEPT ![home[r]]
                               = Put(BackgroundFlushed(home[r])[home[r]], p)]
      ELSE /\ visible' = Put(VisibleFlushed(home[r]), p)
           /\ background' = BackgroundFlushed(home[r])
  BY DEF Block, Update
<1>5. IF home[r] # focused
      THEN visible' = visible /\ background' = [BackgroundFlushed(home[r]) EXCEPT ![home[r]] = t]
      ELSE visible' = t /\ background' = BackgroundFlushed(home[r])
  BY <1>1, <1>4, EventFinds
<1> HIDE DEF t
<1> QED
  BY <1>1, <1>3, <1>5, EventFinds, UpdateIs, ZenonT(60)

\* A call's result and a card's mark change the block in place.
LEMMA TurnsReplace ==
  ASSUME IInv, RunsHold, TurnsHold, NEW r \in Runs, Result(r) \/ Resolve(r), slips' = {}
  PROVE  TurnsHold'
<1>1. PICK p \in Range(sent[r]), done \in Blocks :
        /\ sent' = [sent EXCEPT ![r] = Replace(sent[r], p, done)]
        /\ \/ /\ Result(r)
              /\ p.kind = "tool" /\ done = [p EXCEPT !.kind = "result"]
              /\ LET Complete(turn) == IF Holds(turn, p) THEN Turn(Replace(turn.blocks, p, done))
                                       ELSE Put(turn, done)
                 IN Update(r, Complete)
           \/ /\ Resolve(r)
              /\ p.kind = "card" /\ done = [p EXCEPT !.kind = "settled"]
              /\ LET Mark(turn) == IF Holds(turn, p) THEN Turn(Replace(turn.blocks, p, done)) ELSE turn
                 IN Update(r, Mark)
  <2>1. ASSUME NEW p \in Range(sent[r]), NEW k \in Kinds PROVE [p EXCEPT !.kind = k] \in Blocks
    <3>1. sent[r] \in Seq(Blocks)
      BY DEF IInv, Types
    <3>2. p \in Blocks
      BY <3>1 DEF Range
    <3> QED
      BY <3>2 DEF Blocks
  <2>2. CASE Result(r)
    <3>1. \A p \in Range(sent[r]) : [p EXCEPT !.kind = "result"] \in Blocks
      BY <2>1 DEF Kinds
    <3> QED
      BY <2>2, <3>1 DEF Result
  <2>3. CASE Resolve(r)
    <3>1. \A p \in Range(sent[r]) : [p EXCEPT !.kind = "settled"] \in Blocks
      BY <2>1 DEF Kinds
    <3> QED
      BY <2>3, <3>1 DEF Resolve
  <2> QED
    BY <2>2, <2>3
<1> DEFINE t == Turn(Replace(sent[r], p, done))
<1>2. Streams(r) /\ Misplaced(r) /\ DropBuffer(home[r])
  BY DEF Streams, Result, Resolve, Update
<1>3. sent'[r] = Replace(sent[r], p, done) /\ sent'[r] \in Seq(Blocks)
  <2>1. sent[r] \in Seq(Blocks)
    BY DEF IInv, Types
  <2> QED
    BY <1>1, <2>1, ReplaceStays DEF IInv, Types
<1>4. t \in Turns /\ t.exists = TRUE /\ t.blocks = sent'[r]
  BY <1>3, TurnIs
<1>5. Flushed(home[r]).blocks = sent[r] /\ Holds(Flushed(home[r]), p)
  BY <1>2, EventFinds DEF Holds
<1>6. IF home[r] # focused
      THEN visible' = visible /\ background' = [BackgroundFlushed(home[r]) EXCEPT ![home[r]] = t]
      ELSE visible' = t /\ background' = BackgroundFlushed(home[r])
  <2>1. /\ IsBackground(r) <=> home[r] # focused
        /\ home[r] # focused => BackgroundFlushed(home[r])[home[r]] = Flushed(home[r])
        /\ home[r] = focused => VisibleFlushed(home[r]) = Flushed(home[r])
    BY <1>2, EventFinds
  <2> QED
    BY <1>1, <1>5, <2>1 DEF Update
<1> HIDE DEF t
<1> QED
  BY <1>2, <1>4, <1>6, EventFinds, UpdateIs, ZenonT(60)
\* A retry takes back, from the turn as from what the run has streamed, what the failed attempt left.
LEMMA TurnsRetry ==
  ASSUME IInv, RunsHold, TurnsHold, NEW r \in Runs, RetryReset(r), slips' = {}
  PROVE  TurnsHold'
<1>1. PICK n \in 0..Len(sent[r]) :
        LET before == SubSeq(sent[r], 1, n)
            attempt == {sent[r][i] : i \in (n + 1)..Len(sent[r])}
            Back(turn) == Turn(Trim(turn.blocks, TextCount(before), attempt))
        IN /\ \A p \in attempt : p.kind \in {"text", "reasoning"}
           /\ sent' = [sent EXCEPT ![r] = before]
           /\ Update(r, Back)
           /\ Misplaced(r)
  BY DEF RetryReset
<1> DEFINE before == SubSeq(sent[r], 1, n)
           attempt == {sent[r][i] : i \in (n + 1)..Len(sent[r])}
           t == Turn(before)
<1>2. Streams(r) /\ Misplaced(r) /\ DropBuffer(home[r])
  BY <1>1 DEF Streams, Update
<1>3. sent'[r] = before /\ before \in Seq(Blocks) /\ sent[r] \in Seq(Blocks)
  <2>1. sent[r] \in Seq(Blocks) /\ sent' = [sent EXCEPT ![r] = before]
    BY <1>1 DEF IInv, Types
  <2> QED
    BY <2>1 DEF IInv, Types
<1>4. t \in Turns /\ t.exists = TRUE /\ t.blocks = sent'[r]
  BY <1>3, TurnIs
<1>5. Trim(sent[r], TextCount(before), attempt) = before
  <2>1. \A i \in DOMAIN sent[r] : sent[r][i].n = i
    BY DEF RunsHold
  <2>2. \A p \in attempt : p.kind \in {"text", "reasoning"}
    BY <1>1
  <2> QED
    BY <1>3, <2>1, <2>2, TrimTakesBack
<1>6. Flushed(home[r]).blocks = sent[r]
  BY <1>2, EventFinds
<1>7. Turn(Trim(Flushed(home[r]).blocks, TextCount(before), attempt)) = t
  BY <1>5, <1>6
<1>8. IF IsBackground(r)
      THEN /\ visible' = visible
           /\ background' = [BackgroundFlushed(home[r]) EXCEPT ![home[r]]
                               = Turn(Trim(BackgroundFlushed(home[r])[home[r]].blocks, TextCount(before), attempt))]
      ELSE /\ visible' = Turn(Trim(VisibleFlushed(home[r]).blocks, TextCount(before), attempt))
           /\ background' = BackgroundFlushed(home[r])
  BY <1>1 DEF Update
<1> HIDE DEF t, before, attempt
<1>9. IF home[r] # focused
      THEN visible' = visible /\ background' = [BackgroundFlushed(home[r]) EXCEPT ![home[r]] = t]
      ELSE visible' = t /\ background' = BackgroundFlushed(home[r])
  BY <1>2, <1>7, <1>8, EventFinds
<1> QED
  BY <1>2, <1>4, <1>9, EventFinds, UpdateIs, ZenonT(60)

LEMMA DropIs ==
  ASSUME IInv, NEW s \in Views, DropBuffer(s)
  PROVE  \A x \in Sessions : buffer'[x] = IF x = s THEN <<>> ELSE buffer[x]
BY StreamAssumption DEF DropBuffer, IInv, Types

LEMMA WithoutIs ==
  ASSUME TurnsHold, NEW s \in Views
  PROVE  /\ Without(background, s) \in [Sessions -> Turns]
         /\ \A x \in Sessions : Without(background, s)[x] = IF x = s THEN NoTurn ELSE background[x]
BY NoTurnIs, StreamAssumption DEF Without, TurnsHold, ViewHolds, Views

LEMMA TurnsSend ==
  ASSUME IInv, RunsHold, TurnsHold, NEW r \in Runs, Send(r)
  PROVE  TurnsHold'
<1>1. PICK s \in Sessions : s = focused /\ s = swapped /\ s \notin busy
  BY DEF Send, Settled, IInv, Types, Views
<1>2. /\ UNCHANGED <<swapped, sent>> /\ visible' = NoTurn
      /\ background' = [background EXCEPT ![s] = NoTurn]
      /\ \A x \in Sessions : buffer'[x] = IF x = s THEN <<>> ELSE buffer[x]
      /\ home[r] = None
  BY <1>1, DropIs DEF Send, focusVars, Views
<1>3. visible' \in Turns /\ background' \in [Sessions -> Turns] /\ background'[s] = NoTurn
  BY <1>2, NoTurnIs DEF TurnsHold, ViewHolds
<1>4. /\ home'[r] = s
      /\ \A x \in Runs \ {r} : home'[x] = home[x] /\ live'[x] = live[x]
  BY <1>1 DEF Send, IInv, Types
<1>5. LiveIn(s)' \subseteq {r} /\ sent'[r] = <<>>
  <2>1. LiveIn(s) = {}
    BY <1>1 DEF RunsHold, LiveHomes, LiveIn
  <2> QED
    BY <1>2, <1>4, <2>1 DEF LiveIn, IsLive, RunsHold
<1>6. ASSUME NEW x \in Sessions \ {s}
      PROVE  /\ TurnOf(x)' = TurnOf(x) /\ buffer'[x] = buffer[x] /\ LiveIn(x)' = LiveIn(x)
             /\ \A y \in LiveIn(x) : sent'[y] = sent[y]
  <2>1. TurnOf(x)' = TurnOf(x)
    BY <1>1, <1>2 DEF TurnOf, TurnsHold, ViewHolds
  <2>2. r \notin LiveIn(x) /\ r \notin LiveIn(x)'
    BY <1>2, <1>4, StreamAssumption DEF LiveIn
  <2>3. LiveIn(x)' = LiveIn(x)
    BY <1>4, <2>2 DEF LiveIn, IsLive
  <2> QED
    BY <1>2, <2>1, <2>3
<1>7. TurnOf(s)' = NoTurn /\ buffer'[s] = <<>>
  BY <1>1, <1>2 DEF TurnOf
<1>8. /\ swapped' # Draft /\ background'[swapped'].exists => visible'.exists
      /\ swapped' = Draft => ~visible'.exists
  BY <1>1, <1>2, <1>3, NoTurnIs
<1>9. \A y \in LiveIn(s)' : sent'[y] = <<>>
  BY <1>5
<1>10. PICK S \in SUBSET Sessions : S = {s}
  OBVIOUS
<1>11. \A x \in S : TurnOf(x)' = NoTurn /\ buffer'[x] = <<>> /\ \A y \in LiveIn(x)' : sent'[y] = <<>>
  BY <1>7, <1>9, <1>10
<1>12. \A x \in Sessions \ S : /\ TurnOf(x)' = TurnOf(x) /\ buffer'[x] = buffer[x]
                               /\ LiveIn(x)' = LiveIn(x) /\ \A y \in LiveIn(x) : sent'[y] = sent[y]
  BY <1>6, <1>10
<1> QED
  BY <1>3, <1>8, <1>11, <1>12, TurnsGo

\* Without a live run in the session left, the draft view drops what there is.
LEMMA TurnsNew ==
  ASSUME IInv, RunsHold, TurnsHold, NewSession, slips' = {}
  PROVE  TurnsHold'
<1>1. /\ swapped = focused /\ swapped' = Draft /\ UNCHANGED <<live, home, sent>>
      /\ focused \in Views
  BY DEF NewSession, Settled, Click, IInv, Types
<1>2. CASE focused \in busy
  <2>1. focused \in Sessions
    BY <1>2 DEF RunsHold, LiveHomes
  <2>2. SwapTo(Draft) /\ Draft # swapped /\ Draft \in Views
    BY <1>1, <1>2, <2>1, StreamAssumption DEF NewSession, Views
  <2> QED
    BY <1>1, <2>2, TurnsSwap
<1>3. CASE focused \notin busy
  <2>1. /\ visible' = NoTurn /\ background' = Without(background, focused)
        /\ DropBuffer(focused)
    BY <1>3 DEF NewSession
  <2>2. \A x \in Sessions : buffer'[x] = IF x = focused THEN <<>> ELSE buffer[x]
    BY <1>1, <2>1, DropIs
  <2>3. /\ visible' \in Turns /\ background' \in [Sessions -> Turns]
        /\ \A x \in Sessions : background'[x] = IF x = focused THEN NoTurn ELSE background[x]
    BY <1>1, <2>1, WithoutIs, NoTurnIs
  <2>4. \A x : LiveIn(x)' = LiveIn(x)
    BY <1>1 DEF LiveIn, IsLive
  <2>5. PICK S \in SUBSET Sessions : S = Sessions \cap {focused}
    OBVIOUS
  <2>6. ASSUME NEW x \in S
        PROVE  TurnOf(x)' = NoTurn /\ buffer'[x] = <<>> /\ \A y \in LiveIn(x)' : sent'[y] = <<>>
    <3>1. LiveIn(x) = {}
      BY <1>3, <2>5 DEF RunsHold, LiveHomes, LiveIn
    <3> QED
      BY <1>1, <2>2, <2>3, <2>4, <2>5, <3>1, StreamAssumption DEF TurnOf
  <2>7. ASSUME NEW x \in Sessions \ S
        PROVE  TurnOf(x)' = TurnOf(x) /\ buffer'[x] = buffer[x] /\ LiveIn(x)' = LiveIn(x)
    BY <1>1, <2>2, <2>3, <2>4, <2>5, StreamAssumption DEF TurnOf
  <2>8. /\ swapped' # Draft /\ background'[swapped'].exists => visible'.exists
        /\ swapped' = Draft => ~visible'.exists
    BY <1>1, <2>1, NoTurnIs
  <2>9. \A y : sent'[y] = sent[y]
    BY <1>1
  <2> QED
    BY <2>3, <2>6, <2>7, <2>8, <2>9, TurnsGo
<1> QED
  BY <1>2, <1>3

LEMMA TurnsRejected ==
  ASSUME IInv, RunsHold, TurnsHold, NEW r \in Runs, Rejected(r), slips' = {}
  PROVE  TurnsHold'
<1>1. /\ UNCHANGED <<swapped, focused, live, home, sent>>
      /\ visible' = NoTurn /\ background' = Without(background, focused) /\ DropBuffer(focused)
      /\ focused \in Views /\ swapped \in Views
  BY DEF Rejected, focusVars, IInv, Types
<1>2. \A x \in Runs : IsLive(x) => home[x] \notin {focused, swapped}
  BY RejectedNot
<1>3. \A x \in Sessions : buffer'[x] = IF x = focused THEN <<>> ELSE buffer[x]
  BY <1>1, DropIs
<1>4. /\ visible' \in Turns /\ background' \in [Sessions -> Turns]
      /\ \A x \in Sessions : background'[x] = IF x = focused THEN NoTurn ELSE background[x]
  BY <1>1, WithoutIs, NoTurnIs
<1>5. \A x : LiveIn(x)' = LiveIn(x)
  BY <1>1 DEF LiveIn, IsLive
<1>6. PICK S \in SUBSET Sessions : S = Sessions \cap {focused, swapped}
  OBVIOUS
<1>7. ASSUME NEW x \in S PROVE LiveIn(x) = {} /\ TurnIsTrue(x)
  BY <1>2, <1>6 DEF LiveIn, TurnsHold
<1>8. swapped # Draft => ~visible.exists /\ background[swapped] = NoTurn
  <2> SUFFICES ASSUME swapped # Draft PROVE ~visible.exists /\ background[swapped] = NoTurn
    OBVIOUS
  <2>1. swapped \in S
    BY <1>1, <1>6 DEF Views
  <2>2. ~visible.exists
    BY <1>7, <2>1 DEF TurnIsTrue, TurnOf
  <2> QED
    BY <1>6, <2>1, <2>2, NoTurnIs DEF TurnsHold, ViewHolds
<1>9. ASSUME NEW x \in S
      PROVE  TurnOf(x)' = NoTurn /\ buffer'[x] = <<>> /\ \A y \in LiveIn(x)' : sent'[y] = <<>>
  <2>1. buffer[x] = <<>>
    BY <1>7 DEF TurnIsTrue
  <2>2. x = focused \/ x = swapped
    BY <1>6
  <2> QED
    BY <1>1, <1>3, <1>4, <1>5, <1>6, <1>7, <2>1, <2>2 DEF TurnOf
<1>10. ASSUME NEW x \in Sessions \ S
       PROVE  TurnOf(x)' = TurnOf(x) /\ buffer'[x] = buffer[x] /\ LiveIn(x)' = LiveIn(x)
  BY <1>1, <1>3, <1>4, <1>5, <1>6 DEF TurnOf
<1>11. /\ swapped' # Draft /\ background'[swapped'].exists => visible'.exists
       /\ swapped' = Draft => ~visible'.exists
  BY <1>1, <1>4, <1>8, NoTurnIs DEF Views
<1>12. \A y : sent'[y] = sent[y]
  BY <1>1
<1> QED
  BY <1>4, <1>9, <1>10, <1>11, <1>12, TurnsGo
\* A run that is forgotten leaves its session without one.
LEMMA ForgetsLive ==
  ASSUME RunsHold, NEW r \in Runs, IsLive(r), live' = Forget(r), home' = home
  PROVE  /\ LiveIn(home[r])' = {}
         /\ \A x : x # home[r] => LiveIn(x)' = LiveIn(x)
<1>1. ~IsLive(r)' /\ \A x \in Runs \ {r} : IsLive(x)' = IsLive(x)
  BY DEF Forget, IsLive
<1>2. PICK s : s = home[r]
  OBVIOUS
<1>3. LiveIn(s)' = {}
  BY <1>1, <1>2 DEF LiveIn, RunsHold
<1>4. \A x : x # s => LiveIn(x)' = LiveIn(x)
  BY <1>1, <1>2 DEF LiveIn
<1>5. LiveIn(home[r])' = LiveIn(s)'
  BY <1>2
<1> QED
  BY <1>2, <1>3, <1>4, <1>5

LEMMA TurnsStopped ==
  ASSUME IInv, RunsHold, TurnsHold, NEW c \in Stops, Stopped(c), slips' = {}
  PROVE  TurnsHold'
<1>1. PICK s, r : s = stops[c].session /\ r = stops[c].run
  OBVIOUS
<1>2. /\ s \in Sessions /\ s = focused /\ s = swapped /\ r \in Runs /\ home[r] = s
      /\ ~IsLive(r) => LiveIn(s) = {} /\ live' = live
  BY <1>1, StoppedInTime
<1>3. /\ visible' = NoTurn /\ background' = [background EXCEPT ![s] = NoTurn]
      /\ buffer' = [x \in Sessions |-> IF x \in {s} THEN <<>> ELSE buffer[x]]
      /\ live' = Forget(r) /\ UNCHANGED <<swapped, home, sent>>
  BY <1>1, <1>2 DEF Stopped, focusVars
<1>4. LiveIn(s)' = {} /\ \A x : x # s => LiveIn(x)' = LiveIn(x)
  <2>1. CASE IsLive(r)
    <3>1. ~IsLive(r)' /\ \A x \in Runs \ {r} : IsLive(x)' = IsLive(x)
      BY <1>2, <1>3 DEF Forget, IsLive
    <3>2. LiveIn(s)' = {}
      BY <1>2, <1>3, <2>1, <3>1 DEF LiveIn, RunsHold
    <3>3. \A x : x # s => LiveIn(x)' = LiveIn(x)
      BY <1>2, <1>3, <2>1, ForgetsLive
    <3> QED
      BY <3>2, <3>3
  <2>2. CASE ~IsLive(r)
    BY <1>2, <1>3, <2>2 DEF LiveIn, IsLive
  <2> QED
    BY <2>1, <2>2
<1>5. visible' \in Turns /\ background' \in [Sessions -> Turns] /\ background'[s] = NoTurn
  BY <1>2, <1>3, NoTurnIs DEF TurnsHold, ViewHolds
<1>6. PICK S \in SUBSET Sessions : S = {s}
  BY <1>2
<1>7. \A x \in S : TurnOf(x)' = NoTurn /\ buffer'[x] = <<>> /\ \A y \in LiveIn(x)' : sent'[y] = <<>>
  BY <1>2, <1>3, <1>4, <1>6 DEF TurnOf
<1>8. ASSUME NEW x \in Sessions \ S
      PROVE  /\ TurnOf(x)' = TurnOf(x) /\ buffer'[x] = buffer[x]
             /\ LiveIn(x)' = LiveIn(x) /\ \A y \in LiveIn(x) : sent'[y] = sent[y]
  <2>1. TurnOf(x)' = TurnOf(x)
    BY <1>2, <1>3, <1>6 DEF TurnOf, TurnsHold, ViewHolds
  <2> QED
    BY <1>3, <1>4, <1>6, <2>1
<1>9. /\ swapped' # Draft /\ background'[swapped'].exists => visible'.exists
      /\ swapped' = Draft => ~visible'.exists
  BY <1>2, <1>3, <1>5, NoTurnIs
<1> QED
  BY <1>5, <1>7, <1>8, <1>9, TurnsGo

\* The turn a run ends with is the one that is saved.
Final(r) ==
  LET stashed == BackgroundFlushed(home[r])[home[r]]
  IN IF IsBackground(r) \/ (home[r] # focused /\ stashed.exists) THEN stashed
     ELSE VisibleFlushed(home[r])

\* A run that ends where its turn is saves all it streamed.
LEMMA FinalIsWhole ==
  ASSUME IInv, RunsHold, TurnsHold, NEW r \in Runs, IsLive(r), ~Caught(home[r])
  PROVE  Final(r).blocks = sent[r]
<1>1. PICK s \in Sessions : s = home[r]
  BY LiveAlone
<1>2. Flushed(s).blocks = sent[r] /\ Flushed(s) \in Turns
  BY <1>1, LiveAlone, FlushedIs
<1>3. /\ s = focused => s = swapped
      /\ s # focused => s # swapped
      /\ focused = Draft => swapped = Draft
  BY <1>1 DEF Caught, Between
<1>4. /\ s = focused => VisibleFlushed(s) = Flushed(s)
      /\ s # focused => /\ BackgroundFlushed(s) = [background EXCEPT ![s] = Flushed(s)]
                        /\ VisibleFlushed(s) = visible
  BY <1>3, FlushedIs
<1>5. s # focused => BackgroundFlushed(s)[s] = Flushed(s)
  BY <1>4 DEF TurnsHold, ViewHolds
<1>6. CASE s = focused
  BY <1>1, <1>2, <1>4, <1>6 DEF Final, IsBackground
<1>7. CASE s # focused /\ (focused # Draft \/ Flushed(s).exists)
  BY <1>1, <1>2, <1>5, <1>7 DEF Final, IsBackground
<1>8. CASE s # focused /\ focused = Draft /\ ~Flushed(s).exists
  <2>1. Final(r) = visible
    BY <1>1, <1>4, <1>5, <1>8 DEF Final, IsBackground
  <2>2. visible = NoTurn /\ Flushed(s) = NoTurn
    BY <1>2, <1>3, <1>8, NoTurnIs DEF TurnsHold, ViewHolds
  <2> QED
    BY <1>2, <2>1, <2>2
<1> QED
  BY <1>6, <1>7, <1>8

LEMMA EndFinds ==
  ASSUME NEW r \in Runs, Done(r) \/ Fail(r), slips' = {}
  PROVE  ~Caught(home[r]) /\ IsLive(r)
BY DEF Done, Fail, SlipIf, End, Emits

LEMMA TurnsEnd ==
  ASSUME IInv, RunsHold, TurnsHold, NEW r \in Runs, Done(r) \/ Fail(r), slips' = {}
  PROVE  TurnsHold'
<1>1. IsLive(r) /\ ~Caught(home[r])
  BY EndFinds
<1>2. PICK s \in Sessions : s = home[r]
  BY <1>1, LiveAlone
<1>3. /\ visible' = IF s = focused THEN NoTurn ELSE visible
      /\ background' = [background EXCEPT ![s] = NoTurn]
      /\ DropBuffer(s) /\ live' = Forget(r) /\ UNCHANGED <<swapped, home, sent>>
  BY <1>2 DEF Done, Fail, End, focusVars
<1>4. \A x \in Sessions : buffer'[x] = IF x = s THEN <<>> ELSE buffer[x]
  BY <1>3, DropIs DEF Views
<1>5. LiveIn(s)' = {} /\ \A x : x # s => LiveIn(x)' = LiveIn(x)
  <2>1. LiveIn(s)' = {}
    <3>1. ~IsLive(r)' /\ \A x \in Runs \ {r} : IsLive(x)' = IsLive(x)
      BY <1>3 DEF Forget, IsLive
    <3> QED
      BY <1>1, <1>2, <1>3, <3>1 DEF LiveIn, RunsHold
  <2>2. \A x : x # s => LiveIn(x)' = LiveIn(x)
    BY <1>1, <1>2, <1>3, ForgetsLive
  <2> QED
    BY <2>1, <2>2
<1>6. s = focused <=> s = swapped
  BY <1>1, <1>2 DEF Caught, Between
<1>7. /\ visible' \in Turns /\ background' \in [Sessions -> Turns]
      /\ \A x \in Sessions : background'[x] = IF x = s THEN NoTurn ELSE background[x]
  BY <1>3, NoTurnIs DEF TurnsHold, ViewHolds
<1>8. PICK S \in SUBSET Sessions : S = {s}
  OBVIOUS
<1>9. TurnOf(s)' = NoTurn /\ buffer'[s] = <<>>
  BY <1>3, <1>4, <1>6, <1>7 DEF TurnOf
<1>10. \A x \in S : TurnOf(x)' = NoTurn /\ buffer'[x] = <<>> /\ \A y \in LiveIn(x)' : sent'[y] = <<>>
  BY <1>5, <1>8, <1>9
<1>11. ASSUME NEW x \in Sessions \ S
       PROVE  /\ TurnOf(x)' = TurnOf(x) /\ buffer'[x] = buffer[x]
              /\ LiveIn(x)' = LiveIn(x) /\ \A y \in LiveIn(x) : sent'[y] = sent[y]
  <2>1. TurnOf(x)' = TurnOf(x)
    BY <1>3, <1>6, <1>7, <1>8 DEF TurnOf
  <2> QED
    BY <1>3, <1>4, <1>5, <1>8, <2>1
<1>12. /\ swapped' # Draft /\ background'[swapped'].exists => visible'.exists
       /\ swapped' = Draft => ~visible'.exists
  BY <1>3, <1>6, <1>7, NoTurnIs DEF TurnsHold, ViewHolds, IInv, Types, Views
<1> QED
  BY <1>7, <1>10, <1>11, <1>12, TurnsGo

LEMMA TurnsStep ==
  ASSUME IInv, RunsHold, TurnsHold, [Next]_vars, slips' = {}
  PROVE  TurnsHold'
<1>1. ASSUME NEW s \in Sessions, SelectNow(s) PROVE TurnsHold'
  <2>1. /\ s \in Views /\ s # swapped /\ SwapTo(s) /\ swapped' = s
        /\ UNCHANGED <<live, home, sent>>
    BY <1>1 DEF SelectNow, Settled, Click, Views
  <2> QED
    BY <2>1, TurnsSwap
<1>2. CASE Swap
  <2>1. /\ focused \in Views /\ focused # swapped /\ SwapTo(focused) /\ swapped' = focused
        /\ UNCHANGED <<live, home, sent>>
    BY <1>2 DEF Swap, Between, IInv, Types, runVars
  <2> QED
    BY <2>1, TurnsSwap
<1>3. CASE NewSession
  BY <1>3, TurnsNew
<1>4. CASE \/ \E s \in Sessions : SelectLater(s)
           \/ Open \/ OpenFails \/ WorkspaceSwitched \/ Render
  <2>1. UNCHANGED <<swapped, visible, background, buffer, live, home, sent>>
    BY <1>4 DEF SelectLater, Open, OpenFails, WorkspaceSwitched, Render, turnVars, runVars
  <2> QED
    BY <2>1, TurnsStay
<1>5. ASSUME NEW r \in Runs, Send(r) \/ Rejected(r) PROVE TurnsHold'
  BY <1>5, TurnsSend, TurnsRejected
<1>6. ASSUME NEW r \in Runs, Refuse(r) PROVE TurnsHold'
  <2>1. UNCHANGED <<swapped, visible, background, buffer, live, home, sent>>
    BY <1>6 DEF Refuse, focusVars, turnVars
  <2> QED
    BY <2>1, TurnsStay
<1>7. ASSUME NEW r \in Runs, Event(r) PROVE TurnsHold'
  BY <1>7, EventIs, TurnsToken, TurnsBlock, TurnsReplace, TurnsRetry, TurnsEnd
<1>8. ASSUME NEW c \in Stops, Stop(c) PROVE TurnsHold'
  <2>1. UNCHANGED <<swapped, visible, background, buffer, live, home, sent>>
    BY <1>8 DEF Stop, focusVars, turnVars, runVars
  <2> QED
    BY <2>1, TurnsStay
<1>9. ASSUME NEW c \in Stops, Stopped(c) PROVE TurnsHold'
  BY <1>9, TurnsStopped
<1>10. ASSUME NEW s \in Sessions, Frame(s) PROVE TurnsHold'
  BY <1>10, TurnsFrame
<1>11. CASE UNCHANGED vars
  BY <1>11, TurnsStay DEF vars, focusVars, turnVars, runVars
<1> QED
  BY <1>1, <1>2, <1>3, <1>4, <1>5, <1>6, <1>7, <1>8, <1>9, <1>10, <1>11 DEF Next, FocusMoves
-----------------------------------------------------------------------------
(* Without a slip: the answers *)

Answers ==
  [run : Runs, how : {"done", "failed", "stopped", "late"},
   blocks : {Lasting(b) : b \in Seq(Blocks)}]

\* Answers are of runs that are not live any more, in the session of the run, and the whole of it or
\* the empty notice of a late stop; a run has one whole answer at most, and one if it has something
\* to show.
AnswersHold ==
  /\ transcript \in [Sessions -> Seq(Answers)]
  /\ \A s \in Sessions : \A i \in DOMAIN transcript[s] :
       /\ home[transcript[s][i].run] = s /\ ~IsLive(transcript[s][i].run)
       /\ transcript[s][i].blocks = Lasting(IF transcript[s][i].how = "late" THEN <<>>
                                            ELSE sent[transcript[s][i].run])
  /\ \A s \in Sessions : \A i, j \in DOMAIN transcript[s] :
       /\ transcript[s][i].run = transcript[s][j].run
       /\ transcript[s][i].how # "late" /\ transcript[s][j].how # "late"
       => i = j
  /\ \A r \in Runs : Answerable(r) =>
       \E s \in Sessions : \E i \in DOMAIN transcript[s] :
         transcript[s][i].run = r /\ transcript[s][i].how # "late"

\* A step that writes no answer, changes none of the runs that have one and makes none due.
LEMMA AnswersStay ==
  ASSUME AnswersHold, transcript' = transcript,
         \A r \in Runs : home[r] \in Sessions /\ ~IsLive(r) =>
           home'[r] = home[r] /\ sent'[r] = sent[r] /\ ~IsLive(r)',
         \A r \in Runs : Answerable(r)' => Answerable(r)
  PROVE  AnswersHold'
<1>1. ASSUME NEW s \in Sessions, NEW i \in DOMAIN transcript[s]
      PROVE  /\ home'[transcript[s][i].run] = s /\ ~IsLive(transcript[s][i].run)'
             /\ transcript[s][i].blocks = Lasting(IF transcript[s][i].how = "late" THEN <<>>
                                                  ELSE sent'[transcript[s][i].run])
  <2>1. PICK r \in Runs : r = transcript[s][i].run
    <3>1. transcript[s] \in Seq(Answers)
      BY DEF AnswersHold
    <3>2. transcript[s][i] \in Answers
      BY <3>1
    <3> QED
      BY <3>2 DEF Answers
  <2>2. /\ home[r] = s /\ ~IsLive(r)
        /\ transcript[s][i].blocks = Lasting(IF transcript[s][i].how = "late" THEN <<>> ELSE sent[r])
    BY <2>1 DEF AnswersHold
  <2>3. home'[r] = s /\ sent'[r] = sent[r] /\ ~IsLive(r)'
    BY <2>2
  <2>4. ~IsLive(transcript[s][i].run)'
    BY <2>1, <2>3 DEF IsLive
  <2> QED
    BY <2>1, <2>2, <2>3, <2>4
<1>2. /\ transcript' \in [Sessions -> Seq(Answers)]
      /\ \A s \in Sessions : \A i, j \in DOMAIN transcript'[s] :
           /\ transcript'[s][i].run = transcript'[s][j].run
           /\ transcript'[s][i].how # "late" /\ transcript'[s][j].how # "late"
           => i = j
      /\ \A r \in Runs : Answerable(r)' =>
           \E s \in Sessions : \E i \in DOMAIN transcript'[s] :
             transcript'[s][i].run = r /\ transcript'[s][i].how # "late"
  BY DEF AnswersHold
<1>3. \A s \in Sessions : \A i \in DOMAIN transcript'[s] :
        /\ home'[transcript'[s][i].run] = s /\ live'[transcript'[s][i].run] = 0
        /\ transcript'[s][i].blocks = Lasting(IF transcript'[s][i].how = "late" THEN <<>>
                                              ELSE sent'[transcript'[s][i].run])
  BY <1>1 DEF IsLive
<1> QED
  BY <1>2, <1>3 DEF AnswersHold, IsLive

\* An answer that is added: an empty notice, or the whole of a run that was live.
LEMMA AnswersAdd ==
  ASSUME AnswersHold, NEW s \in Sessions, NEW a \in Answers,
         transcript' = [transcript EXCEPT ![s] = Append(@, a)],
         home[a.run] = s, live'[a.run] = 0,
         a.blocks = Lasting(IF a.how = "late" THEN <<>> ELSE sent[a.run]),
         a.how # "late" => IsLive(a.run),
         UNCHANGED <<home, sent>>, \A x \in Runs : live[x] = 0 => live'[x] = 0,
         \A x \in Runs : Answerable(x)' => Answerable(x) \/ (x = a.run /\ a.how # "late")
  PROVE  AnswersHold'
<1>1. transcript \in [Sessions -> Seq(Answers)]
  BY DEF AnswersHold
<1>2. transcript' \in [Sessions -> Seq(Answers)]
  BY <1>1
<1>3. PICK n \in Nat : n = Len(transcript[s])
  BY <1>1
<1>4. /\ DOMAIN transcript[s] = 1..n /\ DOMAIN transcript'[s] = 1..(n + 1)
      /\ \A i \in 1..n : transcript'[s][i] = transcript[s][i]
      /\ transcript'[s][n + 1] = a
  <2>1. transcript[s] \in Seq(Answers) /\ transcript'[s] = Append(transcript[s], a)
    BY <1>1
  <2> QED
    BY <1>3, <2>1, AppendProperties
<1>5. \A x \in Sessions \ {s} : transcript'[x] = transcript[x]
  BY <1>1
<1>6. a.how # "late" =>
        \A x \in Sessions : \A i \in DOMAIN transcript[x] : transcript[x][i].run # a.run
  BY DEF AnswersHold
<1>7. ASSUME NEW x \in Sessions, NEW i \in DOMAIN transcript[x]
      PROVE  /\ home'[transcript[x][i].run] = x /\ live'[transcript[x][i].run] = 0
             /\ transcript[x][i].blocks = Lasting(IF transcript[x][i].how = "late" THEN <<>>
                                                  ELSE sent'[transcript[x][i].run])
  <2>1. transcript[x] \in Seq(Answers)
    BY <1>1
  <2>2. transcript[x][i] \in Answers
    BY <2>1
  <2>3. transcript[x][i].run \in Runs
    BY <2>2 DEF Answers
  <2>4. /\ home[transcript[x][i].run] = x /\ live[transcript[x][i].run] = 0
        /\ transcript[x][i].blocks = Lasting(IF transcript[x][i].how = "late" THEN <<>>
                                             ELSE sent[transcript[x][i].run])
    BY DEF AnswersHold, IsLive
  <2> QED
    BY <2>3, <2>4
<1>8. \A x \in Sessions : \A i \in DOMAIN transcript'[x] :
        /\ home'[transcript'[x][i].run] = x /\ live'[transcript'[x][i].run] = 0
        /\ transcript'[x][i].blocks = Lasting(IF transcript'[x][i].how = "late" THEN <<>>
                                              ELSE sent'[transcript'[x][i].run])
  <2>1. ASSUME NEW x \in Sessions \ {s}, NEW i \in DOMAIN transcript'[x]
        PROVE  /\ home'[transcript'[x][i].run] = x /\ live'[transcript'[x][i].run] = 0
               /\ transcript'[x][i].blocks = Lasting(IF transcript'[x][i].how = "late" THEN <<>>
                                                     ELSE sent'[transcript'[x][i].run])
    BY <1>5, <1>7
  <2>2. ASSUME NEW i \in 1..(n + 1)
        PROVE  /\ home'[transcript'[s][i].run] = s /\ live'[transcript'[s][i].run] = 0
               /\ transcript'[s][i].blocks = Lasting(IF transcript'[s][i].how = "late" THEN <<>>
                                                     ELSE sent'[transcript'[s][i].run])
    <3>1. CASE i \in 1..n
      BY <1>4, <1>7, <3>1
    <3>2. CASE i = n + 1
      BY <1>4, <3>2
    <3> QED
      BY <1>3, <3>1, <3>2
  <2> QED
    BY <1>4, <2>1, <2>2
<1>9. \A x \in Sessions : \A i, j \in DOMAIN transcript'[x] :
        /\ transcript'[x][i].run = transcript'[x][j].run
        /\ transcript'[x][i].how # "late" /\ transcript'[x][j].how # "late"
        => i = j
  <2>1. ASSUME NEW i \in 1..(n + 1), NEW j \in 1..(n + 1),
               transcript'[s][i].run = transcript'[s][j].run,
               transcript'[s][i].how # "late", transcript'[s][j].how # "late"
        PROVE  i = j
    <3>1. (i \in 1..n \/ i = n + 1) /\ (j \in 1..n \/ j = n + 1)
      BY <1>3
    <3>2. i \in 1..n /\ j \in 1..n => i = j
      BY <1>4, <2>1 DEF AnswersHold
    <3>3. i \in 1..n => j # n + 1
      BY <1>4, <1>6, <2>1
    <3>4. j \in 1..n => i # n + 1
      BY <1>4, <1>6, <2>1
    <3> QED
      BY <3>1, <3>2, <3>3, <3>4
  <2>2. ASSUME NEW x \in Sessions \ {s}, NEW i \in DOMAIN transcript'[x], NEW j \in DOMAIN transcript'[x],
               transcript'[x][i].run = transcript'[x][j].run,
               transcript'[x][i].how # "late", transcript'[x][j].how # "late"
        PROVE  i = j
    BY <1>5, <2>2 DEF AnswersHold
  <2> QED
    BY <1>4, <2>1, <2>2
<1>10. ASSUME NEW x \in Runs, Answerable(x)'
       PROVE  \E y \in Sessions : \E i \in DOMAIN transcript'[y] :
                transcript'[y][i].run = x /\ transcript'[y][i].how # "late"
  <2>1. CASE x = a.run /\ a.how # "late"
    <3>1. n + 1 \in DOMAIN transcript'[s] /\ transcript'[s][n + 1] = a
      BY <1>3, <1>4
    <3> QED
      BY <2>1, <3>1
  <2>2. CASE Answerable(x)
    <3>1. PICK y \in Sessions : \E i \in DOMAIN transcript[y] :
            transcript[y][i].run = x /\ transcript[y][i].how # "late"
      BY <2>2 DEF AnswersHold
    <3>2. PICK i \in DOMAIN transcript[y] : transcript[y][i].run = x /\ transcript[y][i].how # "late"
      BY <3>1
    <3>3. i \in DOMAIN transcript'[y] /\ transcript'[y][i] = transcript[y][i]
      BY <1>3, <1>4, <1>5, <3>2
    <3> QED
      BY <3>2, <3>3
  <2> QED
    BY <1>10, <2>1, <2>2
<1> QED
  BY <1>2, <1>8, <1>9, <1>10 DEF AnswersHold, IsLive

\* The answer of a run that was live is its only whole one.
LEMMA AnswersSay ==
  ASSUME IInv, RunsHold, AnswersHold, NEW r \in Runs, IsLive(r),
         NEW how \in {"done", "failed", "stopped"}, Say(home[r], Answer(r, how, Lasting(sent[r]))),
         live' = Forget(r), UNCHANGED <<home, sent>>,
         \A x \in Runs \ {r} : outcome'[x] = outcome[x]
  PROVE  AnswersHold'
<1> DEFINE a == Answer(r, how, Lasting(sent[r]))
<1>1. PICK s \in Sessions : s = home[r]
  BY LiveAlone
<1>2. sent[r] \in Seq(Blocks)
  BY DEF IInv, Types
<1>3. a \in Answers /\ a.run = r /\ a.how # "late" /\ a.blocks = Lasting(sent[r])
  BY <1>2 DEF Answer, Answers
<1>4. transcript' = [transcript EXCEPT ![s] = Append(@, a)]
  BY <1>1 DEF Say
<1>5. live'[r] = 0 /\ \A x \in Runs : live[x] = 0 => live'[x] = 0
  BY DEF Forget
<1>6. \A x \in Runs : Answerable(x)' => Answerable(x) \/ x = r
  BY DEF Answerable
<1> HIDE DEF a
<1> QED
  BY <1>1, <1>3, <1>4, <1>5, <1>6, AnswersAdd

\* The notice of a stop that came late.
LEMMA AnswersNotice ==
  ASSUME AnswersHold, NEW s \in Sessions, NEW r \in Runs, home[r] = s, ~IsLive(r),
         Say(s, Answer(r, "late", Lasting(<<>>))), UNCHANGED <<live, home, sent, outcome>>
  PROVE  AnswersHold'
<1> DEFINE a == Answer(r, "late", Lasting(<<>>))
<1>1. a \in Answers /\ a.run = r /\ a.how = "late" /\ a.blocks = Lasting(<<>>)
  <2>1. <<>> \in Seq(Blocks)
    OBVIOUS
  <2> QED
    BY <2>1 DEF Answer, Answers
<1>2. transcript' = [transcript EXCEPT ![s] = Append(@, a)]
  BY DEF Say
<1>3. live'[r] = 0 /\ \A x \in Runs : live[x] = 0 => live'[x] = 0
  BY DEF IsLive
<1>4. \A x \in Runs : Answerable(x)' => Answerable(x)
  BY DEF Answerable
<1> HIDE DEF a
<1> QED
  BY <1>1, <1>2, <1>3, <1>4, AnswersAdd

LEMMA AnswersEnd ==
  ASSUME IInv, RunsHold, TurnsHold, AnswersHold, NEW r \in Runs, Done(r) \/ Fail(r), slips' = {}
  PROVE  AnswersHold'
<1>1. IsLive(r) /\ ~Caught(home[r])
  BY EndFinds
<1>2. PICK how \in {"done", "failed"} : End(r, how)
  BY DEF Done, Fail
<1>3. Final(r).blocks = sent[r]
  BY <1>1, FinalIsWhole
<1>4. IF how = "failed" \/ Lasting(Final(r).blocks) # <<>> \/ TextCount(sent[r]) > 0
      THEN Say(home[r], Answer(r, how, Lasting(Final(r).blocks)))
      ELSE UNCHANGED transcript
  BY <1>2 DEF End, Final
<1>5. /\ live' = Forget(r) /\ UNCHANGED <<home, sent>>
      /\ outcome' = [outcome EXCEPT ![r] = how]
  BY <1>2 DEF End
<1>6. outcome'[r] = how /\ \A x \in Runs \ {r} : outcome'[x] = outcome[x]
  BY <1>5 DEF RunsHold
<1>7. CASE Say(home[r], Answer(r, how, Lasting(sent[r])))
  BY <1>1, <1>5, <1>6, <1>7, AnswersSay
<1>8. CASE ~Say(home[r], Answer(r, how, Lasting(sent[r])))
  <2>1. how = "done" /\ Lasting(sent[r]) = <<>> /\ UNCHANGED transcript
    BY <1>3, <1>4, <1>8
  <2>2. \A x \in Runs : Answerable(x)' => Answerable(x)
    BY <1>5, <1>6, <2>1 DEF Answerable
  <2>3. \A x \in Runs : ~IsLive(x) => ~IsLive(x)'
    BY <1>5 DEF Forget, IsLive
  <2> QED
    BY <1>5, <2>1, <2>2, <2>3, AnswersStay
<1> QED
  BY <1>7, <1>8

LEMMA AnswersStopped ==
  ASSUME IInv, RunsHold, TurnsHold, AnswersHold, NEW c \in Stops, Stopped(c), slips' = {}
  PROVE  AnswersHold'
<1>1. PICK s, r : s = stops[c].session /\ r = stops[c].run
  OBVIOUS
<1>2. /\ s \in Sessions /\ s = focused /\ s = swapped /\ r \in Runs /\ home[r] = s
      /\ ~IsLive(r) => LiveIn(s) = {} /\ live' = live /\ outcome' = outcome
  BY <1>1, StoppedInTime
<1>3. /\ Say(s, Answer(r, IF IsLive(r) THEN "stopped" ELSE "late", Lasting(VisibleFlushed(s).blocks)))
      /\ live' = Forget(r) /\ UNCHANGED <<home, sent>>
      /\ outcome' = [x \in Runs |-> IF x = r /\ outcome[r] = "none" THEN "stopped" ELSE outcome[x]]
  BY <1>1, <1>2, StreamAssumption DEF Stopped, IsLive
<1>4. CASE IsLive(r)
  <2>1. r \in LiveIn(s)
    BY <1>2, <1>4 DEF LiveIn
  <2>2. VisibleFlushed(s).blocks = sent[r]
    BY <1>2, <2>1, FlushedIs
  <2>3. Say(home[r], Answer(r, "stopped", Lasting(sent[r])))
    BY <1>2, <1>3, <1>4, <2>2
  <2>4. \A x \in Runs \ {r} : outcome'[x] = outcome[x]
    BY <1>3
  <2> QED
    BY <1>2, <1>3, <1>4, <2>3, <2>4, AnswersSay
<1>5. CASE ~IsLive(r)
  <2>1. LiveIn(s) = {} /\ UNCHANGED <<live, home, sent, outcome>>
    BY <1>2, <1>3, <1>5
  <2>2. VisibleFlushed(s) = TurnOf(s) /\ TurnOf(s) = NoTurn
    <3>1. TurnIsTrue(s)
      BY <1>2 DEF TurnsHold
    <3>2. ~TurnOf(s).exists /\ buffer[s] = <<>>
      BY <2>1, <3>1 DEF TurnIsTrue
    <3>3. TurnOf(s) \in Turns
      BY <1>2, FlushedIs
    <3> QED
      BY <1>2, <3>2, <3>3, NoTurnIs DEF VisibleFlushed, Extend, TurnOf
  <2>3. VisibleFlushed(s).blocks = <<>>
    BY <2>2, NoTurnIs
  <2>4. Say(s, Answer(r, "late", Lasting(<<>>)))
    BY <1>3, <1>5, <2>3
  <2> QED
    BY <1>2, <1>5, <2>1, <2>4, AnswersNotice
<1> QED
  BY <1>4, <1>5

LEMMA AnswersStep ==
  ASSUME IInv, RunsHold, TurnsHold, AnswersHold, [Next]_vars, slips' = {}
  PROVE  AnswersHold'
<1>1. ASSUME UNCHANGED <<transcript, live, home, sent, outcome>> PROVE AnswersHold'
  <2>1. /\ \A r \in Runs : home'[r] = home[r] /\ sent'[r] = sent[r] /\ IsLive(r)' = IsLive(r)
        /\ \A r \in Runs : Answerable(r)' = Answerable(r)
    BY <1>1 DEF IsLive, Answerable
  <2> QED
    BY <1>1, <2>1, AnswersStay
<1>2. CASE FocusMoves
  <2>1. UNCHANGED <<live, home, sent, outcome>>
    BY <1>2 DEF FocusMoves, SelectNow, SelectLater, Open, OpenFails, NewSession,
                WorkspaceSwitched, Render, Swap, runVars
  <2>2. UNCHANGED transcript
    <3>1. CASE Open
      <4>1. /\ opening.session \in Sessions
            /\ transcript' = [transcript EXCEPT ![opening.session] = opening.messages]
            /\ opening.messages = transcript[opening.session]
        BY <3>1 DEF Open, SlipIf, IInv, Types
      <4> QED
        BY <4>1 DEF AnswersHold
    <3>2. CASE ~Open
      BY <1>2, <3>2 DEF FocusMoves, SelectNow, SelectLater, OpenFails, NewSession,
                        WorkspaceSwitched, Render, Swap
    <3> QED
      BY <3>1, <3>2
  <2> QED
    BY <1>1, <2>1, <2>2
<1>3. ASSUME NEW r \in Runs, Send(r) PROVE AnswersHold'
  <2>1. /\ home[r] = None /\ UNCHANGED <<transcript, sent, outcome>>
        /\ \A x \in Runs \ {r} : home'[x] = home[x] /\ live'[x] = live[x]
    BY <1>3 DEF Send, IInv, Types
  <2>2. \A x \in Runs : Answerable(x)' = Answerable(x)
    BY <2>1 DEF Answerable
  <2>3. \A x \in Runs : home[x] \in Sessions => x # r
    BY <2>1, StreamAssumption
  <2>4. \A x \in Runs : home[x] \in Sessions /\ ~IsLive(x) =>
          home'[x] = home[x] /\ sent'[x] = sent[x] /\ ~IsLive(x)'
    BY <2>1, <2>3 DEF IsLive
  <2> QED
    BY <2>1, <2>2, <2>4, AnswersStay
<1>4. ASSUME NEW r \in Runs, Refuse(r) PROVE AnswersHold'
  <2>1. /\ UNCHANGED <<transcript, sent, live, home>>
        /\ outcome' = [outcome EXCEPT ![r] = "refused"]
    BY <1>4 DEF Refuse
  <2>2. outcome'[r] = "refused" /\ \A x \in Runs \ {r} : outcome'[x] = outcome[x]
    BY <2>1 DEF RunsHold
  <2>3. \A x \in Runs : Answerable(x)' => Answerable(x)
    BY <2>1, <2>2 DEF Answerable
  <2>4. \A x \in Runs : home'[x] = home[x] /\ sent'[x] = sent[x] /\ IsLive(x)' = IsLive(x)
    BY <2>1 DEF IsLive
  <2> QED
    BY <2>1, <2>3, <2>4, AnswersStay
<1>5. ASSUME NEW r \in Runs, Rejected(r) PROVE AnswersHold'
  BY <1>1, <1>5 DEF Rejected
<1>6. ASSUME NEW r \in Runs, Streams(r) PROVE AnswersHold'
  <2>1. /\ IsLive(r) /\ outcome[r] = "none" /\ UNCHANGED <<live, home, transcript, outcome>>
        /\ \A x \in Runs \ {r} : sent'[x] = sent[x]
    BY <1>6, StreamsFacts
  <2>2. \A x \in Runs : IsLive(x)' = IsLive(x)
    BY <2>1 DEF IsLive
  <2>3. \A x \in Runs : Answerable(x)' => Answerable(x)
    BY <2>1 DEF Answerable
  <2> QED
    BY <2>1, <2>2, <2>3, AnswersStay
<1>7. ASSUME NEW r \in Runs, Done(r) \/ Fail(r) PROVE AnswersHold'
  BY <1>7, AnswersEnd
<1>8. ASSUME NEW c \in Stops, Stop(c) PROVE AnswersHold'
  BY <1>1, <1>8 DEF Stop, runVars
<1>9. ASSUME NEW c \in Stops, Stopped(c) PROVE AnswersHold'
  BY <1>9, AnswersStopped
<1>10. ASSUME NEW s \in Sessions, Frame(s) PROVE AnswersHold'
  BY <1>1, <1>10 DEF Frame, runVars
<1>11. CASE UNCHANGED vars
  BY <1>1, <1>11 DEF vars, runVars
<1> QED
  BY <1>2, <1>3, <1>4, <1>5, <1>6, <1>7, <1>8, <1>9, <1>10, <1>11, EventIs DEF Next, Streams
-----------------------------------------------------------------------------
\* The window until the first slip.
StreamInv == slips = {} => RunsHold /\ TurnsHold /\ AnswersHold

LEMMA StreamStarts == Init => StreamInv
<1> SUFFICES ASSUME Init PROVE RunsHold /\ TurnsHold /\ AnswersHold
  BY DEF StreamInv
<1>1. \A r \in Runs : ~IsLive(r) /\ home[r] = None /\ sent[r] = <<>> /\ outcome[r] = "none"
  BY DEF Init, IsLive
<1>2. RunsHold
  <2>1. LiveHomes = {}
    BY <1>1 DEF LiveHomes
  <2>2. /\ busy = {} /\ rejecting = {} /\ \A c \in Stops : stops[c] = None
        /\ outcome \in [Runs -> {"none", "done", "failed", "stopped", "refused"}]
    BY DEF Init
  <2> QED
    BY <1>1, <2>1, <2>2 DEF RunsHold
<1>3. TurnsHold
  <2>1. /\ visible = NoTurn /\ background = [s \in Sessions |-> NoTurn] /\ swapped = Draft
        /\ \A s \in Sessions : buffer[s] = <<>>
    BY DEF Init
  <2>2. \A s \in Sessions : LiveIn(s) = {} /\ TurnOf(s) = NoTurn
    BY <1>1, <2>1, StreamAssumption DEF LiveIn, TurnOf
  <2>3. \A s \in Sessions : TurnIsTrue(s)
    BY <2>1, <2>2, NoTurnIs DEF TurnIsTrue
  <2>4. ViewHolds
    BY <2>1, NoTurnIs DEF ViewHolds
  <2> QED
    BY <2>3, <2>4 DEF TurnsHold
<1>4. AnswersHold
  <2>1. \A s \in Sessions : transcript[s] = <<>>
    BY DEF Init
  <2>2. transcript \in [Sessions -> Seq(Answers)]
    BY DEF Init
  <2>3. \A r \in Runs : ~Answerable(r)
    BY <1>1 DEF Answerable
  <2> QED
    BY <2>1, <2>2, <2>3 DEF AnswersHold
<1> QED
  BY <1>2, <1>3, <1>4

\* Until something slips, the runs, the turns and the answers fit together.
THEOREM StreamHolds == Spec => []StreamInv
<1>1. IInv /\ StreamInv /\ [Next]_vars => StreamInv'
  <2> SUFFICES ASSUME IInv, StreamInv, [Next]_vars, slips' = {}
               PROVE  (RunsHold /\ TurnsHold /\ AnswersHold)'
    BY DEF StreamInv
  <2>1. RunsHold /\ TurnsHold /\ AnswersHold
    BY SlipsStay DEF StreamInv
  <2> QED
    BY <2>1, RunsStep, TurnsStep, AnswersStep
<1> QED
  BY <1>1, StreamStarts, RoutingHolds, PTL DEF Spec

\* For any number of sessions and runs, until something slips, the turn of a
\* live run and the text waiting for it are what the run has streamed, in
\* order and each piece once: no frame, event, retry or change of focus loses
\* or repeats a block or moves it between sessions.
THEOREM TurnsAreTrue == Spec => []LiveTurnsAreTrue
<1>1. StreamInv => LiveTurnsAreTrue
  <2> SUFFICES ASSUME StreamInv, slips = {}, NEW r \in Runs, IsLive(r)
               PROVE  TurnOf(home[r]).blocks \o buffer[home[r]] = sent[r]
    BY DEF LiveTurnsAreTrue
  <2>1. RunsHold /\ TurnsHold
    BY DEF StreamInv
  <2>2. home[r] \in Sessions /\ r \in LiveIn(home[r])
    BY <2>1, LiveAlone
  <2> QED
    BY <2>1, <2>2 DEF TurnsHold, TurnIsTrue
<1> QED
  BY <1>1, StreamHolds, PTL

\* For any number of sessions and runs, until something slips, a session
\* without a live run shows no turn, has no text waiting and is not shown as
\* running, and every session with one is.
THEOREM GhostsAreGone == Spec => []NoGhostTurns
<1>1. StreamInv => NoGhostTurns
  BY DEF StreamInv, NoGhostTurns, RunsHold, TurnsHold, TurnIsTrue, LiveHomes
<1> QED
  BY <1>1, StreamHolds, PTL

\* For any number of sessions and runs, until something slips, the answers in
\* a transcript are the whole of runs of that session, one for each run at
\* most, or empty notices of stops that came after the end, and a run that
\* ended with something to show has its answer.
THEOREM AnswersAreWhole == Spec => []OneWholeAnswer
<1>1. IInv /\ StreamInv => OneWholeAnswer
  <2> SUFFICES ASSUME IInv, StreamInv, slips = {} PROVE
        /\ \A s \in Sessions : \A a \in Range(transcript[s]) :
             home[a.run] = s /\ a.blocks = Due(a)
        /\ \A r \in Started : Cardinality(AnswersOf(r)) <= 1 /\ (Answerable(r) => AnswersOf(r) # {})
    BY DEF OneWholeAnswer
  <2>1. RunsHold /\ AnswersHold
    BY DEF StreamInv
  <2>2. ASSUME NEW s \in Sessions, NEW a \in Range(transcript[s])
        PROVE  home[a.run] = s /\ a.blocks = Due(a)
    BY <2>1 DEF AnswersHold, Range, Due
  <2>3. ASSUME NEW r \in Started, ~(Cardinality(AnswersOf(r)) <= 1) PROVE FALSE
    <3>1. CASE AnswersOf(r) = {}
      BY <2>3, <3>1, FS_EmptySet
    <3>2. CASE AnswersOf(r) # {}
      <4>1. PICK i : i \in AnswersOf(r)
        BY <3>2
      <4>2. home[r] \in Sessions
        BY DEF Started, IInv, Types
      <4>3. \A j \in AnswersOf(r) : j = i
        BY <2>1, <4>1, <4>2 DEF AnswersHold, AnswersOf
      <4>4. AnswersOf(r) = {i}
        BY <4>1, <4>3
      <4>5. Cardinality({i}) = 1
        BY FS_Singleton
      <4> QED
        BY <2>3, <4>4, <4>5
    <3> QED
      BY <3>1, <3>2
  <2>4. ASSUME NEW r \in Started, Answerable(r) PROVE AnswersOf(r) # {}
    <3>1. PICK s \in Sessions : \E i \in DOMAIN transcript[s] :
            transcript[s][i].run = r /\ transcript[s][i].how # "late"
      BY <2>1, <2>4 DEF AnswersHold, Started
    <3>2. home[r] = s
      BY <2>1, <3>1 DEF AnswersHold
    <3> QED
      BY <3>1, <3>2 DEF AnswersOf
  <2> QED
    BY <2>2, <2>3, <2>4
<1> QED
  BY <1>1, RoutingHolds, StreamHolds, PTL
=============================================================================
