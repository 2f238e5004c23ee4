--------------------------- MODULE AgentRunProofs ---------------------------
(***************************************************************************)
(* What holds of a run of an agent for any limits, any loop guard and any  *)
(* interleaving of the kernel, the model, the tools and the turn.          *)
(***************************************************************************)
EXTENDS AgentRun, SequenceTheorems, TLAPS

\* Tool calls are about only while the model waits for them, and a run that was
\* stopped has no calls left.
CallsInPhase ==
  /\ asked # <<>> \/ gated # <<>> \/ running > 0 \/ replied > 0 => phase = "tools"
  /\ at # "gate" => gated = <<>>
  /\ stopped # "none" => phase = "none"

\* Every request belongs to a counted model call, and a call that is tried
\* again has been sent once more than it has been retried.
RequestsCounted ==
  /\ Len(attempts) = calls
  /\ \A i \in 1..calls : attempts[i] \in 1..(MaxRetries + 1)
  /\ phase \in {"streaming", "ended"} => calls > 0 /\ attempts[calls] = retries + 1
  /\ phase = "backoff" => retries > 0
  /\ phase = "tools" => retries = 0
  /\ phase \in {"ready", "backoff"} /\ retries > 0 => calls > 0 /\ attempts[calls] = retries
  /\ stopped = "limit" => calls = MaxTurns

\* A cancellation that the kernel has not seen cannot be slept through: a wake
\* waits for it, or is about to (Cancellation::drop stores the flag first).
CancelIsHeard ==
  at \notin {"check", "over"} /\ flag => token \/ future = "wake"

\* What the kernel keeps is what the model said, and an attempt starts where the
\* earlier ones end.
TextKept ==
  /\ at # "over" => live \o deltas = spoken \o saying
  /\ at = "settle" \/ (phase \notin {"streaming", "ended"} /\ at # "over") => deltas = <<>>
  /\ phase \in {"streaming", "ended"} => Len(spoken) = start
  /\ at = "over" /\ kresult = "answered" => live = spoken \o saying

\* What the turn has been shown and will be shown is what the kernel keeps.
TextShown ==
  /\ \A i \in 1..Len(channel) : channel[i].kind = "text" => Len(channel[i].of) = 1
  /\ future # "gone" => \E r \in 0..Len(channel) : Brings(channel, r, shown, live)
  /\ outcome # "none" => future = "gone"
  /\ outcome = "answered" => at = "over" /\ shown = spoken \o saying
-----------------------------------------------------------------------------
(* Types *)

LEMMA PieceTyped ==
  ASSUME NEW p \in Nat PROVE Piece(p) \in Events
  BY DEF Piece, Events

LEMMA ControlStep ==
  ASSUME ControlTyped, [Next]_vars PROVE ControlTyped'
<1> USE RunAssumption DEF ControlTyped, Results, detector, stateVars, toolVars, rigVars, futureVars, history
<1>1. CASE Check
  BY <1>1 DEF Check, DropCalls
<1>2. CASE BackoffEnds
  BY <1>2 DEF BackoffEnds
<1>3. CASE GateModel
  <2>1. UNCHANGED <<kresult, reply, future, outcome, flag, token>>
    BY <1>3 DEF GateModel
  <2>2. CASE retries = 0 /\ calls >= MaxTurns
    BY <1>3, <2>2 DEF GateModel, Stop, DropCalls
  <2>3. CASE ~(retries = 0 /\ calls >= MaxTurns)
    <3>1. StartModel /\ UNCHANGED <<stopped, finished>>
      BY <1>3, <2>3 DEF GateModel
    <3>2. at' = "review" /\ phase' = "streaming"
      BY <3>1 DEF StartModel
    <3>3. late' \in BOOLEAN
      BY <3>1 DEF StartModel
    <3> QED
      BY <2>1, <3>1, <3>2, <3>3
  <2> QED
    BY <2>2, <2>3
<1>4. CASE GateTool
  BY <1>4 DEF GateTool, Stop, DropCalls
<1>5. CASE StartTools
  BY <1>5 DEF StartTools
<1>6. CASE ReadDelta
  BY <1>6 DEF ReadDelta, Emit
<1>7. CASE ReviewRetry
  BY <1>7 DEF ReviewRetry, Emit
<1>8. CASE ReviewEnd
  BY <1>8 DEF ReviewEnd, Emit
<1>9. CASE SettleTool
  BY <1>9 DEF SettleTool, Stop, DropCalls
<1>10. CASE NextCall
  BY <1>10 DEF NextCall
<1>11. CASE Look
  BY <1>11 DEF Look
<1>12. CASE WakeUp
  <2>1. at' = "check" /\ token' = FALSE
    BY <1>12 DEF WakeUp
  <2>2. UNCHANGED <<kresult, stopped, finished, phase, reply, future, outcome, flag, late>>
    BY <1>12 DEF WakeUp
  <2>3. token' \in BOOLEAN /\ flag' \in BOOLEAN /\ late' \in BOOLEAN
    BY <2>1, <2>2
  <2>4. at' \in {"check", "gate", "review", "settle", "wait", "over"}
    BY <2>1
  <2> QED
    BY <2>2, <2>3, <2>4
<1>13. CASE Speak
  BY <1>13 DEF Speak
<1>14. CASE Reply
  BY <1>14 DEF Reply
<1>15. CASE ToolEnds
  BY <1>15 DEF ToolEnds
<1>16. CASE Receive
  BY <1>16 DEF Receive
<1>17. CASE Conclude
  BY <1>17 DEF Conclude
<1>18. CASE SetFlag
  BY <1>18 DEF SetFlag
<1>19. CASE WakeKernel
  BY <1>19 DEF WakeKernel, CloseReceiver
<1>20. CASE Abandon
  BY <1>20 DEF Abandon
<1>21. CASE ReviewNothing
  BY <1>21 DEF ReviewNothing
<1>22. CASE UNCHANGED vars
  BY <1>22 DEF vars
<1> QED
  BY <1>1, <1>2, <1>3, <1>4, <1>5, <1>6, <1>7, <1>8, <1>9, <1>10, <1>11, <1>12,
     <1>13, <1>14, <1>15, <1>16, <1>17, <1>18, <1>19, <1>20, <1>21, <1>22
  DEF Next, Kernel, World, Future

LEMMA CountsStep ==
  ASSUME CountsTyped, [Next]_vars PROVE CountsTyped'
<1> USE RunAssumption DEF CountsTyped, detector, stateVars, toolVars, rigVars, futureVars, history
<1>1. CASE Check
  BY <1>1 DEF Check, DropCalls
<1>2. CASE BackoffEnds
  BY <1>2 DEF BackoffEnds
<1>3. CASE GateModel
  <2>1. CASE retries = 0 /\ calls >= MaxTurns
    BY <1>3, <2>1 DEF GateModel, Stop, DropCalls
  <2>2. CASE ~(retries = 0 /\ calls >= MaxTurns)
    <3>1. Counted \in Seq(Nat)
      <4>1. CASE retries = 0
        BY <4>1 DEF Counted
      <4>2. CASE retries # 0
        <5>1. CASE Len(attempts) = 0
          <6>1. Counted = attempts
            BY <4>2, <5>1 DEF Counted
          <6> QED
            BY <6>1
        <5>2. CASE Len(attempts) # 0
          <6>1. Len(attempts) \in 1..Len(attempts) /\ attempts[Len(attempts)] + 1 \in Nat
            BY <5>2
          <6>2. [attempts EXCEPT ![Len(attempts)] = attempts[Len(attempts)] + 1] \in Seq(Nat)
            BY <6>1, ExceptSeq
          <6> QED
            BY <4>2, <6>2 DEF Counted
        <5> QED
          BY <5>1, <5>2
      <4> QED
        BY <4>1, <4>2
    <3>2. calls' \in 0..MaxTurns /\ requests' \in Nat
      BY <1>3, <2>2 DEF GateModel, StartModel
    <3> QED
      BY <1>3, <2>2, <3>1, <3>2 DEF GateModel, StartModel
  <2> QED
    BY <2>1, <2>2
<1>4. CASE GateTool
  BY <1>4 DEF GateTool, Stop, DropCalls
<1>5. CASE StartTools
  BY <1>5 DEF StartTools
<1>6. CASE ReadDelta
  BY <1>6 DEF ReadDelta, Emit
<1>7. CASE ReviewRetry
  BY <1>7 DEF ReviewRetry, Emit
<1>8. CASE ReviewEnd
  BY <1>8 DEF ReviewEnd, Emit
<1>9. CASE SettleTool
  BY <1>9 DEF SettleTool, Stop, DropCalls
<1>10. CASE NextCall
  BY <1>10 DEF NextCall
<1>11. CASE Look
  BY <1>11 DEF Look
<1>12. CASE WakeUp
  BY <1>12 DEF WakeUp
<1>13. CASE Speak
  BY <1>13 DEF Speak
<1>14. CASE Reply
  BY <1>14 DEF Reply
<1>15. CASE ToolEnds
  BY <1>15 DEF ToolEnds
<1>16. CASE Receive
  BY <1>16 DEF Receive
<1>17. CASE Conclude
  BY <1>17 DEF Conclude
<1>18. CASE SetFlag
  BY <1>18 DEF SetFlag
<1>19. CASE WakeKernel
  BY <1>19 DEF WakeKernel, CloseReceiver
<1>20. CASE Abandon
  BY <1>20 DEF Abandon
<1>21. CASE ReviewNothing
  BY <1>21 DEF ReviewNothing
<1>22. CASE UNCHANGED vars
  BY <1>22 DEF vars
<1> QED
  BY <1>1, <1>2, <1>3, <1>4, <1>5, <1>6, <1>7, <1>8, <1>9, <1>10, <1>11, <1>12,
     <1>13, <1>14, <1>15, <1>16, <1>17, <1>18, <1>19, <1>20, <1>21, <1>22
  DEF Next, Kernel, World, Future

LEMMA ToolsStep ==
  ASSUME ToolsTyped, [Next]_vars PROVE ToolsTyped'
<1> USE RunAssumption DEF ToolsTyped, detector, stateVars, toolVars, rigVars, futureVars, history
<1>0. <<>> \in Seq(Sigs)
  OBVIOUS
<1>1. CASE Check
  BY <1>0, <1>1 DEF Check, DropCalls
<1>2. CASE BackoffEnds
  BY <1>2 DEF BackoffEnds
<1>3. CASE GateModel
  BY <1>0, <1>3 DEF GateModel, Stop, DropCalls, StartModel
<1>4. CASE GateTool
  <2>1. /\ Head(asked) \in Sigs /\ Tail(asked) \in Seq(Sigs)
        /\ CountAfter(Head(asked)) \in Nat
    BY <1>4 DEF GateTool, CountAfter
  <2>2. last' \in Sigs /\ repeats' \in Nat
    BY <1>4, <2>1 DEF GateTool
  <2>3. asked' \in Seq(Sigs) /\ gated' \in Seq(Sigs)
    <3>1. CASE Stops(CountAfter(Head(asked)))
      BY <1>0, <1>4, <3>1 DEF GateTool, Stop, DropCalls
    <3>2. CASE ~Stops(CountAfter(Head(asked)))
      <4>1. asked' = Tail(asked) /\ gated' = Append(gated, Head(asked))
        BY <1>4, <3>2 DEF GateTool
      <4> QED
        BY <2>1, <4>1
    <3> QED
      BY <3>1, <3>2
  <2>4. UNCHANGED <<why, streak, ran, got>>
    BY <1>4 DEF GateTool
  <2> QED
    BY <2>2, <2>3, <2>4
<1>5. CASE StartTools
  BY <1>5 DEF StartTools
<1>6. CASE ReadDelta
  BY <1>6 DEF ReadDelta, Emit
<1>7. CASE ReviewRetry
  BY <1>7 DEF ReviewRetry, Emit
<1>8. CASE ReviewEnd
  <2>1. asked' = asked \/ \E n \in 1..MaxBatch : asked' \in [1..n -> Sigs]
    BY <1>8 DEF ReviewEnd
  <2> QED
    BY <1>8, <2>1 DEF ReviewEnd
<1>9. CASE SettleTool
  <2>1. PICK result \in Reasons \cup {"none"} :
          /\ got' = Recent(Append(got, result))
          /\ streak' = StreakAfter(result) /\ why' = WhyAfter(result)
    BY <1>9 DEF SettleTool
  <2>2. got' \in Seq(Reasons \cup {"none"})
    <3>1. Append(got, result) \in Seq(Reasons \cup {"none"}) /\ Append(got, result) # <<>>
      BY SMTT(60)
    <3>2. Recent(Append(got, result)) \in Seq(Reasons \cup {"none"})
      BY <3>1 DEF Recent
    <3> QED
      BY <2>1, <3>2
  <2>3. streak' \in Nat /\ why' \in Reasons \cup {"none"}
    BY <2>1 DEF StreakAfter, WhyAfter
  <2>4. asked' \in Seq(Sigs) /\ gated' \in Seq(Sigs)
    BY <1>0, <1>9 DEF SettleTool, Stop, DropCalls
  <2>5. UNCHANGED <<last, repeats, ran>>
    BY <1>9 DEF SettleTool
  <2> QED
    BY <2>2, <2>3, <2>4, <2>5
<1>10. CASE NextCall
  BY <1>10 DEF NextCall
<1>11. CASE Look
  BY <1>11 DEF Look
<1>12. CASE WakeUp
  BY <1>12 DEF WakeUp
<1>13. CASE Speak
  BY <1>13 DEF Speak
<1>14. CASE Reply
  BY <1>14 DEF Reply
<1>15. CASE ToolEnds
  BY <1>15 DEF ToolEnds
<1>16. CASE Receive
  BY <1>16 DEF Receive
<1>17. CASE Conclude
  BY <1>17 DEF Conclude
<1>18. CASE SetFlag
  BY <1>18 DEF SetFlag
<1>19. CASE WakeKernel
  BY <1>19 DEF WakeKernel, CloseReceiver
<1>20. CASE Abandon
  BY <1>20 DEF Abandon
<1>21. CASE ReviewNothing
  BY <1>21 DEF ReviewNothing
<1>22. CASE UNCHANGED vars
  BY <1>22 DEF vars
<1> QED
  BY <1>1, <1>2, <1>3, <1>4, <1>5, <1>6, <1>7, <1>8, <1>9, <1>10, <1>11, <1>12,
     <1>13, <1>14, <1>15, <1>16, <1>17, <1>18, <1>19, <1>20, <1>21, <1>22
  DEF Next, Kernel, World, Future

LEMMA TextStep ==
  ASSUME CountsTyped, TextTyped, [Next]_vars PROVE TextTyped'
<1> USE RunAssumption DEF TextTyped, CountsTyped, detector, stateVars, toolVars, rigVars, futureVars, history
<1>1. CASE Check
  BY <1>1 DEF Check, DropCalls
<1>2. CASE BackoffEnds
  BY <1>2 DEF BackoffEnds
<1>3. CASE GateModel
  <2>1. UNCHANGED <<live, deltas, channel, shown>>
    BY <1>3 DEF GateModel
  <2>2. start' \in 0..Len(live)
    BY <1>3 DEF GateModel
  <2>3. CASE retries = 0 /\ calls >= MaxTurns
    BY <1>3, <2>1, <2>2, <2>3 DEF GateModel
  <2>4. CASE ~(retries = 0 /\ calls >= MaxTurns)
    <3>1. StartModel
      BY <1>3, <2>4 DEF GateModel
    <3>2. spoken' \in Seq(Nat) /\ saying' \in Seq(Nat)
      BY <3>1 DEF StartModel
    <3> QED
      BY <2>1, <2>2, <3>2
  <2> QED
    BY <2>3, <2>4
<1>4. CASE GateTool
  BY <1>4 DEF GateTool, Stop, DropCalls
<1>5. CASE StartTools
  BY <1>5 DEF StartTools
<1>6. CASE ReadDelta
  <2>1. Head(deltas) \in Nat /\ Tail(deltas) \in Seq(Nat)
    BY <1>6 DEF ReadDelta
  <2>2. Append(live, Head(deltas)) \in Seq(Nat) /\ Len(live) <= Len(Append(live, Head(deltas)))
    BY <2>1
  <2>3. Piece(Head(deltas)) \in Events
    BY <2>1, PieceTyped
  <2> QED
    BY <1>6, <2>1, <2>2, <2>3 DEF ReadDelta, Emit
<1>7. CASE ReviewRetry
  <2>1. live' \in Seq(Nat) /\ Len(live') = start
    BY <1>7 DEF ReviewRetry
  <2>2. Reset(live') \in Events
    BY <2>1 DEF Reset, Events
  <2>3. channel' \in Seq(Events)
    BY <1>7, <2>2 DEF ReviewRetry, Emit
  <2>4. spoken' \in Seq(Nat) /\ saying' \in Seq(Nat) /\ UNCHANGED <<start, deltas, shown>>
    BY <1>7 DEF ReviewRetry
  <2> QED
    BY <2>1, <2>3, <2>4
<1>8. CASE ReviewEnd
  BY <1>8 DEF ReviewEnd
<1>9. CASE SettleTool
  BY <1>9 DEF SettleTool, Stop, DropCalls
<1>10. CASE NextCall
  BY <1>10 DEF NextCall
<1>11. CASE Look
  BY <1>11 DEF Look
<1>12. CASE WakeUp
  BY <1>12 DEF WakeUp
<1>13. CASE Speak
  BY <1>13 DEF Speak
<1>14. CASE Reply
  BY <1>14 DEF Reply
<1>15. CASE ToolEnds
  BY <1>15 DEF ToolEnds
<1>16. CASE Receive
  <2>1. Head(channel) \in Events /\ Tail(channel) \in Seq(Events)
    BY <1>16 DEF Receive
  <2>2. Shows(shown, Head(channel)) \in Seq(Nat)
    BY <2>1 DEF Shows, Events
  <2> QED
    BY <1>16, <2>1, <2>2 DEF Receive
<1>17. CASE Conclude
  BY <1>17 DEF Conclude
<1>18. CASE SetFlag
  BY <1>18 DEF SetFlag
<1>19. CASE WakeKernel
  BY <1>19 DEF WakeKernel, CloseReceiver
<1>20. CASE Abandon
  BY <1>20 DEF Abandon
<1>21. CASE ReviewNothing
  BY <1>21 DEF ReviewNothing
<1>22. CASE UNCHANGED vars
  BY <1>22 DEF vars
<1> QED
  BY <1>1, <1>2, <1>3, <1>4, <1>5, <1>6, <1>7, <1>8, <1>9, <1>10, <1>11, <1>12,
     <1>13, <1>14, <1>15, <1>16, <1>17, <1>18, <1>19, <1>20, <1>21, <1>22
  DEF Next, Kernel, World, Future

\* The state of a run is typed: the counters stay within the limits of the role
\* and the retry policy, and an attempt starts within the text (RunState).
THEOREM TypeCorrect == Spec => []TypeOK
<1>1. Init => TypeOK
  <2>0. Init => ControlTyped
    BY DEF Init, ControlTyped, Results
  <2>1. Init => CountsTyped
    <3>1. <<>> \in Seq(Nat)
      OBVIOUS
    <3> QED
      BY RunAssumption, <3>1 DEF Init, CountsTyped
  <2>2. Init => ToolsTyped
    <3>1. <<>> \in Seq(Sigs) /\ <<>> \in Seq(Reasons \cup {"none"})
      OBVIOUS
    <3> QED
      BY <3>1 DEF Init, ToolsTyped
  <2>3. Init => TextTyped
    <3>1. <<>> \in Seq(Nat) /\ <<>> \in Seq(Events) /\ Len(<<>>) = 0
      OBVIOUS
    <3> QED
      BY <3>1 DEF Init, TextTyped
  <2> QED
    BY <2>0, <2>1, <2>2, <2>3 DEF TypeOK
<1>2. TypeOK /\ [Next]_vars => TypeOK'
  BY ControlStep, CountsStep, ToolsStep, TextStep DEF TypeOK
<1> QED
  BY <1>1, <1>2, PTL DEF Spec
-----------------------------------------------------------------------------
(* Limits *)

\* A model call starts when no tool call is left.
LEMMA PhaseStep ==
  ASSUME CountsTyped, ToolsTyped, CallsInPhase, [Next]_vars PROVE CallsInPhase'
<1> USE RunAssumption DEF CountsTyped, ToolsTyped, CallsInPhase, detector, stateVars, toolVars, rigVars, futureVars, history
<1>1. CASE Check
  BY <1>1 DEF Check, DropCalls
<1>2. CASE BackoffEnds
  BY <1>2 DEF BackoffEnds
<1>3. CASE GateModel
  BY <1>3 DEF GateModel, Stop, DropCalls, StartModel
<1>4. CASE GateTool
  BY <1>4 DEF GateTool, Stop, DropCalls
<1>5. CASE StartTools
  BY <1>5 DEF StartTools
<1>6. CASE ReadDelta
  BY <1>6 DEF ReadDelta, Emit
<1>7. CASE ReviewRetry
  BY <1>7 DEF ReviewRetry, Emit
<1>8. CASE ReviewEnd
  BY <1>8 DEF ReviewEnd, Emit
<1>9. CASE SettleTool
  BY <1>9 DEF SettleTool, Stop, DropCalls
<1>10. CASE NextCall
  BY <1>10 DEF NextCall
<1>11. CASE Look
  BY <1>11 DEF Look
<1>12. CASE WakeUp
  BY <1>12 DEF WakeUp
<1>13. CASE Speak
  BY <1>13 DEF Speak
<1>14. CASE Reply
  BY <1>14 DEF Reply
<1>15. CASE ToolEnds
  BY <1>15 DEF ToolEnds
<1>16. CASE Receive
  BY <1>16 DEF Receive
<1>17. CASE Conclude
  BY <1>17 DEF Conclude
<1>18. CASE SetFlag
  BY <1>18 DEF SetFlag
<1>19. CASE WakeKernel
  BY <1>19 DEF WakeKernel, CloseReceiver
<1>20. CASE Abandon
  BY <1>20 DEF Abandon
<1>21. CASE ReviewNothing
  BY <1>21 DEF ReviewNothing
<1>22. CASE UNCHANGED vars
  BY <1>22 DEF vars
<1> QED
  BY <1>1, <1>2, <1>3, <1>4, <1>5, <1>6, <1>7, <1>8, <1>9, <1>10, <1>11, <1>12,
     <1>13, <1>14, <1>15, <1>16, <1>17, <1>18, <1>19, <1>20, <1>21, <1>22
  DEF Next, Kernel, World, Future

\* A retry is counted in the attempts of its call and in nothing else.
LEMMA CountedStep ==
  ASSUME CountsTyped, CallsInPhase, RequestsCounted, [Next]_vars PROVE RequestsCounted'
<1> USE RunAssumption DEF CountsTyped, CallsInPhase, RequestsCounted, detector, stateVars, toolVars, rigVars, futureVars, history
<1>1. CASE Check
  BY <1>1 DEF Check, DropCalls
<1>2. CASE BackoffEnds
  BY <1>2 DEF BackoffEnds
<1>3. CASE GateModel
  <2>1. CASE retries = 0 /\ calls >= MaxTurns
    BY <1>3, <2>1 DEF GateModel, Stop, DropCalls
  <2>2. CASE retries = 0 /\ ~(calls >= MaxTurns)
    <3>1. attempts' = Append(attempts, 1) /\ calls' = calls + 1 /\ phase' = "streaming"
      BY <1>3, <2>2 DEF GateModel, StartModel, Counted
    <3>2. stopped' = stopped /\ retries' = retries
      BY <1>3, <2>2 DEF GateModel
    <3>3. \A i \in 1..calls' : attempts'[i] = IF i = calls' THEN 1 ELSE attempts[i]
      BY <3>1
    <3>4. Len(attempts') = calls'
      BY <3>1
    <3>5. stopped = "none"
      BY <1>3 DEF GateModel
    <3> QED
      BY <2>2, <3>1, <3>2, <3>3, <3>4, <3>5
  <2>3. CASE retries # 0
    <3>1. attempts' = Counted /\ calls' = calls /\ phase' = "streaming"
      BY <1>3, <2>3 DEF GateModel, StartModel
    <3>2. stopped' = stopped /\ retries' = retries
      BY <1>3, <2>3 DEF GateModel
    <3>3. Counted = [attempts EXCEPT ![Len(attempts)] = attempts[Len(attempts)] + 1]
      BY <2>3 DEF Counted
    <3>4. calls > 0 /\ Len(attempts) = calls /\ attempts[calls] = retries /\ phase = "ready"
      BY <1>3, <2>3 DEF GateModel
    <3>5. Len(attempts) \in 1..Len(attempts) /\ attempts[Len(attempts)] + 1 \in Nat
      BY <3>4
    <3>6. /\ Len(Counted) = calls
          /\ \A i \in 1..calls : Counted[i] = IF i = calls THEN retries + 1 ELSE attempts[i]
      BY <3>3, <3>4, <3>5, ExceptSeq
    <3> QED
      BY <2>3, <3>1, <3>2, <3>4, <3>6
  <2> QED
    BY <2>1, <2>2, <2>3
<1>4. CASE GateTool
  BY <1>4 DEF GateTool, Stop, DropCalls
<1>5. CASE StartTools
  BY <1>5 DEF StartTools
<1>6. CASE ReadDelta
  BY <1>6 DEF ReadDelta, Emit
<1>7. CASE ReviewRetry
  BY <1>7 DEF ReviewRetry, Emit
<1>8. CASE ReviewEnd
  BY <1>8 DEF ReviewEnd, Emit
<1>9. CASE SettleTool
  BY <1>9 DEF SettleTool, Stop, DropCalls
<1>10. CASE NextCall
  BY <1>10 DEF NextCall
<1>11. CASE Look
  BY <1>11 DEF Look
<1>12. CASE WakeUp
  BY <1>12 DEF WakeUp
<1>13. CASE Speak
  BY <1>13 DEF Speak
<1>14. CASE Reply
  BY <1>14 DEF Reply
<1>15. CASE ToolEnds
  BY <1>15 DEF ToolEnds
<1>16. CASE Receive
  BY <1>16 DEF Receive
<1>17. CASE Conclude
  BY <1>17 DEF Conclude
<1>18. CASE SetFlag
  BY <1>18 DEF SetFlag
<1>19. CASE WakeKernel
  BY <1>19 DEF WakeKernel, CloseReceiver
<1>20. CASE Abandon
  BY <1>20 DEF Abandon
<1>21. CASE ReviewNothing
  BY <1>21 DEF ReviewNothing
<1>22. CASE UNCHANGED vars
  BY <1>22 DEF vars
<1> QED
  BY <1>1, <1>2, <1>3, <1>4, <1>5, <1>6, <1>7, <1>8, <1>9, <1>10, <1>11, <1>12,
     <1>13, <1>14, <1>15, <1>16, <1>17, <1>18, <1>19, <1>20, <1>21, <1>22
  DEF Next, Kernel, World, Future

\* Retries are free and everything else counts: no run asks for more replies than
\* its role allows, and none is stopped before it has asked for them (gate_calls,
\* review_retries).
THEOREM LimitsOfRun == Spec => []LimitsHold
<1>1. Init => CallsInPhase /\ RequestsCounted
  <2>1. Len(<<>>) = 0
    OBVIOUS
  <2> QED
    BY <2>1 DEF Init, CallsInPhase, RequestsCounted
<1>2. TypeOK /\ CallsInPhase /\ RequestsCounted /\ [Next]_vars => (CallsInPhase /\ RequestsCounted)'
  BY PhaseStep, CountedStep DEF TypeOK
<1>3. TypeOK /\ RequestsCounted => LimitsHold
  BY DEF TypeOK, CountsTyped, RequestsCounted, LimitsHold
<1> QED
  BY <1>1, <1>2, <1>3, TypeCorrect, PTL DEF Spec

\* The flag is set before the wake is sent, and a wake is taken before the flag
\* is read.
LEMMA HeardStep ==
  ASSUME ControlTyped, CancelIsHeard, [Next]_vars PROVE CancelIsHeard'
<1> USE RunAssumption DEF ControlTyped, CancelIsHeard, Cancelled, detector, stateVars, toolVars, rigVars, futureVars, history
<1>1. CASE Check
  BY <1>1 DEF Check, DropCalls
<1>2. CASE BackoffEnds
  BY <1>2 DEF BackoffEnds
<1>3. CASE GateModel
  BY <1>3 DEF GateModel, Stop, DropCalls, StartModel
<1>4. CASE GateTool
  BY <1>4 DEF GateTool, Stop, DropCalls
<1>5. CASE StartTools
  BY <1>5 DEF StartTools
<1>6. CASE ReadDelta
  BY <1>6 DEF ReadDelta, Emit
<1>7. CASE ReviewRetry
  BY <1>7 DEF ReviewRetry, Emit
<1>8. CASE ReviewEnd
  BY <1>8 DEF ReviewEnd, Emit
<1>9. CASE SettleTool
  BY <1>9 DEF SettleTool, Stop, DropCalls
<1>10. CASE NextCall
  BY <1>10 DEF NextCall
<1>11. CASE Look
  BY <1>11 DEF Look
<1>12. CASE WakeUp
  BY <1>12 DEF WakeUp
<1>13. CASE Speak
  BY <1>13 DEF Speak
<1>14. CASE Reply
  BY <1>14 DEF Reply
<1>15. CASE ToolEnds
  BY <1>15 DEF ToolEnds
<1>16. CASE Receive
  BY <1>16 DEF Receive
<1>17. CASE Conclude
  BY <1>17 DEF Conclude
<1>18. CASE SetFlag
  BY <1>18 DEF SetFlag
<1>19. CASE WakeKernel
  BY <1>19 DEF WakeKernel, CloseReceiver
<1>20. CASE Abandon
  BY <1>20 DEF Abandon
<1>21. CASE ReviewNothing
  BY <1>21 DEF ReviewNothing
<1>22. CASE UNCHANGED vars
  BY <1>22 DEF vars
<1> QED
  BY <1>1, <1>2, <1>3, <1>4, <1>5, <1>6, <1>7, <1>8, <1>9, <1>10, <1>11, <1>12,
     <1>13, <1>14, <1>15, <1>16, <1>17, <1>18, <1>19, <1>20, <1>21, <1>22
  DEF Next, Kernel, World, Future

\* No kernel sleeps through its cancellation (Cancellation::drop, kernel).
THEOREM CancellationHeard == Spec => []CancelIsHeard
<1>1. Init => CancelIsHeard
  BY DEF Init, CancelIsHeard
<1>2. TypeOK /\ CancelIsHeard /\ [Next]_vars => CancelIsHeard'
  BY HeardStep DEF TypeOK
<1> QED
  BY <1>1, <1>2, TypeCorrect, PTL DEF Spec
-----------------------------------------------------------------------------
(* Text *)

\* What a view becomes once the channel is read, r being the last reset in it.
View(view, ch, r) ==
  (IF r = 0 THEN view ELSE ch[r].of) \o [i \in 1..(Len(ch) - r) |-> ch[r + i].of[1]]

\* All that a channel can bring to a text.
Contents(ch) == Nat \cup {ch[i].of[1] : i \in 1..Len(ch)}

LEMMA FrontOfConcat ==
  ASSUME NEW s \in Seq(Nat), NEW t \in Seq(Nat) PROVE SubSeq(s \o t, 1, Len(s)) = s
<1>1. s \o t \in Seq(Nat) /\ Len(s \o t) = Len(s) + Len(t)
  OBVIOUS
<1>2. SubSeq(s \o t, 1, Len(s)) \in Seq(Nat) /\ Len(SubSeq(s \o t, 1, Len(s))) = Len(s)
  BY <1>1
<1>3. \A i \in 1..Len(s) : SubSeq(s \o t, 1, Len(s))[i] = s[i]
  BY <1>1
<1> QED
  BY <1>2, <1>3, SeqEqual

LEMMA AppendedLater ==
  ASSUME NEW S, NEW s \in Seq(S), NEW t \in Seq(S), NEW p \in S
  PROVE s \o Append(t, p) = Append(s \o t, p)
<1>1. Append(t, p) = t \o <<p>> /\ <<p>> \in Seq(S)
  BY AppendIsConcat
<1>2. s \o t \in Seq(S) /\ (s \o t) \o <<p>> = s \o (t \o <<p>>)
  BY <1>1, ConcatAssociative
<1>3. Append(s \o t, p) = (s \o t) \o <<p>>
  BY <1>2, AppendIsConcat
<1> QED
  BY <1>1, <1>2, <1>3

LEMMA ReadEarlier ==
  ASSUME NEW S, NEW s \in Seq(S), NEW t \in Seq(S), t # <<>>
  PROVE Append(s, Head(t)) \o Tail(t) = s \o t
<1>1. Head(t) \in S /\ Tail(t) \in Seq(S) /\ <<Head(t)>> \in Seq(S)
  OBVIOUS
<1>2. Append(s, Head(t)) = s \o <<Head(t)>>
  BY <1>1, AppendIsConcat
<1>3. (s \o <<Head(t)>>) \o Tail(t) = s \o (<<Head(t)>> \o Tail(t))
  BY <1>1, ConcatAssociative
<1>4. <<Head(t)>> \o Tail(t) = t
  <2>1. <<Head(t)>> \o Tail(t) \in Seq(S) /\ Len(<<Head(t)>> \o Tail(t)) = Len(t)
    BY <1>1
  <2>2. \A i \in 1..Len(t) : (<<Head(t)>> \o Tail(t))[i] = t[i]
    <3>1. \A i \in 1..Len(t) :
            (<<Head(t)>> \o Tail(t))[i] = IF i <= 1 THEN <<Head(t)>>[i] ELSE Tail(t)[i - 1]
      BY <1>1, ConcatProperties
    <3>2. \A i \in 1..(Len(t) - 1) : Tail(t)[i] = t[i + 1]
      BY HeadTailProperties
    <3> QED
      BY <3>1, <3>2
  <2> QED
    BY <2>1, <2>2, SeqEqual
<1> QED
  BY <1>2, <1>3, <1>4

LEMMA NaturalsLater ==
  \A s, t \in Seq(Nat), p \in Nat : s \o Append(t, p) = Append(s \o t, p)
<1> SUFFICES ASSUME NEW s \in Seq(Nat), NEW t \in Seq(Nat), NEW p \in Nat
             PROVE s \o Append(t, p) = Append(s \o t, p)
  OBVIOUS
<1> QED
  BY AppendedLater

LEMMA NaturalsEarlier ==
  \A s, t \in Seq(Nat) : t # <<>> => Append(s, Head(t)) \o Tail(t) = s \o t
  BY ReadEarlier, Zenon

LEMMA OneMore ==
  ASSUME NEW n \in Nat, NEW i \in Nat, i > n, i <= n + 1 PROVE i = n + 1
  OBVIOUS

LEMMA SeqOf ==
  ASSUME NEW S, NEW n \in Nat, NEW f \in [1..n -> S] PROVE f \in Seq(S) /\ Len(f) = n
  OBVIOUS

LEMMA PieceSent ==
  ASSUME NEW view \in Seq(Nat), NEW ch \in Seq(Events), NEW r \in 0..Len(ch), NEW p \in Nat
  PROVE View(view, Append(ch, Piece(p)), r) = Append(View(view, ch, r), p)
<1> DEFINE after == Append(ch, Piece(p))
           base == IF r = 0 THEN view ELSE ch[r].of
           rest == [i \in 1..(Len(ch) - r) |-> ch[r + i].of[1]]
           S == Contents(ch)
<1>1. /\ Len(after) = Len(ch) + 1
      /\ after[Len(ch) + 1] = Piece(p)
      /\ \A i \in 1..Len(ch) : after[i] = ch[i]
  BY PieceTyped, AppendProperties
<1>2. base \in Seq(Nat)
  <2>1. r # 0 => ch[r] \in Events
    OBVIOUS
  <2> QED
    BY <2>1 DEF Events
<1>3. Nat \subseteq S /\ p \in S
  BY DEF Contents
<1>4. base \in Seq(S)
  BY <1>2, <1>3
<1>5. rest \in Seq(S) /\ Len(rest) = Len(ch) - r
  <2>1. \A i \in 1..(Len(ch) - r) : r + i \in 1..Len(ch)
    OBVIOUS
  <2>2. \A i \in 1..(Len(ch) - r) : ch[r + i].of[1] \in S
    BY <2>1 DEF Contents
  <2>3. rest \in [1..(Len(ch) - r) -> S] /\ Len(ch) - r \in Nat
    BY <2>2
  <2> HIDE DEF rest, S
  <2> QED
    BY <2>3, SeqOf, Zenon
<1>6. [i \in 1..(Len(after) - r) |-> after[r + i].of[1]] = Append(rest, p)
  <2> DEFINE longer == [i \in 1..(Len(after) - r) |-> after[r + i].of[1]]
  <2>1. Append(rest, p) \in Seq(S) /\ Len(Append(rest, p)) = Len(after) - r
    <3>1. Len(after) = Len(ch) + 1 /\ r \in Nat /\ Len(ch) \in Nat
      BY <1>1
    <3> HIDE DEF rest, S, after
    <3>2. Append(rest, p) \in Seq(S) /\ Len(Append(rest, p)) = Len(rest) + 1
      BY <1>3, <1>5, AppendProperties, SMTT(60)
    <3> QED
      BY <3>1, <3>2, <1>5
  <2>2. \A i \in 1..(Len(after) - r) : longer[i] = Append(rest, p)[i]
    <3>1. \A i \in 1..(Len(ch) - r) : longer[i] = rest[i] /\ Append(rest, p)[i] = rest[i]
      <4>1. \A i \in 1..(Len(ch) - r) : r + i \in 1..Len(ch)
        OBVIOUS
      <4>2. \A i \in 1..(Len(ch) - r) : Append(rest, p)[i] = rest[i]
        BY <1>3, <1>5, AppendProperties
      <4> QED
        BY <1>1, <4>1, <4>2
    <3>2. longer[Len(ch) - r + 1] = p
      <4>1. r + (Len(ch) - r + 1) = Len(ch) + 1 /\ Len(ch) - r + 1 \in 1..(Len(after) - r)
        BY <1>1
      <4>2. Piece(p).of[1] = p
        BY DEF Piece
      <4> QED
        BY <1>1, <4>1, <4>2
    <3>3. Append(rest, p)[Len(ch) - r + 1] = p
      BY <1>3, <1>5, AppendProperties
    <3>4. \A i \in 1..(Len(after) - r) : i \in 1..(Len(ch) - r) \/ i = Len(ch) - r + 1
      BY <1>1
    <3> HIDE DEF longer, rest
    <3> QED
      BY <3>1, <3>2, <3>3, <3>4
  <2>3. DOMAIN longer = 1..(Len(after) - r)
    OBVIOUS
  <2>4. DOMAIN Append(rest, p) = 1..(Len(after) - r)
    BY <2>1
  <2>5. longer \in Seq(S) /\ Len(longer) = Len(after) - r
    <3>1. \A i \in 1..(Len(after) - r) : longer[i] \in S
      <4>1. \A i \in 1..(Len(after) - r) : Append(rest, p)[i] \in S
        <5> HIDE DEF rest, S, after
        <5> QED
          BY <2>1
      <4> HIDE DEF longer, rest, S, after
      <4> QED
        BY <2>2, <4>1
    <3>2. Len(after) - r \in Nat
      BY <1>1
    <3>3. longer \in [1..(Len(after) - r) -> S]
      BY <3>1
    <3> HIDE DEF longer
    <3> QED
      BY <3>2, <3>3, SMTT(60)
  <2> HIDE DEF longer, rest, S, after
  <2>6. longer = Append(rest, p)
    BY <2>1, <2>2, <2>5, SeqEqual
  <2> QED
    BY <2>6 DEF longer
<1>7. (IF r = 0 THEN view ELSE after[r].of) = base
  BY <1>1
<1>8. base \o Append(rest, p) = Append(base \o rest, p)
  <2> HIDE DEF base, rest, S
  <2> QED
    BY <1>3, <1>4, <1>5, AppendedLater, SMTT(60)
<1> QED
  BY <1>6, <1>7, <1>8 DEF View

LEMMA ResetSent ==
  ASSUME NEW view \in Seq(Nat), NEW ch \in Seq(Events), NEW text \in Seq(Nat)
  PROVE View(view, Append(ch, Reset(text)), Len(ch) + 1) = text
<1> DEFINE after == Append(ch, Reset(text))
<1>1. Len(after) = Len(ch) + 1 /\ after[Len(ch) + 1] = Reset(text)
  BY AppendProperties DEF Reset, Events
<1>2. [i \in 1..(Len(after) - (Len(ch) + 1)) |-> after[Len(ch) + 1 + i].of[1]] = <<>>
  BY <1>1
<1>3. text \o <<>> = text
  BY ConcatEmptySeq
<1>4. Reset(text).of = text
  BY DEF Reset
<1> QED
  BY <1>1, <1>2, <1>3, <1>4 DEF View

\* The base is kept apart from the rest, which does not change.
LEMMA ResetLater ==
  ASSUME NEW view \in Seq(Nat), NEW shorter \in Seq(Nat), NEW ch \in Seq(Events),
         NEW r \in 1..Len(ch), r = 1 => shorter = ch[1].of
  PROVE View(shorter, Tail(ch), r - 1) = View(view, ch, r)
<1>1. Len(Tail(ch)) = Len(ch) - 1 /\ \A i \in 1..(Len(ch) - 1) : Tail(ch)[i] = ch[i + 1]
  BY HeadTailProperties
<1>2. (IF r - 1 = 0 THEN shorter ELSE Tail(ch)[r - 1].of) = ch[r].of
  <2>1. CASE r = 1
    BY <2>1
  <2>2. CASE r # 1
    <3>1. r - 1 \in 1..(Len(ch) - 1) /\ r - 1 + 1 = r
      BY <2>2
    <3> QED
      BY <1>1, <2>2, <3>1
  <2> QED
    BY <2>1, <2>2
<1>3. [i \in 1..(Len(Tail(ch)) - (r - 1)) |-> Tail(ch)[r - 1 + i].of[1]]
      = [i \in 1..(Len(ch) - r) |-> ch[r + i].of[1]]
  <2>1. Len(Tail(ch)) - (r - 1) = Len(ch) - r
    BY <1>1
  <2>2. \A i \in 1..(Len(ch) - r) : r - 1 + i \in 1..(Len(ch) - 1) /\ r - 1 + i + 1 = r + i
    OBVIOUS
  <2>3. \A i \in 1..(Len(ch) - r) : Tail(ch)[r - 1 + i].of[1] = ch[r + i].of[1]
    BY <1>1, <2>2
  <2> QED
    BY <2>1, <2>3
<1>4. View(shorter, Tail(ch), r - 1)
      = (IF r - 1 = 0 THEN shorter ELSE Tail(ch)[r - 1].of)
        \o [i \in 1..(Len(Tail(ch)) - (r - 1)) |-> Tail(ch)[r - 1 + i].of[1]]
  BY Zenon DEF View
<1>5. View(view, ch, r) = ch[r].of \o [i \in 1..(Len(ch) - r) |-> ch[r + i].of[1]]
  <2>1. r # 0
    OBVIOUS
  <2> QED
    BY <2>1, Zenon DEF View
<1> QED
  BY <1>2, <1>3, <1>4, <1>5, Zenon

LEMMA PieceReceived ==
  ASSUME NEW view \in Seq(Nat), NEW ch \in Seq(Events), ch # <<>>, Len(Head(ch).of) = 1
  PROVE View(view \o Head(ch).of, Tail(ch), 0) = View(view, ch, 0)
<1> DEFINE S == Contents(ch)
           n == Len(ch)
           rest == [i \in 1..n |-> ch[i].of[1]]
<1>1. /\ Len(Tail(ch)) = n - 1 /\ Head(ch) = ch[1]
      /\ \A i \in 1..(n - 1) : Tail(ch)[i] = ch[i + 1]
  BY HeadTailProperties
<1>2. rest \in Seq(S) /\ Len(rest) = n /\ rest # <<>>
  <2>1. rest \in [1..n -> S] /\ n \in Nat /\ n > 0
    BY DEF Contents
  <2> HIDE DEF rest, S, n
  <2> QED
    BY <2>1
<1>3. view \in Seq(S)
  <2>1. Nat \subseteq S
    BY DEF Contents
  <2> QED
    BY <2>1
<1>4. Head(rest) = ch[1].of[1]
  BY <1>2
<1>5. Tail(rest) = [i \in 1..(Len(Tail(ch)) - 0) |-> Tail(ch)[0 + i].of[1]]
  <2>1. Tail(rest) = [i \in 1..(n - 1) |-> rest[i + 1]]
    BY <1>2
  <2>2. \A i \in 1..(n - 1) : rest[i + 1] = Tail(ch)[0 + i].of[1]
    BY <1>1
  <2>3. Len(Tail(ch)) - 0 = n - 1
    BY <1>1
  <2> QED
    BY <2>1, <2>2, <2>3
<1>6. view \o Head(ch).of = Append(view, Head(rest))
  <2>1. Head(ch).of \in Seq(Nat)
    <3>1. Head(ch) \in Events
      OBVIOUS
    <3> QED
      BY <3>1 DEF Events
  <2>2. Head(ch).of = <<Head(rest)>> /\ Head(rest) \in Nat
    BY <1>1, <1>4, <2>1
  <2> QED
    BY <2>2, AppendIsConcat
<1>7. Append(view, Head(rest)) \o Tail(rest) = view \o rest
  <2> HIDE DEF rest, S
  <2> QED
    BY <1>2, <1>3, ReadEarlier
<1>8. rest = [i \in 1..(Len(ch) - 0) |-> ch[0 + i].of[1]]
  OBVIOUS
<1> QED
  BY <1>5, <1>6, <1>7, <1>8 DEF View

\* An attempt that is taken back leaves exactly the text of the earlier ones.
LEMMA KeptStep ==
  ASSUME ControlTyped, ToolsTyped, CountsTyped, TextTyped, CallsInPhase, TextKept, [Next]_vars PROVE TextKept'
<1> USE RunAssumption DEF ControlTyped, ToolsTyped, CountsTyped, TextTyped, CallsInPhase, TextKept, detector, stateVars, toolVars, rigVars, futureVars, history
<1>1. CASE Check
  BY <1>1 DEF Check, DropCalls
<1>2. CASE BackoffEnds
  BY <1>2 DEF BackoffEnds
<1>3. CASE GateModel
  <2>1. CASE retries = 0 /\ calls >= MaxTurns
    BY <1>3, <2>1 DEF GateModel, Stop, DropCalls
  <2>2. CASE ~(retries = 0 /\ calls >= MaxTurns)
    <3>1. /\ deltas = <<>> /\ live \o <<>> = live
          /\ at' = "review" /\ phase' = "streaming"
          /\ spoken' = spoken \o saying /\ saying' = <<>>
          /\ UNCHANGED <<live, deltas>> /\ start' = Len(live)
      BY <1>3, <2>2, ConcatEmptySeq DEF GateModel, StartModel
    <3>2. spoken' = live
      BY <1>3, <3>1 DEF GateModel
    <3> QED
      BY <3>1, <3>2, ConcatEmptySeq
  <2> QED
    BY <2>1, <2>2
<1>4. CASE GateTool
  BY <1>4 DEF GateTool, Stop, DropCalls
<1>5. CASE StartTools
  BY <1>5 DEF StartTools
<1>6. CASE ReadDelta
  <2>1. deltas # <<>> => Append(live, Head(deltas)) \o Tail(deltas) = live \o deltas
    BY NaturalsEarlier
  <2>2. live' \o deltas' = live \o deltas
    BY <1>6, <2>1 DEF ReadDelta
  <2> QED
    BY <1>6, <2>2 DEF ReadDelta
<1>7. CASE ReviewRetry
  <2>1. live = spoken \o saying
    BY <1>7, ConcatEmptySeq DEF ReviewRetry
  <2>2. live' = spoken
    BY <1>7, <2>1, FrontOfConcat DEF ReviewRetry
  <2>3. spoken' = spoken /\ saying' = <<>> /\ deltas' = <<>>
    BY <1>7 DEF ReviewRetry
  <2>4. live' \o deltas' = spoken' \o saying'
    BY <2>2, <2>3
  <2> QED
    BY <1>7, <2>3, <2>4 DEF ReviewRetry
<1>8. CASE ReviewEnd
  BY <1>8 DEF ReviewEnd
<1>9. CASE SettleTool
  BY <1>9 DEF SettleTool, Stop, DropCalls
<1>10. CASE NextCall
  BY <1>10 DEF NextCall
<1>11. CASE Look
  <2>1. live \o <<>> = live
    BY ConcatEmptySeq
  <2> QED
    BY <1>11, <2>1 DEF Look
<1>12. CASE WakeUp
  BY <1>12 DEF WakeUp
<1>13. CASE Speak
  <2>1. live \o Append(deltas, requests) = Append(live \o deltas, requests)
    BY NaturalsLater, ZenonT(60)
  <2>2. spoken \o Append(saying, requests) = Append(spoken \o saying, requests)
    BY NaturalsLater
  <2>3. live' \o deltas' = spoken' \o saying'
    <3>1. /\ live' = live /\ spoken' = spoken /\ live \o deltas = spoken \o saying
          /\ deltas' = Append(deltas, requests) /\ saying' = Append(saying, requests)
      BY <1>13 DEF Speak, BetweenUpdates
    <3> QED
      BY <2>1, <2>2, <3>1
  <2>4. at' # "settle" /\ phase' = "streaming" /\ UNCHANGED <<start, kresult>> /\ spoken' = spoken
    BY <1>13 DEF Speak, BetweenUpdates
  <2>5. at' # "over"
    BY <1>13 DEF Speak, BetweenUpdates
  <2> QED
    BY <1>13, <2>3, <2>4, <2>5 DEF Speak
<1>14. CASE Reply
  BY <1>14 DEF Reply
<1>15. CASE ToolEnds
  BY <1>15 DEF ToolEnds
<1>16. CASE Receive
  BY <1>16 DEF Receive
<1>17. CASE Conclude
  BY <1>17 DEF Conclude
<1>18. CASE SetFlag
  BY <1>18 DEF SetFlag
<1>19. CASE WakeKernel
  BY <1>19 DEF WakeKernel, CloseReceiver
<1>20. CASE Abandon
  BY <1>20 DEF Abandon
<1>21. CASE ReviewNothing
  BY <1>21 DEF ReviewNothing
<1>22. CASE UNCHANGED vars
  BY <1>22 DEF vars
<1> QED
  BY <1>1, <1>2, <1>3, <1>4, <1>5, <1>6, <1>7, <1>8, <1>9, <1>10, <1>11, <1>12,
     <1>13, <1>14, <1>15, <1>16, <1>17, <1>18, <1>19, <1>20, <1>21, <1>22
  DEF Next, Kernel, World, Future

\* The kernel sends the text it adds, and the text that is left when it takes some back.
LEMMA SentStep ==
  ASSUME TextTyped, NEW r \in 0..Len(channel), Brings(channel, r, shown, live),
         UNCHANGED shown, future # "gone", ReadDelta \/ ReviewRetry
  PROVE  \E q \in 0..Len(channel') : Brings(channel', q, shown', live')
<1> USE DEF TextTyped
<1>0. /\ r > 0 => channel[r].kind = "reset"
      /\ \A i \in (r + 1)..Len(channel) : channel[i].kind = "text"
  BY Zenon DEF Brings
<1>1. CASE ReadDelta
  <2> DEFINE p == Head(deltas)
  <2>1. p \in Nat /\ channel' = Append(channel, Piece(p)) /\ live' = Append(live, p)
    BY <1>1, SMTT(60) DEF ReadDelta, Emit
  <2> HIDE DEF p
  <2>2. /\ Len(channel') = Len(channel) + 1 /\ channel'[Len(channel) + 1] = Piece(p)
        /\ \A i \in 1..Len(channel) : channel'[i] = channel[i]
    BY <2>1, PieceTyped, AppendProperties
  <2>3. live = View(shown, channel, r)
    BY Zenon DEF Brings, View
  <2>4. View(shown, channel', r) = Append(live, p)
    BY <2>1, <2>3, PieceSent
  <2>5. live' = (IF r = 0 THEN shown' ELSE channel'[r].of)
                  \o [i \in 1..(Len(channel') - r) |-> channel'[r + i].of[1]]
    BY <2>1, <2>4, Zenon DEF View
  <2>6. r > 0 => channel'[r].kind = "reset"
    <3>1. ASSUME r > 0 PROVE channel'[r] = channel[r]
      <4>1. r \in 1..Len(channel)
        BY <3>1
      <4> QED
        BY <2>2, <4>1, Zenon
    <3> QED
      BY <1>0, <3>1
  <2>7. \A i \in (r + 1)..Len(channel') : channel'[i].kind = "text"
    <3>1. Piece(p).kind = "text"
      BY DEF Piece
    <3> SUFFICES ASSUME NEW i \in (r + 1)..Len(channel') PROVE channel'[i].kind = "text"
      OBVIOUS
    <3>2. CASE i <= Len(channel)
      <4>1. i \in 1..Len(channel) /\ i \in (r + 1)..Len(channel)
        BY <3>2
      <4> QED
        BY <1>0, <2>2, <4>1
    <3>3. CASE i > Len(channel)
      <4>0. Len(channel) \in Nat /\ Len(channel') = Len(channel) + 1
        BY <2>2
      <4>1. i > Len(channel) /\ i <= Len(channel) + 1 /\ i \in Nat
        <5>1. i <= Len(channel') /\ i \in Nat
          OBVIOUS
        <5> QED
          BY <3>3, <4>0, <5>1
      <4>2. i = Len(channel) + 1
        BY <4>0, <4>1, OneMore, Zenon
      <4> QED
        BY <2>2, <3>1, <4>2
    <3> QED
      BY <3>2, <3>3
  <2>8. r \in 0..Len(channel')
    BY <2>2
  <2>9. Brings(channel', r, shown', live')
    BY <2>5, <2>6, <2>7, Zenon DEF Brings
  <2> QED
    BY <2>8, <2>9
<1>2. CASE ReviewRetry
  <2> DEFINE q == Len(channel) + 1
  <2>1. live' \in Seq(Nat) /\ channel' = Append(channel, Reset(live'))
    BY <1>2, SMTT(60) DEF ReviewRetry, Emit
  <2>2. Len(channel') = q /\ channel'[q] = Reset(live') /\ q \in Nat /\ q > 0
    BY <2>1, AppendProperties DEF Reset, Events
  <2>3. View(shown, channel', q) = live'
    BY <2>1, ResetSent
  <2>4. Reset(live').kind = "reset"
    BY DEF Reset
  <2>5. live' = (IF q = 0 THEN shown' ELSE channel'[q].of)
                  \o [i \in 1..(Len(channel') - q) |-> channel'[q + i].of[1]]
    BY <2>3, Zenon DEF View
  <2>6. \A i \in (q + 1)..Len(channel') : channel'[i].kind = "text"
    BY <2>2
  <2> HIDE DEF q
  <2>7. Brings(channel', q, shown', live')
    <3>1. q > 0 => channel'[q].kind = "reset"
      BY <2>2, <2>4
    <3> QED
      BY <2>5, <2>6, <3>1, Zenon DEF Brings
  <2>8. q \in 0..Len(channel')
    BY <2>2
  <2> QED
    BY <2>7, <2>8
<1> QED
  BY <1>1, <1>2

\* What is received no longer has to be brought.
LEMMA ReceivedStep ==
  ASSUME TextTyped, NEW r \in 0..Len(channel), Brings(channel, r, shown, live), Receive,
         \A i \in 1..Len(channel) : channel[i].kind = "text" => Len(channel[i].of) = 1
  PROVE  \E q \in 0..Len(channel') : Brings(channel', q, shown', live')
<1> USE DEF TextTyped
<1>1. /\ channel # <<>> /\ channel' = Tail(channel) /\ live' = live
      /\ shown' = Shows(shown, channel[1])
  BY DEF Receive, rigVars, stateVars
<1>2. /\ Len(channel') = Len(channel) - 1 /\ Head(channel) = channel[1] /\ channel[1] \in Events
      /\ \A i \in 1..(Len(channel) - 1) : channel'[i] = channel[i + 1]
  BY <1>1, HeadTailProperties
<1>3. live = View(shown, channel, r)
  BY Zenon DEF Brings, View
<1>0. /\ r > 0 => channel[r].kind = "reset"
      /\ \A i \in (r + 1)..Len(channel) : channel[i].kind = "text"
  BY Zenon DEF Brings
<1>4. CASE r = 0
  <2>1. channel[1].kind = "text" /\ Len(channel[1].of) = 1
    BY <1>0, <1>1, <1>2, <1>4
  <2>2. shown' = shown \o Head(channel).of
    BY <1>1, <1>2, <2>1 DEF Shows
  <2>3. View(shown', channel', 0) = live
    BY <1>1, <1>2, <1>3, <1>4, <2>1, <2>2, PieceReceived
  <2>4. live' = (IF 0 = 0 THEN shown' ELSE channel'[0].of)
                  \o [i \in 1..(Len(channel') - 0) |-> channel'[0 + i].of[1]]
    BY <1>1, <2>3, Zenon DEF View
  <2>5. \A i \in (0 + 1)..Len(channel') : channel'[i].kind = "text"
    <3> SUFFICES ASSUME NEW i \in 1..Len(channel') PROVE channel'[i].kind = "text"
      OBVIOUS
    <3>1. i \in 1..(Len(channel) - 1) /\ i + 1 \in (r + 1)..Len(channel)
      BY <1>2, <1>4
    <3> QED
      BY <1>0, <1>2, <3>1
  <2>6. Brings(channel', 0, shown', live')
    <3>1. ~(0 > 0)
      OBVIOUS
    <3> QED
      BY <2>4, <2>5, <3>1, Zenon DEF Brings
  <2> QED
    BY <1>2, <2>6
<1>5. CASE r # 0
  <2> DEFINE q == r - 1
  <2>1. q \in 0..Len(channel') /\ r \in 1..Len(channel)
    BY <1>2, <1>5
  <2>2. shown' \in Seq(Nat) /\ (r = 1 => shown' = channel[1].of)
    <3>1. shown' \in Seq(Nat)
      BY <1>1, <1>2 DEF Shows, Events
    <3>2. r = 1 => channel[1].kind = "reset"
      BY <1>0, <1>5
    <3> QED
      BY <1>1, <3>1, <3>2 DEF Shows
  <2>3. View(shown', channel', q) = live
    BY <1>1, <1>3, <2>1, <2>2, ResetLater
  <2>4. live' = (IF q = 0 THEN shown' ELSE channel'[q].of)
                  \o [i \in 1..(Len(channel') - q) |-> channel'[q + i].of[1]]
    BY <1>1, <2>3, Zenon DEF View
  <2>5. \A i \in (q + 1)..Len(channel') : channel'[i].kind = "text"
    <3> SUFFICES ASSUME NEW i \in (q + 1)..Len(channel') PROVE channel'[i].kind = "text"
      OBVIOUS
    <3>1. i \in 1..(Len(channel) - 1) /\ i + 1 \in (r + 1)..Len(channel)
      BY <1>2, <2>1, SMTT(60)
    <3> QED
      BY <1>0, <1>2, <3>1
  <2>6. q > 0 => channel'[q].kind = "reset"
    <3>1. q > 0 => q \in 1..(Len(channel) - 1) /\ q + 1 = r
      BY <2>1
    <3>2. q > 0 => channel'[q] = channel[r]
      <4> HIDE DEF q
      <4> QED
        BY <1>2, <3>1
    <3>3. r > 0
      BY <1>5
    <3> QED
      BY <1>0, <3>2, <3>3
  <2> HIDE DEF q
  <2>7. Brings(channel', q, shown', live')
    BY <2>4, <2>5, <2>6, Zenon DEF Brings
  <2> QED
    BY <2>1, <2>7
<1> QED
  BY <1>4, <1>5

LEMMA ShownStep ==
  ASSUME TypeOK, TextKept, TextShown, [Next]_vars PROVE TextShown'
<1> USE RunAssumption DEF TextShown, detector, stateVars, toolVars, rigVars, futureVars, history
<1>1. CASE Check
  BY <1>1 DEF Check, DropCalls
<1>2. CASE BackoffEnds
  BY <1>2 DEF BackoffEnds
<1>3. CASE GateModel
  <2>1. UNCHANGED <<future, outcome, channel, shown, live>> /\ at = "gate"
    BY <1>3 DEF GateModel
  <2> QED
    BY <2>1
<1>4. CASE GateTool
  BY <1>4 DEF GateTool, Stop, DropCalls
<1>5. CASE StartTools
  BY <1>5 DEF StartTools
<1>6. CASE ReadDelta
  <2>1. \A i \in 1..Len(channel') : channel'[i].kind = "text" => Len(channel'[i].of) = 1
    <3>1. /\ channel \in Seq(Events)
          /\ channel' = IF future = "gone" THEN <<>> ELSE Append(channel, Piece(Head(deltas)))
      BY <1>6 DEF ReadDelta, Emit, TypeOK, TextTyped
    <3>2. Piece(Head(deltas)) \in Events /\ Len(Piece(Head(deltas)).of) = 1
      <4>1. Head(deltas) \in Nat
        BY <1>6 DEF ReadDelta, TypeOK, TextTyped
      <4> QED
        BY <4>1, PieceTyped DEF Piece
    <3> QED
      BY <3>1, <3>2, AppendProperties
  <2>2. UNCHANGED <<future, outcome, shown, at, spoken, saying>>
    BY <1>6 DEF ReadDelta
  <2>3. future' # "gone" => \E r \in 0..Len(channel') : Brings(channel', r, shown', live')
    BY <1>6, <2>2, SentStep DEF TypeOK
  <2> QED
    BY <2>1, <2>2, <2>3
<1>7. CASE ReviewRetry
  <2>1. \A i \in 1..Len(channel') : channel'[i].kind = "text" => Len(channel'[i].of) = 1
    <3>1. /\ channel \in Seq(Events) /\ live' \in Seq(Nat)
          /\ channel' = IF future = "gone" THEN <<>> ELSE Append(channel, Reset(live'))
      BY <1>7 DEF ReviewRetry, Emit, TypeOK, TextTyped
    <3>2. Reset(live') \in Events /\ Reset(live').kind = "reset"
      BY <3>1 DEF Reset, Events
    <3> QED
      BY <3>1, <3>2, AppendProperties
  <2>2. UNCHANGED <<future, outcome, shown>> /\ at = "review"
    BY <1>7 DEF ReviewRetry
  <2>3. future' # "gone" => \E r \in 0..Len(channel') : Brings(channel', r, shown', live')
    BY <1>7, <2>2, SentStep DEF TypeOK
  <2> QED
    BY <2>1, <2>2, <2>3
<1>8. CASE ReviewEnd
  BY <1>8 DEF ReviewEnd
<1>9. CASE SettleTool
  BY <1>9 DEF SettleTool, Stop, DropCalls
<1>10. CASE NextCall
  BY <1>10 DEF NextCall
<1>11. CASE Look
  BY <1>11 DEF Look
<1>12. CASE WakeUp
  BY <1>12 DEF WakeUp
<1>13. CASE Speak
  <2>1. UNCHANGED <<future, outcome, channel, shown, live>> /\ at # "over"
    BY <1>13 DEF Speak, BetweenUpdates
  <2> QED
    BY <2>1
<1>14. CASE Reply
  BY <1>14 DEF Reply
<1>15. CASE ToolEnds
  BY <1>15 DEF ToolEnds
<1>16. CASE Receive
  <2>1. \A i \in 1..Len(channel') : channel'[i].kind = "text" => Len(channel'[i].of) = 1
    <3>1. /\ channel \in Seq(Events) /\ channel # <<>> /\ channel' = Tail(channel)
      BY <1>16 DEF Receive, TypeOK, TextTyped
    <3> QED
      BY <3>1, HeadTailProperties
  <2>2. UNCHANGED <<future, outcome>> /\ future = "running"
    BY <1>16 DEF Receive
  <2>3. \E r \in 0..Len(channel') : Brings(channel', r, shown', live')
    BY <1>16, <2>2, ReceivedStep DEF TypeOK
  <2> QED
    BY <2>1, <2>2, <2>3
<1>17. CASE Conclude
  <2>1. /\ future = "running" /\ channel = <<>> /\ at = "over" /\ outcome' = kresult
        /\ future' = "gone" /\ UNCHANGED <<at, channel, shown, live, spoken, saying>>
    BY <1>17 DEF Conclude
  <2>2. PICK r \in 0..Len(channel) : Brings(channel, r, shown, live)
    BY <2>1
  <2>3. r = 0
    BY <2>1
  <2>4. live = shown \o [i \in 1..(Len(channel) - 0) |-> channel[0 + i].of[1]]
    BY <2>2, <2>3, Zenon DEF Brings
  <2>5. [i \in 1..(Len(channel) - 0) |-> channel[0 + i].of[1]] = <<>>
    BY <2>1
  <2>6. live = shown
    <3>1. shown \o <<>> = shown
      BY ConcatEmptySeq DEF TypeOK, TextTyped
    <3> QED
      BY <2>4, <2>5, <3>1
  <2>7. outcome' = "answered" => live = spoken \o saying
    BY <2>1 DEF TextKept
  <2> QED
    BY <2>1, <2>6, <2>7
<1>18. CASE SetFlag
  BY <1>18 DEF SetFlag
<1>19. CASE WakeKernel
  <2>1. channel' = <<>> /\ future' = "gone" /\ outcome' = "abandoned"
    BY <1>19 DEF WakeKernel, CloseReceiver
  <2>2. \A i \in 1..Len(channel') : channel'[i].kind = "text" => Len(channel'[i].of) = 1
    BY <2>1
  <2> QED
    BY <2>1, <2>2
<1>20. CASE Abandon
  BY <1>20 DEF Abandon
<1>21. CASE ReviewNothing
  BY <1>21 DEF ReviewNothing
<1>22. CASE UNCHANGED vars
  BY <1>22 DEF vars
<1> QED
  BY <1>1, <1>2, <1>3, <1>4, <1>5, <1>6, <1>7, <1>8, <1>9, <1>10, <1>11, <1>12,
     <1>13, <1>14, <1>15, <1>16, <1>17, <1>18, <1>19, <1>20, <1>21, <1>22
  DEF Next, Kernel, World, Future

\* Whatever is retried, and whenever the turn receives it, the turn is shown what
\* the model said and nothing twice (read_deltas, review_retries, run).
THEOREM TextReceived == Spec => []TextIsTrue
<1>1. Init => CallsInPhase /\ TextKept /\ TextShown
  <2>1. Init => CallsInPhase
    BY DEF Init, CallsInPhase
  <2>2. Init => TextKept
    BY DEF Init, TextKept
  <2>3. Init => TextShown
    <3> SUFFICES ASSUME Init PROVE TextShown
      OBVIOUS
    <3>1. channel = <<>> /\ shown = <<>> /\ live = <<>> /\ outcome = "none"
      BY DEF Init
    <3>2. [i \in 1..(Len(channel) - 0) |-> channel[0 + i].of[1]] = <<>>
      BY <3>1
    <3>3. Brings(channel, 0, shown, live)
      <4>1. live = shown \o <<>>
        BY <3>1
      <4>2. \A i \in (0 + 1)..Len(channel) : channel[i].kind = "text"
        BY <3>1
      <4>3. ~(0 > 0)
        OBVIOUS
      <4> QED
        BY <3>2, <4>1, <4>2, <4>3, Zenon DEF Brings
    <3>4. 0 \in 0..Len(channel)
      BY <3>1
    <3> QED
      BY <3>1, <3>3, <3>4 DEF TextShown
  <2> QED
    BY <2>1, <2>2, <2>3
<1>2. TypeOK /\ CallsInPhase /\ TextKept /\ TextShown /\ [Next]_vars
      => (CallsInPhase /\ TextKept /\ TextShown)'
  BY PhaseStep, KeptStep, ShownStep DEF TypeOK
<1>3. TextKept /\ TextShown => TextIsTrue
  BY DEF TextKept, TextShown, TextIsTrue
<1> QED
  BY <1>1, <1>2, <1>3, TypeCorrect, PTL DEF Spec
-----------------------------------------------------------------------------
(* The loop guard *)

\* Of the calls of the attempt so far, the detector knows the last and how often it
\* was made in a row, and that is less than the guard allows, unless it has stopped the run.
CallsTracked ==
  LET made == ran \o gated
      n == Len(made)
  IN /\ ~InARow(made, LoopStop)
     /\ stopped = "none" =>
          /\ repeats < LoopStop /\ repeats <= n
          /\ n > 0 => repeats > 0
          /\ \A i \in 0..(repeats - 1) : made[n - i] = last
          /\ repeats < n => made[n - repeats] # last

\* The same of the results, of which a success interrupts the row.
FailuresTracked ==
  LET n == Len(got)
  IN /\ n <= LoopStop
     /\ stopped = "failures" => FailedInARow
     /\ stopped # "failures" =>
          /\ streak < LoopStop /\ streak <= n
          /\ why \in Reasons <=> streak > 0
          /\ n > 0 /\ why \notin Reasons => got[n] \notin Reasons
          /\ \A i \in 0..(streak - 1) : got[n - i] = why
          /\ streak > 0 /\ streak < n => got[n - streak] # why

IInvLoops == CallsTracked /\ FailuresTracked

\* Only these steps make, drop or settle tool calls, or stop a run.
LEMMA GuardedSteps ==
  ASSUME [Next]_vars, ~Check, ~GateModel, ~GateTool, ~StartTools, ~SettleTool
  PROVE  UNCHANGED <<ran, gated, got, detector, stopped>>
<1> USE DEF detector, stateVars, toolVars, rigVars, futureVars, history
<1>1. CASE BackoffEnds \/ ReadDelta \/ ReviewNothing \/ ReviewRetry \/ ReviewEnd
  BY <1>1 DEF BackoffEnds, ReadDelta, ReviewNothing, ReviewRetry, ReviewEnd
<1>2. CASE NextCall \/ Look \/ WakeUp
  BY <1>2 DEF NextCall, Look, WakeUp
<1>3. CASE World
  BY <1>3 DEF World, Speak, Reply, ToolEnds
<1>4. CASE Future \/ Abandon
  BY <1>4 DEF Future, Receive, Conclude, SetFlag, WakeKernel, CloseReceiver, Abandon
<1>5. CASE UNCHANGED vars
  BY <1>5 DEF vars
<1> QED
  BY <1>1, <1>2, <1>3, <1>4, <1>5 DEF Next, Kernel

\* A row in the front of a sequence is a row in the sequence.
LEMMA RowInFront ==
  ASSUME NEW S, NEW s \in Seq(S), NEW t \in Seq(S), NEW n \in Nat, ~InARow(s \o t, n)
  PROVE  ~InARow(s, n)
<1> SUFFICES ASSUME InARow(s, n) PROVE FALSE
  OBVIOUS
<1>1. PICK i \in 0..(Len(s) - n) : \A k \in 1..n : s[i + k] = s[i + 1]
  BY DEF InARow
<1>2. Len(s \o t) = Len(s) + Len(t) /\ \A j \in 1..Len(s) : (s \o t)[j] = s[j]
  OBVIOUS
<1>3. i \in 0..(Len(s \o t) - n)
  BY <1>2
<1>4. \A k \in 1..n : (s \o t)[i + k] = (s \o t)[i + 1]
  <2> SUFFICES ASSUME NEW k \in 1..n PROVE (s \o t)[i + k] = (s \o t)[i + 1]
    OBVIOUS
  <2>1. i + k \in 1..Len(s) /\ i + 1 \in 1..Len(s)
    OBVIOUS
  <2> QED
    BY <1>1, <1>2, <2>1
<1> QED
  BY <1>3, <1>4 DEF InARow

\* One more of what came r times in a row makes a longer row only at the end.
LEMMA RowGrows ==
  ASSUME NEW S, NEW s \in Seq(S), NEW sig \in S, NEW r \in Nat, NEW n \in Nat \ {0},
         ~InARow(s, n), r <= Len(s), r + 1 < n,
         \A i \in 0..(r - 1) : s[Len(s) - i] = sig,
         r < Len(s) => s[Len(s) - r] # sig
  PROVE  ~InARow(Append(s, sig), n)
<1> DEFINE t == Append(s, sig)
<1>1. /\ Len(t) = Len(s) + 1 /\ t[Len(s) + 1] = sig
      /\ \A j \in 1..Len(s) : t[j] = s[j]
  OBVIOUS
<1> SUFFICES ASSUME InARow(t, n) PROVE FALSE
  OBVIOUS
<1> HIDE DEF t
<1>2. PICK i \in 0..(Len(t) - n) : \A k \in 1..n : t[i + k] = t[i + 1]
  BY DEF InARow
<1>3. CASE i + n <= Len(s)
  <2>1. i \in 0..(Len(s) - n)
    BY <1>3
  <2>2. \A k \in 1..n : s[i + k] = s[i + 1]
    <3> SUFFICES ASSUME NEW k \in 1..n PROVE s[i + k] = s[i + 1]
      OBVIOUS
    <3>1. i + k \in 1..Len(s) /\ i + 1 \in 1..Len(s)
      BY <1>3
    <3> QED
      BY <1>1, <1>2, <3>1
  <2> QED
    BY <2>1, <2>2 DEF InARow
<1>4. CASE i + n > Len(s)
  <2>0. i <= Len(t) - n /\ Len(t) = Len(s) + 1
    BY <1>1, <1>2
  <2>1. i + n = Len(s) + 1 /\ n \in 1..n /\ n - r - 1 \in 1..n
    <3>1. i + n = Len(s) + 1
      BY <1>4, <2>0, SMTT(30)
    <3>2. n \in 1..n /\ n - r - 1 \in 1..n
      BY SMTT(30)
    <3> QED
      BY <3>1, <3>2
  <2>2. t[i + 1] = sig
    BY <1>1, <1>2, <2>1
  <2>3. t[i + (n - r - 1)] = sig
    BY <1>2, <2>1, <2>2
  <2>4. i + (n - r - 1) = Len(s) - r /\ Len(s) - r \in 1..Len(s)
    BY <2>1
  <2>5. s[Len(s) - r] = sig
    BY <1>1, <2>3, <2>4
  <2> QED
    BY <2>4, <2>5
<1> QED
  BY <1>3, <1>4

\* Stopping a run drops the calls that wait, and no row comes of it.
LEMMA DroppedTracked ==
  ASSUME ToolsTyped, CallsTracked, stopped' # "none", UNCHANGED ran, gated' = <<>>
  PROVE  CallsTracked'
<1>1. ran' \o gated' = ran
  BY ConcatEmptySeq DEF ToolsTyped
<1>2. ~InARow(ran, LoopStop)
  BY RowInFront, RunAssumption DEF ToolsTyped, CallsTracked
<1> QED
  BY <1>1, <1>2 DEF CallsTracked

LEMMA CallsStep ==
  ASSUME ToolsTyped, CallsInPhase, CallsTracked, [Next]_vars PROVE CallsTracked'
<1> USE RunAssumption
<1>1. CASE Check
  <2>1. gated = <<>> /\ gated' = <<>> /\ UNCHANGED <<ran, last, repeats, stopped>>
    BY <1>1 DEF Check, DropCalls, CallsInPhase, detector, stateVars, toolVars, rigVars, futureVars, history
  <2> QED
    BY <2>1 DEF CallsTracked
<1>2. CASE GateModel
  <2>1. UNCHANGED <<ran, last, repeats>>
    BY <1>2 DEF GateModel, detector, history
  <2>2. CASE Stop("limit")
    BY <2>1, <2>2, DroppedTracked DEF Stop, DropCalls
  <2>3. CASE UNCHANGED <<stopped, toolVars>>
    BY <2>1, <2>3 DEF toolVars, CallsTracked
  <2> QED
    BY <1>2, <2>2, <2>3 DEF GateModel
<1>3. CASE GateTool
  <2> DEFINE sig == Head(asked)
             n == CountAfter(sig)
             made == ran \o gated
  <2>1. /\ sig \in Sigs /\ ran \in Seq(Sigs) /\ gated \in Seq(Sigs)
        /\ made \in Seq(Sigs) /\ repeats \in Nat /\ n \in Nat
    BY <1>3 DEF GateTool, ToolsTyped, CountAfter
  <2>2. UNCHANGED ran /\ last' = sig /\ repeats' = n
    BY <1>3 DEF GateTool, history
  <2>3. CASE Stops(n)
    <3>1. Stop("loop")
      BY <1>3, <2>3 DEF GateTool
    <3> QED
      BY <2>2, <3>1, DroppedTracked DEF Stop, DropCalls
  <2>4. CASE ~Stops(n)
    <3>1. gated' = Append(gated, sig) /\ stopped' = stopped
      BY <1>3, <2>4 DEF GateTool
    <3>2. stopped = "none"
      BY <1>3 DEF GateTool, CallsInPhase
    <3>3. ran' \o gated' = Append(made, sig)
      BY <2>1, <2>2, <3>1, AppendedLater
    <3> HIDE DEF made, sig, n
    <3>4. /\ ~InARow(made, LoopStop) /\ repeats < LoopStop /\ repeats <= Len(made)
          /\ Len(made) > 0 => repeats > 0
          /\ \A i \in 0..(repeats - 1) : made[Len(made) - i] = last
          /\ repeats < Len(made) => made[Len(made) - repeats] # last
      BY <3>2, Zenon DEF CallsTracked, made
    <3>5. n < LoopStop
      BY <2>1, <2>4 DEF Stops
    <3>6. /\ Len(Append(made, sig)) = Len(made) + 1 /\ Append(made, sig)[Len(made) + 1] = sig
          /\ \A i \in 1..Len(made) : Append(made, sig)[i] = made[i]
      BY <2>1
    <3> DEFINE r == IF sig = last THEN repeats ELSE 0
    <3>7. r \in Nat /\ n = r + 1 /\ r <= Len(made)
      BY <2>1, <3>4 DEF CountAfter, n
    <3>8. \A i \in 0..(r - 1) : made[Len(made) - i] = sig
      BY <3>4
    <3>9. r < Len(made) => made[Len(made) - r] # sig
      <4>1. CASE sig = last
        BY <3>4, <4>1
      <4>2. CASE sig # last
        <5> SUFFICES ASSUME 0 < Len(made) PROVE made[Len(made)] # sig
          BY <2>1, <4>2
        <5>1. 0 \in 0..(repeats - 1)
          BY <2>1, <3>4
        <5>2. made[Len(made) - 0] = last
          BY <3>4, <5>1
        <5> QED
          BY <2>1, <4>2, <5>2
      <4> QED
        BY <4>1, <4>2
    <3> HIDE DEF r
    <3>10. ~InARow(Append(made, sig), LoopStop)
      BY <2>1, <3>4, <3>5, <3>7, <3>8, <3>9, RowGrows
    <3>11. \A i \in 0..(n - 1) : Append(made, sig)[(Len(made) + 1) - i] = sig
      <4> SUFFICES ASSUME NEW i \in 0..(n - 1) PROVE Append(made, sig)[(Len(made) + 1) - i] = sig
        OBVIOUS
      <4>1. CASE i = 0
        BY <2>1, <3>6, <4>1
      <4>2. CASE i # 0
        <5>1. i - 1 \in 0..(r - 1) /\ Len(made) - (i - 1) \in 1..Len(made)
              /\ (Len(made) + 1) - i = Len(made) - (i - 1)
          BY <2>1, <3>7, <4>2
        <5> QED
          BY <3>6, <3>8, <5>1
      <4> QED
        BY <4>1, <4>2
    <3>12. n < Len(made) + 1 => Append(made, sig)[(Len(made) + 1) - n] # sig
      <4> SUFFICES ASSUME n < Len(made) + 1 PROVE Append(made, sig)[(Len(made) + 1) - n] # sig
        OBVIOUS
      <4>1. r < Len(made) /\ (Len(made) + 1) - n = Len(made) - r /\ Len(made) - r \in 1..Len(made)
        BY <2>1, <3>7
      <4>2. Append(made, sig)[Len(made) - r] = made[Len(made) - r] /\ made[Len(made) - r] # sig
        BY <3>6, <3>9, <4>1
      <4> QED
        BY <4>1, <4>2, Zenon
    <3>13. n <= Len(made) + 1 /\ n > 0
      BY <2>1, <3>7
    <3> DEFINE M == ran' \o gated'
    <3>14. M = Append(made, sig) /\ Len(M) = Len(made) + 1 /\ repeats' = n /\ last' = sig
      BY <2>2, <3>3, <3>6 DEF sig, n
    <3> HIDE DEF M
    <3>15. ~InARow(M, LoopStop) /\ repeats' < LoopStop /\ repeats' <= Len(M)
      BY <3>5, <3>10, <3>13, <3>14
    <3>16. Len(M) > 0 => repeats' > 0
      BY <3>13, <3>14
    <3>17. \A i \in 0..(repeats' - 1) : M[Len(M) - i] = last'
      <4> SUFFICES ASSUME NEW i \in 0..(repeats' - 1) PROVE M[Len(M) - i] = last'
        OBVIOUS
      <4>1. i \in 0..(n - 1)
        BY <3>14
      <4>2. Append(made, sig)[(Len(made) + 1) - i] = sig
        BY <3>11, <4>1
      <4>3. M[Len(M) - i] = Append(made, sig)[(Len(made) + 1) - i]
        BY <3>14, Zenon
      <4> QED
        BY <3>14, <4>2, <4>3, Zenon
    <3>18. repeats' < Len(M) => M[Len(M) - repeats'] # last'
      <4> SUFFICES ASSUME repeats' < Len(M) PROVE M[Len(M) - repeats'] # last'
        OBVIOUS
      <4>1. Append(made, sig)[(Len(made) + 1) - n] # sig
        BY <3>12, <3>14
      <4>2. M[Len(M) - repeats'] = Append(made, sig)[(Len(made) + 1) - n]
        BY <3>14, Zenon
      <4> QED
        BY <3>14, <4>1, <4>2, Zenon
    <3> QED
      BY <3>15, <3>16, <3>17, <3>18, Zenon DEF CallsTracked, M
  <2> QED
    BY <2>3, <2>4
<1>4. CASE StartTools
  <2>1. ran' = ran \o gated /\ gated' = <<>> /\ UNCHANGED <<last, repeats, stopped>>
    BY <1>4 DEF StartTools, detector, stateVars
  <2>2. ran' \o gated' = ran \o gated
    BY <2>1, ConcatEmptySeq DEF ToolsTyped
  <2> QED
    BY <2>1, <2>2 DEF CallsTracked
<1>5. CASE SettleTool
  <2>1. UNCHANGED <<ran, last, repeats>>
    BY <1>5 DEF SettleTool
  <2>2. CASE Stop("failures")
    BY <2>1, <2>2, DroppedTracked DEF Stop, DropCalls
  <2>3. CASE UNCHANGED <<stopped, gated>>
    BY <2>1, <2>3 DEF CallsTracked
  <2> QED
    BY <1>5, <2>2, <2>3 DEF SettleTool
<1>6. CASE UNCHANGED <<ran, gated, got, detector, stopped>>
  BY <1>6 DEF CallsTracked, detector
<1> QED
  BY <1>1, <1>2, <1>3, <1>4, <1>5, <1>6, GuardedSteps
\* t ends as s does, and with x after it; of t there are LoopStop at most.
EndsIn(t, s, x) ==
  /\ Len(t) = IF Len(s) < LoopStop THEN Len(s) + 1 ELSE LoopStop
  /\ t[Len(t)] = x
  /\ \A i \in 1..(Len(t) - 1) : t[Len(t) - i] = s[Len(s) - (i - 1)]

LEMMA RecentEnds ==
  ASSUME NEW S, NEW s \in Seq(S), NEW x \in S, Len(s) <= LoopStop
  PROVE  EndsIn(Recent(Append(s, x)), s, x)
<1> USE RunAssumption
<1> DEFINE a == Append(s, x)
<1>1. /\ a \in Seq(S) /\ Len(a) = Len(s) + 1 /\ a[Len(s) + 1] = x
      /\ \A j \in 1..Len(s) : a[j] = s[j]
  OBVIOUS
<1> HIDE DEF a
<1>2. CASE Len(s) < LoopStop
  <2>1. Recent(a) = a
    BY <1>1, <1>2 DEF Recent
  <2>2. \A i \in 1..(Len(a) - 1) : a[Len(a) - i] = s[Len(s) - (i - 1)]
    <3> SUFFICES ASSUME NEW i \in 1..(Len(a) - 1) PROVE a[Len(a) - i] = s[Len(s) - (i - 1)]
      OBVIOUS
    <3>1. Len(a) - i = Len(s) - (i - 1) /\ Len(s) - (i - 1) \in 1..Len(s)
      BY <1>1
    <3> QED
      BY <1>1, <3>1
  <2> QED
    BY <1>1, <1>2, <2>1, <2>2 DEF a, EndsIn
<1>3. CASE Len(s) = LoopStop
  <2> DEFINE t == Tail(a)
  <2>1. Recent(a) = t
    BY <1>1, <1>3 DEF Recent
  <2>2. t \in Seq(S) /\ Len(t) = Len(s) /\ \A j \in 1..Len(s) : t[j] = a[j + 1]
    BY <1>1, HeadTailProperties, EmptySeq
  <2> HIDE DEF t
  <2>3. t[Len(t)] = x
    BY <1>1, <1>3, <2>2
  <2>4. \A i \in 1..(Len(t) - 1) : t[Len(t) - i] = s[Len(s) - (i - 1)]
    <3> SUFFICES ASSUME NEW i \in 1..(Len(t) - 1) PROVE t[Len(t) - i] = s[Len(s) - (i - 1)]
      OBVIOUS
    <3>1. /\ Len(t) - i \in 1..Len(s) /\ (Len(t) - i) + 1 = Len(s) - (i - 1)
          /\ Len(s) - (i - 1) \in 1..Len(s)
      BY <2>2
    <3>2. t[Len(t) - i] = a[(Len(t) - i) + 1]
      BY <2>2, <3>1
    <3> QED
      BY <1>1, <3>1, <3>2
  <2> QED
    BY <1>3, <2>1, <2>2, <2>3, <2>4 DEF a, EndsIn
<1> QED
  BY <1>2, <1>3

LEMMA FailuresStep ==
  ASSUME ToolsTyped, CallsInPhase, FailuresTracked, [Next]_vars PROVE FailuresTracked'
<1> USE RunAssumption
<1>1. CASE Check \/ StartTools
  <2>1. UNCHANGED <<got, why, streak, stopped>>
    BY <1>1 DEF Check, StartTools, detector, stateVars, history
  <2> QED
    BY <2>1 DEF FailuresTracked, FailedInARow
<1>2. CASE GateModel
  <2>1. UNCHANGED <<got, why, streak>>
    BY <1>2 DEF GateModel, detector, history
  <2>2. stopped = "none" /\ stopped' \in {"none", "limit"}
    BY <1>2 DEF GateModel, CallsInPhase, Stop
  <2> QED
    BY <2>1, <2>2 DEF FailuresTracked
<1>3. CASE GateTool
  <2>1. UNCHANGED <<got, why, streak>>
    BY <1>3 DEF GateTool, history
  <2>2. stopped = "none" /\ stopped' \in {"none", "loop"}
    BY <1>3 DEF GateTool, CallsInPhase, Stop
  <2> QED
    BY <2>1, <2>2 DEF FailuresTracked
<1>4. CASE SettleTool
  <2>1. PICK result \in Reasons \cup {"none"} :
          /\ got' = Recent(Append(got, result))
          /\ streak' = StreakAfter(result) /\ why' = WhyAfter(result)
          /\ IF result \in Reasons /\ Stops(StreakAfter(result))
             THEN Stop("failures") ELSE UNCHANGED stopped
    BY <1>4 DEF SettleTool
  <2>2. /\ got \in Seq(Reasons \cup {"none"}) /\ streak \in Nat /\ why \in Reasons \cup {"none"}
        /\ "none" \notin Reasons
    BY DEF ToolsTyped
  <2>3. stopped = "none"
    BY <1>4 DEF SettleTool, CallsInPhase, ToolsTyped
  <2> DEFINE n == Len(got)
  <2>4. /\ n <= LoopStop /\ streak < LoopStop /\ streak <= n
        /\ why \in Reasons <=> streak > 0
        /\ n > 0 /\ why \notin Reasons => got[n] \notin Reasons
        /\ \A i \in 0..(streak - 1) : got[n - i] = why
        /\ streak > 0 /\ streak < n => got[n - streak] # why
    BY <2>3, Zenon DEF FailuresTracked
  <2> DEFINE t == got'
             m == Len(t)
  <2>5. /\ m = (IF n < LoopStop THEN n + 1 ELSE LoopStop)
        /\ t[m] = result
        /\ \A i \in 1..(m - 1) : t[m - i] = got[n - (i - 1)]
    <3> DEFINE S == Reasons \cup {"none"}
    <3>1. got \in Seq(S) /\ result \in S /\ Len(got) <= LoopStop
      BY <2>2, <2>4
    <3> HIDE DEF S
    <3>2. EndsIn(Recent(Append(got, result)), got, result)
      BY <3>1, RecentEnds
    <3>3. EndsIn(t, got, result)
      BY <2>1, <3>2
    <3> QED
      BY <3>3 DEF EndsIn
  <2>6. n \in Nat /\ m \in Nat /\ m > 0 /\ m <= LoopStop /\ m <= n + 1
    BY <2>2, <2>4, <2>5
  <2> HIDE DEF n, m, t
  <2>7. CASE result \in Reasons /\ result = why
    <3>1. streak' = streak + 1 /\ why' = why /\ streak > 0
      BY <2>1, <2>4, <2>7 DEF StreakAfter, WhyAfter
    <3>2. streak' <= m /\ streak' <= LoopStop
      BY <2>2, <2>4, <2>5, <3>1, <2>6
    <3>3. \A i \in 0..streak : t[m - i] = why
      <4> SUFFICES ASSUME NEW i \in 0..streak PROVE t[m - i] = why
        OBVIOUS
      <4>1. CASE i = 0
        BY <2>5, <2>6, <2>7, <4>1
      <4>2. CASE i # 0
        <5>1. i \in 1..(m - 1) /\ i - 1 \in 0..(streak - 1)
          BY <2>2, <2>6, <3>1, <3>2, <4>2
        <5> QED
          BY <2>4, <2>5, <5>1
      <4> QED
        BY <4>1, <4>2
    <3>4. CASE Stops(StreakAfter(result))
      <4>1. streak' = LoopStop /\ m = LoopStop /\ stopped' = "failures"
        BY <2>1, <2>2, <2>6, <2>7, <3>1, <3>2, <3>4 DEF Stops, Stop
      <4>2. \A k \in 1..LoopStop : t[k] = why
        <5> SUFFICES ASSUME NEW k \in 1..LoopStop PROVE t[k] = why
          OBVIOUS
        <5>1. LoopStop - k \in 0..streak /\ m - (LoopStop - k) = k
          BY <2>2, <3>1, <4>1
        <5> QED
          BY <3>3, <5>1
      <4>3. FailedInARow'
        BY <2>7, <4>1, <4>2, Zenon DEF FailedInARow, t, m
      <4> QED
        BY <2>6, <4>1, <4>3 DEF FailuresTracked, t, m
    <3>5. CASE ~Stops(StreakAfter(result))
      <4>1. stopped' = stopped /\ streak' < LoopStop
        BY <2>1, <2>2, <3>1, <3>5 DEF Stops
      <4>2. \A i \in 0..(streak' - 1) : t[m - i] = why'
        BY <2>2, <3>1, <3>3
      <4>3. streak' < m => t[m - streak'] # why'
        <5> SUFFICES ASSUME streak' < m PROVE t[m - streak'] # why'
          OBVIOUS
        <5>1. streak' \in 1..(m - 1) /\ streak' - 1 = streak /\ streak < n
          BY <2>2, <2>6, <3>1
        <5>2. t[m - streak'] = got[n - streak]
          BY <2>5, <5>1
        <5> QED
          BY <2>4, <3>1, <5>1, <5>2
      <4>4. streak' > 0 /\ why' \in Reasons
        BY <2>2, <2>7, <3>1
      <4> QED
        BY <2>3, <2>6, <3>2, <4>1, <4>2, <4>3, <4>4, Zenon DEF FailuresTracked, t, m
    <3> QED
      BY <3>4, <3>5
  <2>8. CASE result \in Reasons /\ result # why
    <3>1. streak' = 1 /\ why' = result
      BY <2>1, <2>8 DEF StreakAfter, WhyAfter
    <3>2. CASE Stops(StreakAfter(result))
      <4>1. LoopStop = 1 /\ m = 1 /\ stopped' = "failures"
        BY <2>1, <2>6, <2>8, <3>1, <3>2 DEF Stops, Stop
      <4>2. \A k \in 1..LoopStop : t[k] = result
        BY <2>5, <4>1
      <4>3. FailedInARow'
        BY <2>8, <4>1, <4>2, Zenon DEF FailedInARow, t, m
      <4> QED
        BY <2>6, <4>1, <4>3 DEF FailuresTracked, t, m
    <3>3. CASE ~Stops(StreakAfter(result))
      <4>1. stopped' = stopped /\ streak' < LoopStop /\ streak' <= m
        BY <2>1, <2>6, <3>1, <3>3 DEF Stops
      <4>2. \A i \in 0..(streak' - 1) : t[m - i] = why'
        BY <2>5, <2>6, <3>1
      <4>3. streak' < m => t[m - streak'] # why'
        <5> SUFFICES ASSUME 1 < m PROVE t[m - 1] # result
          BY <3>1
        <5>1. t[m - 1] = got[n] /\ n > 0
          <6>1. 1 \in 1..(m - 1) /\ n - (1 - 1) = n /\ n > 0
            BY <2>6
          <6> QED
            BY <2>5, <6>1
        <5>2. CASE why \in Reasons
          <6>1. 0 \in 0..(streak - 1) /\ n - 0 = n
            BY <2>2, <2>4, <2>6, <5>2
          <6> QED
            BY <2>4, <2>8, <5>1, <6>1
        <5>3. CASE why \notin Reasons
          BY <2>4, <2>8, <5>1, <5>3
        <5> QED
          BY <5>2, <5>3
      <4>4. streak' > 0 /\ why' \in Reasons
        BY <2>8, <3>1
      <4> QED
        BY <2>3, <2>6, <4>1, <4>2, <4>3, <4>4, Zenon DEF FailuresTracked, t, m
    <3> QED
      BY <3>2, <3>3
  <2>9. CASE result \notin Reasons
    <3>1. streak' = 0 /\ why' = "none" /\ stopped' = stopped
      BY <2>1, <2>9 DEF StreakAfter, WhyAfter
    <3>2. \A i \in 0..(streak' - 1) : t[m - i] = why'
      BY <3>1
    <3>3. streak' < LoopStop /\ streak' <= m /\ ~(streak' > 0) /\ why' \notin Reasons
      BY <2>2, <2>6, <3>1
    <3> QED
      BY <2>3, <2>5, <2>6, <2>9, <3>1, <3>2, <3>3, Zenon DEF FailuresTracked, t, m
  <2> QED
    BY <2>7, <2>8, <2>9
<1>5. CASE UNCHANGED <<ran, gated, got, detector, stopped>>
  BY <1>5 DEF FailuresTracked, FailedInARow, detector
<1> QED
  BY <1>1, <1>2, <1>3, <1>4, <1>5, GuardedSteps

\* However the calls of a reply overlap, no call is executed LoopStop times in a row,
\* and a run is stopped for its failures at the LoopStop-th equal one and not before
\* (record_call, record_failure and reset_failure_streak of the loop guard).
THEOREM LoopsAreStopped == Spec => []LoopsStop
<1>1. Init => CallsInPhase /\ IInvLoops
  <2> SUFFICES ASSUME Init PROVE CallsInPhase /\ IInvLoops
    OBVIOUS
  <2>1. /\ ran = <<>> /\ gated = <<>> /\ got = <<>> /\ repeats = 0 /\ streak = 0
        /\ why = "none" /\ stopped = "none"
    BY DEF Init
  <2>2. ran \o gated = <<>> /\ Len(<<>>) = 0
    BY <2>1
  <2>3. ~InARow(<<>>, LoopStop)
    BY <2>2, RunAssumption DEF InARow
  <2>4. CallsTracked
    BY <2>1, <2>2, <2>3, RunAssumption DEF CallsTracked
  <2>5. FailuresTracked
    BY <2>1, <2>2, RunAssumption DEF FailuresTracked
  <2> QED
    BY <2>4, <2>5 DEF Init, CallsInPhase, IInvLoops
<1>2. TypeOK /\ CallsInPhase /\ IInvLoops /\ [Next]_vars => (CallsInPhase /\ IInvLoops)'
  BY PhaseStep, CallsStep, FailuresStep DEF TypeOK, IInvLoops
<1>3. TypeOK /\ IInvLoops => LoopsStop
  <2> SUFFICES ASSUME TypeOK, IInvLoops PROVE LoopsStop
    OBVIOUS
  <2>1. ~InARow(ran, LoopStop)
    BY RowInFront, RunAssumption DEF TypeOK, ToolsTyped, IInvLoops, CallsTracked
  <2>2. ASSUME FailedInARow, stopped # "failures" PROVE FALSE
    <3>1. /\ Len(got) = LoopStop /\ streak \in Nat
          /\ streak < LoopStop /\ (why \in Reasons <=> streak > 0)
          /\ Len(got) > 0 /\ why \notin Reasons => got[Len(got)] \notin Reasons
          /\ \A i \in 0..(streak - 1) : got[Len(got) - i] = why
          /\ streak > 0 /\ streak < Len(got) => got[Len(got) - streak] # why
      BY <2>2 DEF TypeOK, ToolsTyped, IInvLoops, FailuresTracked, FailedInARow
    <3>2. PICK reason \in Reasons : \A k \in 1..LoopStop : got[k] = reason
      BY <2>2 DEF FailedInARow
    <3>3. got[LoopStop] = reason
      BY <3>2, RunAssumption
    <3>4. why \in Reasons
      BY <3>1, <3>3, RunAssumption
    <3>5. 0 \in 0..(streak - 1) /\ LoopStop - 0 = LoopStop /\ LoopStop - streak \in 1..LoopStop
      BY <3>1, <3>4, RunAssumption
    <3>6. got[LoopStop] = why
      BY <3>1, <3>5
    <3>7. got[LoopStop - streak] = reason
      BY <3>2, <3>5
    <3> QED
      BY <3>1, <3>3, <3>4, <3>6, <3>7
  <2> QED
    BY <2>1, <2>2 DEF IInvLoops, FailuresTracked, LoopsStop
<1> QED
  BY <1>1, <1>2, <1>3, TypeCorrect, PTL DEF Spec
-----------------------------------------------------------------------------
(* The contract *)

\* Whoever was shown one text and receives these events has these views in turn, to the
\* other text; what a reset leaves is the front of what was there.
Unfolds(views, ch, from, to) ==
  /\ Len(views) = Len(ch) + 1
  /\ views[1] = from
  /\ views[Len(ch) + 1] = to
  /\ \A i \in 1..Len(ch) :
       /\ views[i + 1] = Shows(views[i], ch[i])
       /\ ch[i].kind = "text" => Len(ch[i].of) = 1
       /\ ch[i].kind = "reset" =>
            \E n \in 0..Len(views[i]) : ch[i].of = SubSeq(views[i], 1, n)

\* What is in the channel brings the turn to what the kernel keeps.
ViewsFollow ==
  future # "gone" => \E views \in Seq(Seq(Nat)) : Unfolds(views, channel, shown, live)

\* The requests fit into the calls that were counted.
RequestsFit ==
  /\ calls = 0 => requests = 0
  /\ calls > 0 => requests <= (calls - 1) * (MaxRetries + 1) + attempts[calls]

\* A run that was abandoned has been cancelled, and the kernel that sent a last request
\* looks at the flag before it sends another.
LateIsLast ==
  /\ future \in {"running", "flag", "wake"} <=> outcome = "none"
  /\ future = "wake" \/ outcome = "abandoned" => flag
  /\ outcome \notin {"none", "abandoned"} => at = "over"
  /\ at = "over" <=> kresult # "none"
  /\ late => /\ outcome = "abandoned" /\ at # "gate"
             /\ at \in {"review", "settle"} => phase = "streaming"

IInvContract == ViewsFollow /\ RequestsFit /\ LateIsLast

\* Only these steps send, receive or read text.
LEMMA QuietSteps ==
  ASSUME [Next]_vars, ~ReadDelta, ~ReviewRetry, ~Receive, ~WakeKernel, ~Conclude
  PROVE  UNCHANGED <<live, channel, shown, outcome>> /\ (future' = "gone" <=> future = "gone")
<1> USE DEF detector, stateVars, toolVars, rigVars, futureVars, history
<1>1. CASE Check \/ BackoffEnds \/ GateModel
  BY <1>1 DEF Check, BackoffEnds, GateModel
<1>2. CASE GateTool \/ StartTools
  BY <1>2 DEF GateTool, StartTools
<1>3. CASE ReviewNothing \/ ReviewEnd \/ SettleTool
  BY <1>3 DEF ReviewNothing, ReviewEnd, SettleTool
<1>4. CASE NextCall \/ Look \/ WakeUp
  BY <1>4 DEF NextCall, Look, WakeUp
<1>5. CASE World
  BY <1>5 DEF World, Speak, Reply, ToolEnds
<1>6. CASE SetFlag \/ Abandon
  BY <1>6 DEF SetFlag, Abandon
<1>7. CASE UNCHANGED vars
  BY <1>7 DEF vars
<1> QED
  BY <1>1, <1>2, <1>3, <1>4, <1>5, <1>6, <1>7 DEF Next, Kernel, Future

\* Only a model call that passes the gate sends a request.
LEMMA UnaskedSteps ==
  ASSUME [Next]_vars, ~GateModel
  PROVE  UNCHANGED <<calls, attempts, requests, late>>
<1> USE DEF detector, stateVars, toolVars, rigVars, futureVars, history
<1>1. CASE Check \/ BackoffEnds
  BY <1>1 DEF Check, BackoffEnds
<1>2. CASE GateTool \/ StartTools
  BY <1>2 DEF GateTool, StartTools
<1>3. CASE ReadDelta \/ ReviewNothing \/ ReviewRetry \/ ReviewEnd \/ SettleTool
  BY <1>3 DEF ReadDelta, ReviewNothing, ReviewRetry, ReviewEnd, SettleTool
<1>4. CASE NextCall \/ Look \/ WakeUp
  BY <1>4 DEF NextCall, Look, WakeUp
<1>5. CASE World
  BY <1>5 DEF World, Speak, Reply, ToolEnds
<1>6. CASE Future \/ Abandon
  BY <1>6 DEF Future, Receive, Conclude, SetFlag, WakeKernel, CloseReceiver, Abandon
<1>7. CASE UNCHANGED vars
  BY <1>7 DEF vars
<1> QED
  BY <1>1, <1>2, <1>3, <1>4, <1>5, <1>6, <1>7 DEF Next, Kernel

\* The kernel sends an event and has what it says in hand.
LEMMA UnfoldsLonger ==
  ASSUME NEW ch \in Seq(Events), NEW from, NEW to \in Seq(Nat), NEW e \in Events,
         NEW views \in Seq(Seq(Nat)), Unfolds(views, ch, from, to),
         e.kind = "text" => Len(e.of) = 1,
         e.kind = "reset" => \E n \in 0..Len(to) : e.of = SubSeq(to, 1, n)
  PROVE  \E longer \in Seq(Seq(Nat)) : Unfolds(longer, Append(ch, e), from, Shows(to, e))
<1> DEFINE c == Len(ch)
           after == Append(ch, e)
           longer == Append(views, Shows(to, e))
<1>1. c \in Nat /\ Shows(to, e) \in Seq(Nat)
  BY DEF Shows, Events
<1>2. /\ Len(views) = c + 1 /\ views[1] = from /\ views[c + 1] = to
      /\ \A i \in 1..c : /\ views[i + 1] = Shows(views[i], ch[i])
                         /\ ch[i].kind = "text" => Len(ch[i].of) = 1
                         /\ ch[i].kind = "reset" =>
                              \E n \in 0..Len(views[i]) : ch[i].of = SubSeq(views[i], 1, n)
  BY DEF Unfolds
<1>3. /\ longer \in Seq(Seq(Nat)) /\ Len(longer) = c + 2 /\ longer[c + 2] = Shows(to, e)
      /\ \A i \in 1..(c + 1) : longer[i] = views[i]
  BY <1>1, <1>2
<1>4. /\ Len(after) = c + 1 /\ after[c + 1] = e
      /\ \A i \in 1..c : after[i] = ch[i]
  BY <1>1
<1> HIDE DEF c, longer, after
<1>5. longer[1] = from /\ longer[c + 1] = to
  BY <1>1, <1>2, <1>3
<1>6. ASSUME NEW i \in 1..(c + 1)
      PROVE  /\ longer[i + 1] = Shows(longer[i], after[i])
             /\ after[i].kind = "text" => Len(after[i].of) = 1
             /\ after[i].kind = "reset" =>
                  \E n \in 0..Len(longer[i]) : after[i].of = SubSeq(longer[i], 1, n)
  <2>1. CASE i = c + 1
    <3>1. longer[i + 1] = Shows(to, e) /\ longer[i] = to /\ after[i] = e
      <4>1. i + 1 = c + 2
        BY <1>1, <2>1
      <4> QED
        BY <1>3, <1>4, <1>5, <2>1, <4>1
    <3> QED
      BY <3>1, Zenon
  <2>2. CASE i # c + 1
    <3>1. i \in 1..c /\ i + 1 \in 1..(c + 1)
      BY <1>1, <2>2
    <3>2. longer[i] = views[i] /\ longer[i + 1] = views[i + 1] /\ after[i] = ch[i]
      BY <1>3, <1>4, <3>1
    <3> QED
      BY <1>2, <3>1, <3>2, Zenon
  <2> QED
    BY <2>1, <2>2
<1>7. Len(after) + 1 = c + 2
  BY <1>1, <1>4
<1>8. Unfolds(longer, after, from, Shows(to, e))
  <2>1. Len(longer) = Len(after) + 1 /\ longer[Len(after) + 1] = Shows(to, e)
    BY <1>3, <1>7
  <2>2. \A i \in 1..Len(after) :
          /\ longer[i + 1] = Shows(longer[i], after[i])
          /\ after[i].kind = "text" => Len(after[i].of) = 1
          /\ after[i].kind = "reset" =>
               \E n \in 0..Len(longer[i]) : after[i].of = SubSeq(longer[i], 1, n)
    BY <1>4, <1>6, Zenon
  <2> QED
    BY <1>5, <2>1, <2>2, Zenon DEF Unfolds
<1> QED
  BY <1>3, <1>8 DEF after
\* The turn receives an event, and has one view fewer to come.
LEMMA UnfoldsShorter ==
  ASSUME NEW ch \in Seq(Events), ch # <<>>, NEW from \in Seq(Nat), NEW to,
         NEW views \in Seq(Seq(Nat)), Unfolds(views, ch, from, to)
  PROVE  \E fewer \in Seq(Seq(Nat)) : Unfolds(fewer, Tail(ch), Shows(from, Head(ch)), to)
<1> DEFINE c == Len(ch)
           later == Tail(ch)
           fewer == Tail(views)
<1>1. /\ c \in Nat /\ c > 0 /\ Len(views) = c + 1 /\ views[1] = from /\ views[c + 1] = to
      /\ \A i \in 1..c : /\ views[i + 1] = Shows(views[i], ch[i])
                         /\ ch[i].kind = "text" => Len(ch[i].of) = 1
                         /\ ch[i].kind = "reset" =>
                              \E n \in 0..Len(views[i]) : ch[i].of = SubSeq(views[i], 1, n)
  BY EmptySeq DEF Unfolds
<1>2. /\ fewer \in Seq(Seq(Nat)) /\ Len(fewer) = c
      /\ \A i \in 1..c : fewer[i] = views[i + 1]
  <2>1. views # <<>>
    BY <1>1
  <2> QED
    BY <1>1, <2>1, HeadTailProperties
<1>3. /\ Len(later) = c - 1 /\ Head(ch) = ch[1]
      /\ \A i \in 1..(c - 1) : later[i] = ch[i + 1]
  BY HeadTailProperties
<1> HIDE DEF c, later, fewer
<1>4. fewer[1] = Shows(from, Head(ch)) /\ fewer[c] = to
  <2>1. 1 \in 1..c /\ c \in 1..c
    BY <1>1
  <2> QED
    BY <1>1, <1>2, <1>3, <2>1
<1>5. ASSUME NEW i \in 1..(c - 1)
      PROVE  /\ fewer[i + 1] = Shows(fewer[i], later[i])
             /\ later[i].kind = "text" => Len(later[i].of) = 1
             /\ later[i].kind = "reset" =>
                  \E n \in 0..Len(fewer[i]) : later[i].of = SubSeq(fewer[i], 1, n)
  <2>1. i \in 1..c /\ i + 1 \in 1..c
    BY <1>1
  <2>2. fewer[i] = views[i + 1] /\ fewer[i + 1] = views[(i + 1) + 1] /\ later[i] = ch[i + 1]
    BY <1>2, <1>3, <2>1
  <2> QED
    BY <1>1, <2>1, <2>2, Zenon
<1>6. Len(later) + 1 = c
  BY <1>1, <1>3
<1>7. Unfolds(fewer, later, Shows(from, Head(ch)), to)
  <2>1. Len(fewer) = Len(later) + 1 /\ fewer[Len(later) + 1] = to
    BY <1>2, <1>4, <1>6
  <2>2. \A i \in 1..Len(later) :
          /\ fewer[i + 1] = Shows(fewer[i], later[i])
          /\ later[i].kind = "text" => Len(later[i].of) = 1
          /\ later[i].kind = "reset" =>
               \E n \in 0..Len(fewer[i]) : later[i].of = SubSeq(fewer[i], 1, n)
    BY <1>3, <1>5, Zenon
  <2> QED
    BY <1>4, <2>1, <2>2, Zenon DEF Unfolds
<1> QED
  BY <1>2, <1>7 DEF later

LEMMA ViewsStep ==
  ASSUME TypeOK, LateIsLast, ViewsFollow, [Next]_vars PROVE ViewsFollow'
<1> USE DEF TypeOK, TextTyped
<1>1. CASE ReadDelta
  <2> DEFINE e == Piece(Head(deltas))
  <2>1. Head(deltas) \in Nat
    BY <1>1 DEF ReadDelta
  <2>2. /\ UNCHANGED <<future, shown>> /\ live' = Append(live, Head(deltas))
        /\ future # "gone" => channel' = Append(channel, e)
    BY <1>1 DEF ReadDelta, Emit
  <2>3. e \in Events /\ e.kind = "text" /\ Len(e.of) = 1 /\ Shows(live, e) = Append(live, Head(deltas))
    BY <2>1, PieceTyped DEF Piece, Shows
  <2> HIDE DEF e
  <2> SUFFICES ASSUME future # "gone"
               PROVE  \E longer \in Seq(Seq(Nat)) : Unfolds(longer, Append(channel, e), shown, Shows(live, e))
    BY <2>2, <2>3 DEF ViewsFollow
  <2>4. PICK views \in Seq(Seq(Nat)) : Unfolds(views, channel, shown, live)
    BY DEF ViewsFollow
  <2>5. e.kind # "reset"
    BY <2>3
  <2> QED
    BY <2>3, <2>4, <2>5, UnfoldsLonger
<1>2. CASE ReviewRetry
  <2> DEFINE left == SubSeq(live, 1, start)
             e == Reset(left)
  <2>1. /\ UNCHANGED <<future, shown>> /\ live' = left
        /\ future # "gone" => channel' = Append(channel, e)
    BY <1>2 DEF ReviewRetry, Emit
  <2>2. left \in Seq(Nat) /\ start \in 0..Len(live)
    OBVIOUS
  <2>3. e \in Events /\ e.kind = "reset" /\ e.of = left /\ Shows(live, e) = left
    BY <2>2 DEF Reset, Events, Shows
  <2>4. \E n \in 0..Len(live) : e.of = SubSeq(live, 1, n)
    BY <2>2, <2>3
  <2> HIDE DEF e, left
  <2> SUFFICES ASSUME future # "gone"
               PROVE  \E longer \in Seq(Seq(Nat)) : Unfolds(longer, Append(channel, e), shown, Shows(live, e))
    BY <2>1, <2>3 DEF ViewsFollow
  <2>5. PICK views \in Seq(Seq(Nat)) : Unfolds(views, channel, shown, live)
    BY DEF ViewsFollow
  <2>6. e.kind # "text"
    BY <2>3
  <2> QED
    BY <2>3, <2>4, <2>5, <2>6, UnfoldsLonger
<1>3. CASE Receive
  <2>1. /\ channel # <<>> /\ channel' = Tail(channel) /\ shown' = Shows(shown, Head(channel))
        /\ UNCHANGED <<live, future>> /\ future # "gone"
    BY <1>3 DEF Receive, stateVars
  <2>2. PICK views \in Seq(Seq(Nat)) : Unfolds(views, channel, shown, live)
    BY <2>1 DEF ViewsFollow
  <2>3. \E fewer \in Seq(Seq(Nat)) : Unfolds(fewer, Tail(channel), Shows(shown, Head(channel)), live)
    BY <2>1, <2>2, UnfoldsShorter
  <2> QED
    BY <2>1, <2>3 DEF ViewsFollow
<1>4. CASE WakeKernel \/ Conclude
  BY <1>4 DEF WakeKernel, CloseReceiver, Conclude, ViewsFollow
<1>5. CASE UNCHANGED <<live, channel, shown, outcome>> /\ (future' = "gone" <=> future = "gone")
  BY <1>5 DEF ViewsFollow
<1> QED
  BY <1>1, <1>2, <1>3, <1>4, <1>5, QuietSteps

LEMMA Multiples ==
  ASSUME NEW a \in Nat, NEW b \in Nat, NEW n \in Nat, a < b
  PROVE  a * (n + 1) + (n + 1) <= b * (n + 1) /\ (a + 1) * (n + 1) = a * (n + 1) + (n + 1)
  OBVIOUS

\* A request is made of a counted call, and each of them has room for it.
LEMMA FitStep ==
  ASSUME CountsTyped, CallsInPhase, RequestsCounted, RequestsFit, [Next]_vars
  PROVE  /\ RequestsFit'
         /\ requests' # requests => requests < MaxTurns * (MaxRetries + 1) /\ requests' = requests + 1
<1> USE RunAssumption DEF CountsTyped
<1>1. CASE GateModel
  <2>1. CASE UNCHANGED <<calls, requests, attempts>>
    BY <2>1 DEF RequestsFit
  <2>2. CASE ~(UNCHANGED <<calls, requests, attempts>>)
    <3>1. /\ phase = "ready" /\ ~(retries = 0 /\ calls >= MaxTurns)
          /\ calls' = (IF retries = 0 THEN calls + 1 ELSE calls)
          /\ requests' = requests + 1 /\ attempts' = Counted
      BY <1>1, <2>2 DEF GateModel, StartModel, history
    <3>2. Len(attempts) = calls /\ \A i \in 1..calls : attempts[i] \in 1..(MaxRetries + 1)
      BY DEF RequestsCounted
    <3>3. CASE retries = 0
      <4>1. calls < MaxTurns /\ calls' = calls + 1 /\ attempts' = Append(attempts, 1)
        BY <3>1, <3>3 DEF Counted
      <4>2. attempts'[calls'] = 1
        BY <3>2, <4>1
      <4>3. requests <= calls * (MaxRetries + 1)
        <5>1. CASE calls = 0
          BY <5>1 DEF RequestsFit
        <5>2. CASE calls > 0
          <6>1. /\ requests <= (calls - 1) * (MaxRetries + 1) + attempts[calls]
                /\ attempts[calls] \in 1..(MaxRetries + 1)
            BY <3>2, <5>2 DEF RequestsFit
          <6>2. (calls - 1) * (MaxRetries + 1) + (MaxRetries + 1) = calls * (MaxRetries + 1)
            <7>1. calls - 1 \in Nat /\ (calls - 1) + 1 = calls
              BY <5>2
            <7> QED
              BY <7>1, Multiples
          <6> QED
            BY <5>2, <6>1, <6>2
        <5> QED
          BY <5>1, <5>2
      <4>4. calls * (MaxRetries + 1) + (MaxRetries + 1) <= MaxTurns * (MaxRetries + 1)
        BY <4>1, Multiples
      <4>5. calls' - 1 = calls
        BY <4>1
      <4>6. requests' <= calls * (MaxRetries + 1) + 1
        BY <3>1, <4>3
      <4>7. requests < MaxTurns * (MaxRetries + 1)
        BY <4>3, <4>4
      <4>8. requests' <= (calls' - 1) * (MaxRetries + 1) + attempts'[calls']
        BY <4>2, <4>5, <4>6, Zenon
      <4>9. calls' > 0 /\ calls' # 0
        BY <4>1
      <4> QED
        BY <3>1, <4>7, <4>8, <4>9, Zenon DEF RequestsFit
    <3>4. CASE retries # 0
      <4>1. /\ calls > 0 /\ attempts[calls] = retries /\ calls' = calls
            /\ attempts' = [attempts EXCEPT ![Len(attempts)] = @ + 1]
        BY <3>1, <3>4 DEF RequestsCounted, Counted
      <4>2. attempts'[calls'] = retries + 1
        BY <3>2, <4>1
      <4>3. requests <= (calls - 1) * (MaxRetries + 1) + retries
        BY <4>1 DEF RequestsFit
      <4>4. (calls - 1) * (MaxRetries + 1) + (MaxRetries + 1) <= MaxTurns * (MaxRetries + 1)
        <5>1. calls - 1 \in Nat /\ calls - 1 < MaxTurns
          BY <4>1
        <5> QED
          BY <5>1, Multiples
      <4>5. requests' <= (calls - 1) * (MaxRetries + 1) + (retries + 1)
        BY <3>1, <4>1, <4>3
      <4>6. requests < MaxTurns * (MaxRetries + 1)
        BY <4>1, <4>3, <4>4
      <4> QED
        BY <3>1, <4>1, <4>2, <4>5, <4>6 DEF RequestsFit
    <3> QED
      BY <3>3, <3>4
  <2> QED
    BY <2>1, <2>2
<1>2. CASE UNCHANGED <<calls, attempts, requests, late>>
  BY <1>2 DEF RequestsFit
<1> QED
  BY <1>1, <1>2, UnaskedSteps
LEMMA LateStep ==
  ASSUME TypeOK, CallsInPhase, LateIsLast, [Next]_vars PROVE LateIsLast'
<1> USE RunAssumption DEF TypeOK, ControlTyped, CountsTyped, ToolsTyped, CallsInPhase, Results,
          LateIsLast, detector, stateVars, toolVars, rigVars, futureVars, history
<1>1. CASE Check
  BY <1>1 DEF Check, Cancelled, DropCalls
<1>2. CASE BackoffEnds
  BY <1>2 DEF BackoffEnds
<1>3. CASE GateModel
  <2>1. /\ UNCHANGED <<kresult, future, outcome, flag>> /\ at = "gate" /\ ~late
        /\ at' \in {"gate", "review"}
    BY <1>3 DEF GateModel, StartModel
  <2>2. late' => at' = "review" /\ phase' = "streaming" /\ outcome # "none"
    BY <1>3, <2>1 DEF GateModel, StartModel
  <2> QED
    BY <2>1, <2>2
<1>4. CASE GateTool
  BY <1>4 DEF GateTool, Stop, DropCalls
<1>5. CASE StartTools
  BY <1>5 DEF StartTools
<1>6. CASE ReadDelta
  BY <1>6 DEF ReadDelta
<1>7. CASE ReviewRetry
  BY <1>7 DEF ReviewRetry
<1>8. CASE ReviewEnd
  BY <1>8 DEF ReviewEnd
<1>9. CASE SettleTool
  BY <1>9 DEF SettleTool, Stop, DropCalls
<1>10. CASE NextCall
  BY <1>10 DEF NextCall
<1>11. CASE Look
  BY <1>11 DEF Look
<1>12. CASE WakeUp
  BY <1>12 DEF WakeUp
<1>13. CASE Speak
  BY <1>13 DEF Speak, BetweenUpdates
<1>14. CASE Reply
  BY <1>14 DEF Reply, BetweenUpdates
<1>15. CASE ToolEnds
  BY <1>15 DEF ToolEnds
<1>16. CASE Receive
  BY <1>16 DEF Receive
<1>17. CASE Conclude
  BY <1>17 DEF Conclude
<1>18. CASE SetFlag
  BY <1>18 DEF SetFlag
<1>19. CASE WakeKernel
  BY <1>19 DEF WakeKernel, CloseReceiver
<1>20. CASE Abandon
  BY <1>20 DEF Abandon
<1>21. CASE ReviewNothing
  BY <1>21 DEF ReviewNothing
<1>22. CASE UNCHANGED vars
  BY <1>22 DEF vars
<1> QED
  BY <1>1, <1>2, <1>3, <1>4, <1>5, <1>6, <1>7, <1>8, <1>9, <1>10, <1>11, <1>12,
     <1>13, <1>14, <1>15, <1>16, <1>17, <1>18, <1>19, <1>20, <1>21, <1>22
  DEF Next, Kernel, World, Future

LEMMA ContractHolds == Spec => [](RequestsCounted /\ IInvContract)
<1>1. Init => CallsInPhase /\ RequestsCounted /\ IInvContract
  <2> SUFFICES ASSUME Init PROVE CallsInPhase /\ RequestsCounted /\ IInvContract
    OBVIOUS
  <2>1. Len(<<>>) = 0 /\ <<>> \in Seq(Nat)
    OBVIOUS
  <2>2. CallsInPhase /\ RequestsCounted
    BY <2>1 DEF Init, CallsInPhase, RequestsCounted
  <2>3. RequestsFit /\ LateIsLast
    BY DEF Init, RequestsFit, LateIsLast
  <2>4. ViewsFollow
    <3> DEFINE views == << <<>> >>
    <3>1. views \in Seq(Seq(Nat)) /\ Len(views) = 1 /\ views[1] = <<>>
      BY <2>1
    <3>2. channel = <<>> /\ shown = <<>> /\ live = <<>> /\ Len(channel) = 0
      BY DEF Init
    <3> HIDE DEF views
    <3>3. Unfolds(views, channel, shown, live)
      BY <3>1, <3>2 DEF Unfolds
    <3> QED
      BY <3>1, <3>3 DEF ViewsFollow
  <2> QED
    BY <2>2, <2>3, <2>4 DEF IInvContract
<1>2. TypeOK /\ CallsInPhase /\ RequestsCounted /\ IInvContract /\ [Next]_vars
      => (CallsInPhase /\ RequestsCounted /\ IInvContract)'
  BY PhaseStep, CountedStep, ViewsStep, FitStep, LateStep DEF TypeOK, IInvContract
<1> QED
  BY <1>1, <1>2, TypeCorrect, PTL DEF Spec

\* What the turn receives shows it one thing more or takes back the end of the text.
LEMMA ReceiveShows ==
  ASSUME TypeOK, IInvContract, Receive, [Next]_vars
  PROVE  Contract!Show \/ Contract!TakeBack
<1>1. /\ channel # <<>> /\ channel \in Seq(Events) /\ shown \in Seq(Nat) /\ outcome = "none"
      /\ shown' = Shows(shown, channel[1]) /\ future = "running"
      /\ UNCHANGED <<requests, outcome, late>>
  BY DEF Receive, TypeOK, TextTyped, IInvContract, LateIsLast, history
<1>2. PICK views \in Seq(Seq(Nat)) : Unfolds(views, channel, shown, live)
  BY <1>1 DEF IInvContract, ViewsFollow
<1>3. 1 \in 1..Len(channel) /\ views[1] = shown
  BY <1>1, <1>2, EmptySeq DEF Unfolds
<1> DEFINE e == channel[1]
<1>4. /\ e \in Events /\ (e.kind = "text" => Len(e.of) = 1)
      /\ e.kind = "reset" => \E n \in 0..Len(shown) : e.of = SubSeq(shown, 1, n)
  <2>1. /\ channel[1].kind = "text" => Len(channel[1].of) = 1
        /\ channel[1].kind = "reset" =>
             \E n \in 0..Len(views[1]) : channel[1].of = SubSeq(views[1], 1, n)
    BY <1>2, <1>3, Zenon DEF Unfolds
  <2>2. e \in Events
    BY <1>1, <1>3
  <2> QED
    BY <1>3, <2>1, <2>2, Zenon
<1> HIDE DEF e
<1>5. CASE e.kind = "text"
  <2>1. shown' = shown \o e.of /\ e.of \in Seq(Nat) /\ Len(e.of) = 1
    BY <1>1, <1>4, <1>5 DEF Shows, Events, e
  <2>2. Len(shown') = Len(shown) + 1
    <3>1. Len(shown \o e.of) = Len(shown) + Len(e.of)
      BY <1>1, <2>1, ConcatProperties
    <3> QED
      BY <2>1, <3>1, Zenon
  <2>3. SubSeq(shown', 1, Len(shown)) = shown
    BY <1>1, <2>1, FrontOfConcat
  <2> QED
    BY <1>1, <2>2, <2>3 DEF Contract!Show
<1>6. CASE e.kind = "reset"
  <2>1. shown' = e.of
    BY <1>1, <1>6 DEF Shows, e
  <2>2. PICK n \in 0..Len(shown) : shown' = SubSeq(shown, 1, n)
    BY <1>4, <1>6, <2>1
  <2>3. Len(shown') = n
    BY <1>1, <2>2
  <2>4. Len(shown') <= Len(shown) /\ shown' = SubSeq(shown, 1, Len(shown'))
    BY <1>1, <2>2, <2>3
  <2> QED
    BY <1>1, <2>4 DEF Contract!TakeBack
<1> QED
  BY <1>4, <1>5, <1>6 DEF Events

LEMMA StepsAllowed ==
  ASSUME TypeOK, CallsInPhase, RequestsCounted, IInvContract, [Next]_vars
  PROVE  [Contract!Next]_(Contract!vars)
<1> USE DEF Contract!vars
<1>1. CASE Receive
  BY <1>1, ReceiveShows DEF Contract!Next
<1>2. CASE WakeKernel \/ Conclude
  <2>1. outcome = "none" /\ outcome' \in Contract!Results
    BY <1>2 DEF WakeKernel, CloseReceiver, Conclude, Contract!Results, IInvContract, LateIsLast,
                TypeOK, ControlTyped, Results
  <2>2. UNCHANGED <<shown, requests, late>>
    BY <1>2 DEF WakeKernel, Conclude, history
  <2> QED
    BY <2>1, <2>2 DEF Contract!Next, Contract!End
<1>3. CASE GateModel
  <2>1. UNCHANGED <<shown, outcome>> /\ at = "gate"
    BY <1>3 DEF GateModel, futureVars
  <2>2. CASE UNCHANGED <<requests, late>>
    BY <2>1, <2>2
  <2>3. CASE StartModel
    <3>1. requests' = requests + 1 /\ late' = (late \/ outcome # "none") /\ requests \in Nat
      BY <2>3 DEF StartModel, TypeOK, CountsTyped
    <3>2. requests < MaxTurns * (MaxRetries + 1)
      BY <3>1, FitStep DEF TypeOK, IInvContract
    <3>3. ~late
      BY <2>1 DEF IInvContract, LateIsLast
    <3>4. late' = (outcome # "none")
      BY <3>1, <3>3
    <3> QED
      BY <2>1, <3>1, <3>2, <3>3, <3>4 DEF Contract!Next, Contract!Ask
  <2> QED
    BY <1>3, <2>2, <2>3 DEF GateModel, history
<1>4. ASSUME ~Receive, ~WakeKernel, ~Conclude, ~GateModel PROVE UNCHANGED Contract!vars
  <2>1. UNCHANGED <<requests, late>>
    BY <1>4, UnaskedSteps
  <2>2. CASE ReadDelta \/ ReviewRetry
    BY <2>1, <2>2 DEF ReadDelta, ReviewRetry
  <2>3. CASE UNCHANGED <<live, channel, shown, outcome>>
    BY <2>1, <2>3
  <2> QED
    BY <1>4, <2>2, <2>3, QuietSteps
<1> QED
  BY <1>1, <1>2, <1>3, <1>4

\* A run keeps its contract with the turn that started it: what is shown grows or loses
\* its end, the model is asked MaxTurns * (MaxRetries + 1) times at most, the run ends
\* once and shows nothing afterwards, and one that was abandoned asks once more at most.
THEOREM KeepsContract == Spec => ImplementsContract
<1>1. Init => Contract!Init
  BY DEF Init, Contract!Init
<1>2. Init => CallsInPhase
  BY DEF Init, CallsInPhase
<1>3. TypeOK /\ CallsInPhase /\ [Next]_vars => CallsInPhase'
  BY PhaseStep DEF TypeOK
<1>4. TypeOK /\ CallsInPhase /\ RequestsCounted /\ IInvContract /\ [Next]_vars
      => [Contract!Next]_(Contract!vars)
  BY StepsAllowed
<1> QED
  BY <1>1, <1>2, <1>3, <1>4, TypeCorrect, ContractHolds, PTL DEF Spec, ImplementsContract, Contract!Spec
=============================================================================
