------------------------ MODULE ApprovalBrokerProofs ------------------------
(***************************************************************************)
(* Proofs about the approval broker, for any set of requests, any rule     *)
(* texts and any matching relation.                                        *)
(***************************************************************************)
EXTENDS ApprovalBroker, TLAPS

Events == Outcomes \cup {"requested"}
-----------------------------------------------------------------------------
(* What a task's place says about its events and its outcome. *)

BeforeCard == {"idle", "register", "announce", "blocked"}
CardOpen == {"settle", "wait", "elapsed", "finish", "report", "dropping"}

Stages ==
  \A r \in Requests :
    /\ Len(log[r]) \in 0 .. 2
    /\ pc[r] = "idle" \/ ask[r] \in Asks
    /\ pc[r] \in BeforeCard => Len(log[r]) = 0
    /\ pc[r] \in CardOpen => Len(log[r]) = 1
    /\ pc[r] \in Checking => Len(log[r]) \in 0 .. 1
    /\ pc[r] \in {"granted", "refused"} => Len(log[r]) = 2
    /\ Len(log[r]) > 0 => log[r][1] = "requested"
    /\ pc[r] = "settle" => verdict[r] \in {"AutoApproved", "AutoDenied"}
    /\ pc[r] = "elapsed" => verdict[r] = "TimedOut"
    /\ pc[r] \in {"finish", "report"} => verdict[r] \in Outcomes

\* Only a request that was made has an entry or a sender.
Started ==
  /\ \A r \in pending : pc[r] # "idle"
  /\ \A x \in uiSend : pc[x[1]] # "idle"

IInvType == TypeOK /\ Stages

LEMMA AppendAt ==
  ASSUME NEW S, NEW s \in Seq(S), NEW e \in S
  PROVE  /\ Append(s, e) \in Seq(S)
         /\ Len(Append(s, e)) = Len(s) + 1
         /\ \A i \in 1 .. Len(s) : Append(s, e)[i] = s[i]
         /\ Append(s, e)[Len(s) + 1] = e
  OBVIOUS

LEMMA DenyLength ==
  ASSUME NEW s \in Seq(Events), Len(s) = 1
  PROVE  Len(Append(s, "Denied")) = 2
<1>1. "Denied" \in Events
  BY DEF Events, Outcomes
<1>2. Len(Append(s, "Denied")) = Len(s) + 1
  BY <1>1, AppendAt
<1> QED BY <1>2

USE DEF Events, Outcomes, Decisions, Modes, None, Places, Checking, Final,
        BeforeCard, CardOpen, Approving

LEMMA TwoEvents ==
  ASSUME NEW s \in Seq(Events), Len(s) = 0, NEW d \in Events, NEW e \in Events
  PROVE  /\ Append(Append(s, d), e) \in Seq(Events)
         /\ Len(Append(Append(s, d), e)) = 2
         /\ Append(Append(s, d), e)[1] = d
         /\ Append(Append(s, d), e)[2] = e
<1>1. Append(s, d) \in Seq(Events) /\ Len(Append(s, d)) = 1 /\ Append(s, d)[1] = d
  OBVIOUS
<1> QED BY <1>1

LEMMA CloseCard ==
  ASSUME NEW s \in Seq(Events), Len(s) = 1, s[1] = "requested", NEW e \in Events
  PROVE  /\ Append(s, e) \in Seq(Events)
         /\ Len(Append(s, e)) = 2
         /\ Append(s, e)[1] = "requested"
         /\ Append(s, e)[2] = e
  BY AppendAt DEF Events

LEMMA DenyCard ==
  ASSUME NEW s \in Seq(Events), Len(s) = 1, s[1] = "requested"
  PROVE  /\ Append(s, "Denied") \in Seq(Events)
         /\ Len(Append(s, "Denied")) = 2
         /\ Append(s, "Denied")[1] = "requested"
<1>1. "Denied" \in Events
  OBVIOUS
<1> QED BY <1>1, CloseCard

LEMMA AskSubject ==
  ASSUME NEW a \in Asks PROVE a.subject \in Subjects
  BY DEF Asks

\* One pass over the policy: an outcome before registration closes the card at
\* once, one after it goes to the settlement.
LEMMA ConcludeStep ==
  ASSUME IInvType, NEW r \in Requests, NEW o \in {None, "AutoApproved", "AutoDenied"},
         pc[r] \in Checking, Conclude(r, o), ask' = ask
  PROVE  /\ pc' \in [Requests -> Places]
         /\ verdict' \in [Requests -> Outcomes \cup {None}]
         /\ log' \in [Requests -> Seq(Events)]
         /\ Stages'
<1> USE DEF IInvType, TypeOK, Stages
<1>1. CASE Len(log[r]) = 1
  <2> DEFINE p == IF o = None THEN "wait" ELSE "settle"
  <2>1. /\ log' = log
        /\ pc' = [pc EXCEPT ![r] = p]
        /\ verdict' = [verdict EXCEPT ![r] = o]
    BY <1>1 DEF Conclude, Announced, Goto
  <2>2. p \in {"wait", "settle"} /\ (p = "settle" => o # None)
    OBVIOUS
  <2> HIDE DEF p
  <2> QED BY <1>1, <2>1, <2>2
<1>2. CASE Len(log[r]) = 0 /\ o = None
  <2>1. /\ log' = log
        /\ pc' = [pc EXCEPT ![r] = "register"]
        /\ verdict' = verdict
    BY <1>2 DEF Conclude, Announced, Goto
  <2> QED BY <1>2, <2>1
<1>3. CASE Len(log[r]) = 0 /\ o # None
  <2> DEFINE l == Append(Append(log[r], "requested"), o)
  <2>1. l \in Seq(Events) /\ Len(l) = 2 /\ l[1] = "requested"
    BY <1>3, TwoEvents
  <2>2. /\ log' = [log EXCEPT ![r] = l]
        /\ pc' = [pc EXCEPT ![r] = Return(o)]
        /\ verdict' = verdict
    BY <1>3 DEF Conclude, Announced, Goto
  <2>3. Return(o) \in {"granted", "refused"}
    BY DEF Return
  <2> HIDE DEF l
  <2>4. Return(o) \in Places \ (BeforeCard \cup CardOpen \cup Checking)
    BY <2>3 DEF Places, BeforeCard, CardOpen, Checking
  <2>5. /\ pc' \in [Requests -> Places]
        /\ verdict' \in [Requests -> Outcomes \cup {None}]
        /\ log' \in [Requests -> Seq(Events)]
    BY <2>1, <2>2, <2>4
  <2>6. pc'[r] = Return(o) /\ log'[r] = l /\ verdict'[r] = verdict[r]
    BY <2>2
  <2>7. \A q \in Requests \ {r} : pc'[q] = pc[q] /\ log'[q] = log[q] /\ verdict'[q] = verdict[q]
    BY <2>2
  <2>8. Len(log'[r]) = 2 /\ log'[r][1] = "requested"
    BY <2>1, <2>6
  <2>9. Stages'
    <3> SUFFICES ASSUME NEW q \in Requests PROVE Stages!(q)'
      BY Zenon
    <3>1. CASE q = r
      BY <3>1, <2>3, <2>6, <2>8
    <3>2. CASE q # r
      BY <3>2, <2>7
    <3> QED BY <3>1, <3>2
  <2> QED BY <2>5, <2>9
<1> QED BY <1>1, <1>2, <1>3

LEMMA SubmitStep ==
  ASSUME IInvType, NEW r \in Requests, NEW a \in Population, Submit(r, a)
  PROVE  IInvType'
<1> USE DEF IInvType
<1>0. a \in Asks
  BY BrokerAssumption
<1>1. TypeOK'
  BY <1>0 DEF TypeOK, Submit, Goto, uiVars
<1>2. Stages'
  BY <1>0 DEF TypeOK, Stages, Submit, Goto, uiVars
<1> QED BY <1>1, <1>2

\* A step that reads the policy either concludes or moves on to the next read.
LEMMA ReadStep ==
  ASSUME IInvType, NEW r \in Requests,
         ReadDeny(r) \/ ReadMode(r) \/ ReadRejectAuto(r) \/ ReadRejectAsk(r) \/ ReadAllow(r)
  PROVE  IInvType'
<1>1. /\ pc[r] \in Checking
      /\ ask' = ask
      /\ UNCHANGED <<mode, allow, reject, cover, pending, chan, uiOp, uiDecision, uiSend, answer>>
  BY DEF ReadDeny, ReadMode, ReadRejectAuto, ReadRejectAsk, ReadAllow, policyVars, uiVars
<1>2. \/ \E o \in {None, "AutoApproved", "AutoDenied"} : Conclude(r, o)
      \/ \E p \in Checking : Goto(r, p) /\ UNCHANGED <<verdict, log>>
  BY DEF ReadDeny, ReadMode, ReadRejectAuto, ReadRejectAsk, ReadAllow
<1>3. CASE \E o \in {None, "AutoApproved", "AutoDenied"} : Conclude(r, o)
  BY <1>1, <1>3, ConcludeStep DEF IInvType, TypeOK
<1>4. CASE \E p \in Checking : Goto(r, p) /\ UNCHANGED <<verdict, log>>
  <2>1. PICK p \in Checking : Goto(r, p) /\ UNCHANGED <<verdict, log>>
    BY <1>4
  <2> QED BY <1>1, <2>1 DEF IInvType, TypeOK, Stages, Goto
<1> QED BY <1>2, <1>3, <1>4

LEMMA TaskStep ==
  ASSUME IInvType, NEW r \in Requests,
         \/ Register(r) \/ Announce(r) \/ SettleLate(r) \/ Receive(r) \/ Elapse(r)
         \/ CloseReceiver(r) \/ Finish(r) \/ Report(r) \/ DropTask(r) \/ DropGuard(r)
  PROVE  IInvType'
<1> USE DEF IInvType, TypeOK, Stages, Goto, Emit, policyVars, uiVars
<1>1. CASE Register(r)
  BY <1>1 DEF Register
<1>2. CASE Announce(r)
  BY <1>2, SMTT(60) DEF Announce
<1>3. CASE SettleLate(r)
  BY <1>3 DEF SettleLate
<1>4. CASE Receive(r)
  BY <1>4 DEF Receive
<1>5. CASE Elapse(r)
  BY <1>5 DEF Elapse
<1>6. CASE CloseReceiver(r)
  BY <1>6 DEF CloseReceiver
<1>7. CASE Finish(r)
  BY <1>7 DEF Finish
<1>8. CASE Report(r)
  <2>1. Return(verdict[r]) \in {"granted", "refused"}
    BY DEF Return
  <2>2. /\ Append(log[r], verdict[r]) \in Seq(Events)
        /\ Len(Append(log[r], verdict[r])) = 2
        /\ Append(log[r], verdict[r])[1] = "requested"
    <3>1. log[r] \in Seq(Events) /\ Len(log[r]) = 1 /\ log[r][1] = "requested"
          /\ verdict[r] \in Events
      BY <1>8 DEF Report
    <3> QED BY <3>1, CloseCard
  <2> QED BY <1>8, <2>1, <2>2 DEF Report
<1>9. CASE DropTask(r)
  BY <1>9 DEF DropTask
<1>10. CASE DropGuard(r)
  <2>1. CASE r \in pending
    <3>1. /\ Append(log[r], "Denied") \in Seq(Events)
          /\ Len(Append(log[r], "Denied")) = 2
          /\ Append(log[r], "Denied")[1] = "requested"
      <4>1. log[r] \in Seq(Events) /\ Len(log[r]) = 1 /\ log[r][1] = "requested"
        BY <1>10 DEF DropGuard
      <4> QED BY <4>1, DenyCard
    <3> DEFINE l == Append(log[r], "Denied")
    <3>2. /\ log' = [log EXCEPT ![r] = l]
          /\ pc' = [pc EXCEPT ![r] = "dropped"]
          /\ pending' = pending \ {r}
          /\ UNCHANGED <<mode, allow, reject, cover, ask, chan, verdict, uiOp,
                        uiDecision, uiSend, answer>>
      BY <1>10, <2>1 DEF DropGuard
    <3> HIDE DEF l
    <3>3. TypeOK'
      BY <3>1, <3>2 DEF l
    <3>4. Stages'
      BY <1>10, <3>1, <3>2 DEF DropGuard, l
    <3> QED BY <3>3, <3>4
  <2>2. CASE r \notin pending
    BY <1>10, <2>2 DEF DropGuard
  <2> QED BY <2>1, <2>2
<1> QED BY <1>1, <1>2, <1>3, <1>4, <1>5, <1>6, <1>7, <1>8, <1>9, <1>10

LEMMA CoverType ==
  ASSUME TypeOK, NEW rules
  PROVE  CoverAfter(rules) \in [Requests -> {"never", "late", "always", "lost"}]
BY DEF TypeOK, CoverAfter

\* The rules an "always" decision leaves behind are rule texts.
LEMMA ApplyRuleType ==
  ASSUME IInvType, Started, ApplyRule
  PROVE  /\ allow' \in SUBSET Patterns
         /\ reject' \in SUBSET Patterns
         /\ cover' = CoverAfter(reject')
         /\ UNCHANGED <<mode, taskVars, uiSend, answer>>
         /\ uiOp' = "send" /\ uiDecision' = None
<1>1. PICK r \in Requests, o \in Outcomes :
        /\ <<r, o>> \in uiSend
        /\ allow' \in {allow, allow \cup {Exact[ask[r].subject]},
                       allow \cup {Canonical[ask[r].subject], Exact[ask[r].subject]}}
        /\ SetReject(reject) \/ SetReject(RejectPlus(Canonical[ask[r].subject]))
  BY DEF ApplyRule
<1>2. ask[r].subject \in Subjects
  <2>1. pc[r] # "idle"
    BY <1>1 DEF Started
  <2>2. ask[r] \in Asks
    BY <2>1 DEF IInvType, Stages
  <2> QED BY <2>2, AskSubject
<1>3. Canonical[ask[r].subject] \in Patterns /\ Exact[ask[r].subject] \in Patterns
  BY <1>2, BrokerAssumption
<1> QED
  BY <1>1, <1>3, ZenonT(60) DEF IInvType, TypeOK, ApplyRule, SetReject, RejectPlus

\* The main thread moves entries and rules, never a task.
LEMMA UiStep ==
  ASSUME IInvType, Started,
         \/ \E r \in Requests, d \in Decisions : Resolve(r, d)
         \/ UiWork
         \/ \E m \in Modes : SetMode(m)
         \/ \E p \in Patterns : AddAllowRule(p) \/ AddRejectRule(p) \/ RemoveRule(p)
         \/ ClearRules
  PROVE  IInvType' /\ UNCHANGED <<ask, pc, log, verdict>>
<1> USE DEF IInvType, TypeOK
<1>1. ASSUME NEW r \in Requests, NEW d \in Decisions, Resolve(r, d)
      PROVE  IInvType' /\ UNCHANGED <<ask, pc, log, verdict>>
  BY <1>1 DEF Resolve, FromDecision, policyVars, Stages, Announced
<1>2. CASE ApplyRule
  BY <1>2, ApplyRuleType, CoverType DEF taskVars, Stages
<1>3. CASE Sweep
  <2>1. \A a : SweepOutcome(a) \in {None, "AutoApproved", "AutoDenied"}
    BY DEF SweepOutcome
  <2> DEFINE settled == {r \in pending : SweepOutcome(ask[r]) # None}
             sent == {<<r, SweepOutcome(ask[r])>> : r \in settled}
  <2>2. /\ pending' = pending \ settled
        /\ uiSend' = sent
        /\ uiOp' \in {"idle", "send"}
        /\ UNCHANGED <<policyVars, ask, pc, chan, verdict, log, uiDecision, answer>>
    BY <1>3 DEF Sweep
  <2>3. sent \in SUBSET (Requests \X Outcomes)
    BY <2>1
  <2> HIDE DEF sent
  <2> QED BY <2>2, <2>3 DEF policyVars, Stages
<1>4. ASSUME NEW r \in Requests, NEW o \in Outcomes, Send(r, o)
      PROVE  IInvType' /\ UNCHANGED <<ask, pc, log, verdict>>
  BY <1>4 DEF Send, policyVars, Stages
<1>5. ASSUME NEW m \in Modes, SetMode(m)
      PROVE  IInvType' /\ UNCHANGED <<ask, pc, log, verdict>>
  BY <1>5 DEF SetMode, taskVars, Stages
<1>6. ASSUME NEW p \in Patterns, AddAllowRule(p) \/ AddRejectRule(p) \/ RemoveRule(p)
      PROVE  IInvType' /\ UNCHANGED <<ask, pc, log, verdict>>
  BY <1>6, CoverType DEF AddAllowRule, AddRejectRule, RemoveRule, RejectPlus, SetReject,
     taskVars, uiVars, Stages
<1>7. CASE ClearRules
  BY <1>7, CoverType DEF ClearRules, SetReject, taskVars, uiVars, Stages
<1> QED BY <1>1, <1>2, <1>3, <1>4, <1>5, <1>6, <1>7 DEF UiWork
LEMMA StartedStep ==
  ASSUME IInvType, Started, [Next]_vars
  PROVE  Started'
<1> USE DEF IInvType, TypeOK, Started
<1>1. CASE UNCHANGED vars
  BY <1>1 DEF vars, taskVars, uiVars
<1>2. ASSUME NEW r \in Requests, NEW a \in Population, Submit(r, a)
      PROVE  Started'
  BY <1>2 DEF Submit, Goto, uiVars
<1>3. ASSUME NEW r \in Requests, Work(r) \/ DropTask(r)
      PROVE  Started'
  <2>1. /\ \E p \in Places : p # "idle" /\ pc[r] # "idle" /\ pc' = [pc EXCEPT ![r] = p]
        /\ pending' \subseteq pending \cup {r}
        /\ uiSend' = uiSend
    <3> USE DEF Goto, Conclude, uiVars, Return
    <3>1. CASE ReadDeny(r) BY <3>1 DEF ReadDeny
    <3>2. CASE ReadMode(r) BY <3>2 DEF ReadMode
    <3>3. CASE ReadRejectAuto(r) BY <3>3 DEF ReadRejectAuto
    <3>4. CASE ReadRejectAsk(r) BY <3>4 DEF ReadRejectAsk
    <3>5. CASE ReadAllow(r) BY <3>5 DEF ReadAllow
    <3>6. CASE Register(r) BY <3>6 DEF Register
    <3>7. CASE Announce(r) BY <3>7 DEF Announce
    <3>8. CASE SettleLate(r) BY <3>8 DEF SettleLate
    <3>9. CASE Receive(r) BY <3>9 DEF Receive
    <3>10. CASE Elapse(r) BY <3>10 DEF Elapse
    <3>11. CASE CloseReceiver(r) BY <3>11 DEF CloseReceiver
    <3>12. CASE Finish(r) BY <3>12 DEF Finish
    <3>13. CASE Report(r) BY <3>13 DEF Report
    <3>14. CASE DropGuard(r) BY <3>14 DEF DropGuard
    <3>15. CASE DropTask(r) BY <3>15 DEF DropTask
    <3> QED BY <1>3, <3>1, <3>2, <3>3, <3>4, <3>5, <3>6, <3>7, <3>8, <3>9, <3>10,
               <3>11, <3>12, <3>13, <3>14, <3>15 DEF Work
  <2> QED BY <2>1
<1>4. CASE UNCHANGED <<pending, pc, uiSend>>
  BY <1>4
<1>5. ASSUME NEW r \in Requests, NEW d \in Decisions, Resolve(r, d)
      PROVE  Started'
  BY <1>5 DEF Resolve
<1>6. CASE Sweep
  BY <1>6 DEF Sweep
<1>7. ASSUME NEW r \in Requests, NEW o \in Outcomes, Send(r, o)
      PROVE  Started'
  BY <1>7 DEF Send
<1>8. ASSUME NEW m \in Modes, SetMode(m)
      PROVE  Started'
  BY <1>8, <1>4 DEF SetMode, taskVars
<1>9. ASSUME \/ ApplyRule \/ ClearRules
             \/ \E p \in Patterns : AddAllowRule(p) \/ AddRejectRule(p) \/ RemoveRule(p)
      PROVE  Started'
  BY <1>9, <1>4 DEF ApplyRule, ClearRules, AddAllowRule, AddRejectRule, RemoveRule, taskVars, uiVars
<1> QED BY <1>1, <1>2, <1>3, <1>5, <1>6, <1>7, <1>8, <1>9 DEF Next, UiWork

LEMMA TypeStep ==
  ASSUME IInvType, Started, [Next]_vars
  PROVE  IInvType'
<1>1. CASE UNCHANGED vars
  BY <1>1 DEF IInvType, TypeOK, Stages, vars, policyVars, taskVars, uiVars
<1>2. CASE Next
  BY <1>2, SubmitStep, ReadStep, TaskStep, UiStep DEF Next, Work
<1> QED BY <1>1, <1>2

LEMMA TypeInit ==
  ASSUME Init
  PROVE  IInvType /\ Started
BY DEF Init, IInvType, TypeOK, Stages, Started

\* Type correctness of the broker: in particular every event it emits is a card
\* or an outcome, and every outcome comes from the enumeration.
THEOREM TypeCorrect == Spec => []TypeOK
<1>1. Init => IInvType /\ Started
  BY TypeInit
<1>2. IInvType /\ Started /\ [Next]_vars => (IInvType /\ Started)'
  BY TypeStep, StartedStep
<1>3. IInvType => TypeOK
  BY DEF IInvType
<1> QED BY <1>1, <1>2, <1>3, PTL DEF Spec
-----------------------------------------------------------------------------
(* Who holds the sender of each request. *)

Holders == {x[1] : x \in uiSend}

\* An entry belongs to a live task and is still undecided; a sender that left
\* its entry belongs to the main thread alone until it is used.
Owned(r) ==
  /\ r \in pending => Registered(r) /\ chan[r] = None /\ pc[r] \notin {"report"} \cup Final
  /\ ~Registered(r) => chan[r] = None
  /\ Registered(r) /\ Listening(r) => r \in pending \/ r \in Holders \/ chan[r] # None
  /\ r \in Holders => r \notin pending /\ Registered(r) /\ (Listening(r) => chan[r] = None)

Ownership ==
  /\ \A r \in Requests : Owned(r)
  /\ \A x, y \in uiSend : x[1] = y[1] => x = y
  /\ uiOp \in {"idle", "sweep"} => uiSend = {}

IInv == IInvType /\ Started /\ Ownership

\* What one pass over the policy may do to its request.
LEMMA PassMoves ==
  ASSUME IInvType, NEW r \in Requests,
         ReadDeny(r) \/ ReadMode(r) \/ ReadRejectAuto(r) \/ ReadRejectAsk(r) \/ ReadAllow(r)
  PROVE  /\ pc[r] \in Checking
         /\ UNCHANGED <<policyVars, pending, chan, ask, uiVars>>
         /\ \/ /\ Len(log[r]) = 1 /\ log' = log
               /\ \E p \in Checking \cup {"settle", "wait"} : pc' = [pc EXCEPT ![r] = p]
            \/ /\ Len(log[r]) = 0 /\ log' = log
               /\ \E p \in Checking \cup {"register"} : pc' = [pc EXCEPT ![r] = p]
            \/ /\ Len(log[r]) = 0
               /\ \E l \in Seq(Events) : Len(l) = 2 /\ log' = [log EXCEPT ![r] = l]
               /\ \E p \in {"granted", "refused"} : pc' = [pc EXCEPT ![r] = p]
<1>1. /\ pc[r] \in Checking
      /\ UNCHANGED <<policyVars, pending, chan, ask, uiVars>>
  BY DEF ReadDeny, ReadMode, ReadRejectAuto, ReadRejectAsk, ReadAllow
<1>2. \/ \E o \in {None, "AutoApproved", "AutoDenied"} : Conclude(r, o)
      \/ \E p \in Checking : Goto(r, p) /\ UNCHANGED <<verdict, log>>
  BY DEF ReadDeny, ReadMode, ReadRejectAuto, ReadRejectAsk, ReadAllow
<1>3. Len(log[r]) = 0 \/ Len(log[r]) = 1
  BY <1>1 DEF IInvType, Stages
<1>4. CASE \E p \in Checking : Goto(r, p) /\ UNCHANGED <<verdict, log>>
  <2>1. PICK p \in Checking : pc' = [pc EXCEPT ![r] = p]
    BY <1>4 DEF Goto
  <2>2. log' = log
    BY <1>4
  <2> QED BY <1>1, <1>3, <2>1, <2>2
<1>5. ASSUME NEW o \in {None, "AutoApproved", "AutoDenied"}, Conclude(r, o)
      PROVE  \/ /\ Len(log[r]) = 1 /\ log' = log
                /\ \E p \in Checking \cup {"settle", "wait"} : pc' = [pc EXCEPT ![r] = p]
             \/ /\ Len(log[r]) = 0 /\ log' = log
                /\ \E p \in Checking \cup {"register"} : pc' = [pc EXCEPT ![r] = p]
             \/ /\ Len(log[r]) = 0
                /\ \E l \in Seq(Events) : Len(l) = 2 /\ log' = [log EXCEPT ![r] = l]
                /\ \E p \in {"granted", "refused"} : pc' = [pc EXCEPT ![r] = p]
  <2>1. CASE Len(log[r]) = 1
    BY <1>5, <2>1 DEF Conclude, Announced, Goto
  <2>2. CASE Len(log[r]) = 0 /\ o = None
    BY <1>5, <2>2 DEF Conclude, Announced, Goto
  <2>3. CASE Len(log[r]) = 0 /\ o # None
    <3> DEFINE l == Append(Append(log[r], "requested"), o)
    <3>1. l \in Seq(Events) /\ Len(l) = 2
      BY <2>3, TwoEvents DEF IInvType, TypeOK
    <3>2. log' = [log EXCEPT ![r] = l]
      BY <1>5, <2>3 DEF Conclude, Announced
    <3>3. \E p \in {"granted", "refused"} : pc' = [pc EXCEPT ![r] = p]
      BY <1>5, <2>3 DEF Conclude, Announced, Goto, Return
    <3> HIDE DEF l
    <3> QED BY <2>3, <3>1, <3>2, <3>3
  <2> QED BY <1>3, <2>1, <2>2, <2>3
<1> QED BY <1>1, <1>2, <1>4, <1>5

LEMMA OwnedByTask ==
  ASSUME IInv, NEW r \in Requests, Work(r) \/ DropTask(r)
  PROVE  Owned(r)'
<1> USE DEF Goto, Emit, Registered, Announced, Listening, Owned
<1>0. /\ Owned(r)
      /\ pc[r] \in Places /\ pc \in [Requests -> Places]
      /\ chan \in [Requests -> Outcomes \cup {None}]
      /\ log \in [Requests -> Seq(Events)]
      /\ pc[r] \in BeforeCard => Len(log[r]) = 0
      /\ pc[r] \in CardOpen => Len(log[r]) = 1
      /\ pc[r] = "settle" => verdict[r] # None
      /\ verdict[r] \in Outcomes \cup {None}
  BY DEF IInv, IInvType, Ownership, TypeOK, Stages
<1>u. Holders' = Holders
  BY DEF Work, ReadDeny, ReadMode, ReadRejectAuto, ReadRejectAsk, ReadAllow, Register,
     Announce, SettleLate, Receive, Elapse, CloseReceiver, Finish, Report, DropGuard,
     DropTask, uiVars, Holders
<1>1. CASE ReadDeny(r) \/ ReadMode(r) \/ ReadRejectAuto(r) \/ ReadRejectAsk(r) \/ ReadAllow(r)
  <2>1. /\ pc[r] \in Checking
        /\ UNCHANGED <<pending, chan>>
        /\ \/ /\ Len(log[r]) = 1 /\ log' = log
              /\ \E p \in Checking \cup {"settle", "wait"} : pc' = [pc EXCEPT ![r] = p]
           \/ /\ Len(log[r]) = 0 /\ log' = log
              /\ \E p \in Checking \cup {"register"} : pc' = [pc EXCEPT ![r] = p]
           \/ /\ Len(log[r]) = 0
              /\ \E l \in Seq(Events) : Len(l) = 2 /\ log' = [log EXCEPT ![r] = l]
              /\ \E p \in {"granted", "refused"} : pc' = [pc EXCEPT ![r] = p]
    BY <1>1, PassMoves DEF IInv
  <2>2. CASE /\ Len(log[r]) = 1 /\ log' = log
             /\ \E p \in Checking \cup {"settle", "wait"} : pc' = [pc EXCEPT ![r] = p]
    BY <1>0, <1>u, <2>1, <2>2
  <2>3. CASE /\ Len(log[r]) = 0 /\ log' = log
             /\ \E p \in Checking \cup {"register"} : pc' = [pc EXCEPT ![r] = p]
    BY <1>0, <1>u, <2>1, <2>3
  <2>4. CASE /\ Len(log[r]) = 0
             /\ \E l \in Seq(Events) : Len(l) = 2 /\ log' = [log EXCEPT ![r] = l]
             /\ \E p \in {"granted", "refused"} : pc' = [pc EXCEPT ![r] = p]
    <3>1. PICK l \in Seq(Events) : Len(l) = 2 /\ log' = [log EXCEPT ![r] = l]
      BY <2>4
    <3>2. Len(log'[r]) = 2
      BY <1>0, <3>1
    <3>3. pc'[r] \in {"granted", "refused"}
      BY <1>0, <2>4
    <3>4. r \notin pending /\ r \notin Holders
      BY <1>0, <2>1, <2>4
    <3> QED BY <1>u, <2>1, <3>2, <3>3, <3>4
  <2> QED BY <2>1, <2>2, <2>3, <2>4
<1>2. CASE Register(r)
  BY <1>0, <1>u, <1>2 DEF Register
<1>3. CASE Announce(r)
  <2>1. Len(log'[r]) = 1
    BY <1>0, <1>3, AppendAt DEF Announce
  <2> QED BY <1>0, <1>u, <1>3, <2>1 DEF Announce
<1>4. CASE SettleLate(r)
  BY <1>0, <1>u, <1>4 DEF SettleLate
<1>5. CASE Receive(r)
  BY <1>0, <1>u, <1>5 DEF Receive
<1>6. CASE Elapse(r)
  BY <1>0, <1>u, <1>6 DEF Elapse
<1>7. CASE CloseReceiver(r)
  BY <1>0, <1>u, <1>7 DEF CloseReceiver
<1>8. CASE Finish(r)
  BY <1>0, <1>u, <1>8 DEF Finish
<1>9. CASE Report(r)
  <2>1. r \notin pending
    BY <1>0, <1>9 DEF Report
  <2>2. pc'[r] \in {"granted", "refused"} /\ chan' = chan /\ pending' = pending
    BY <1>0, <1>9 DEF Report, Return
  <2>3. Len(log'[r]) > 0
    <3>1. log[r] \in Seq(Events) /\ verdict[r] \in Events
      BY <1>9 DEF Report, IInv, IInvType, TypeOK, Stages
    <3>2. log'[r] = Append(log[r], verdict[r])
      BY <1>0, <1>9 DEF Report
    <3> QED BY <1>0, <1>9, <3>1, <3>2, AppendAt DEF Report
  <2> QED BY <1>0, <1>u, <1>9, <2>1, <2>2, <2>3 DEF Report
<1>10. CASE DropTask(r)
  BY <1>0, <1>u, <1>10 DEF DropTask
<1>11. CASE DropGuard(r)
  <2>1. /\ pending' = pending \ {r} /\ chan' = chan
        /\ pc'[r] = "dropped"
    BY <1>0, <1>11 DEF DropGuard
  <2>2. Len(log'[r]) > 0
    <3>1. log[r] \in Seq(Events) /\ "Denied" \in Events /\ Len(log[r]) = 1
      BY <1>0, <1>11 DEF DropGuard
    <3>2. log'[r] = Append(log[r], "Denied") \/ log' = log
      BY <1>0, <1>11 DEF DropGuard
    <3>3. Len(Append(log[r], "Denied")) = 2
      BY <3>1, DenyLength
    <3> QED BY <3>1, <3>2, <3>3
  <2> QED BY <1>0, <1>u, <1>11, <2>1, <2>2
<1> QED BY <1>1, <1>2, <1>3, <1>4, <1>5, <1>6, <1>7, <1>8, <1>9, <1>10, <1>11 DEF Work

\* A pass over the policy moves its own request and nothing else.
LEMMA PassEffects ==
  ASSUME IInvType, NEW r \in Requests,
         ReadDeny(r) \/ ReadMode(r) \/ ReadRejectAuto(r) \/ ReadRejectAsk(r) \/ ReadAllow(r)
  PROVE  /\ UNCHANGED <<policyVars, pending, chan, ask, uiVars>>
         /\ \E p \in Places : pc' = [pc EXCEPT ![r] = p]
         /\ log' = log \/ \E l \in Seq(Events) : log' = [log EXCEPT ![r] = l]
<1>1. /\ UNCHANGED <<policyVars, pending, chan, ask, uiVars>>
      /\ \/ /\ log' = log
            /\ \E p \in Checking \cup {"settle", "wait"} : pc' = [pc EXCEPT ![r] = p]
         \/ /\ log' = log
            /\ \E p \in Checking \cup {"register"} : pc' = [pc EXCEPT ![r] = p]
         \/ /\ \E l \in Seq(Events) : log' = [log EXCEPT ![r] = l]
            /\ \E p \in {"granted", "refused"} : pc' = [pc EXCEPT ![r] = p]
  BY PassMoves, Zenon
<1>2. /\ Checking \cup {"settle", "wait"} \subseteq Places
      /\ Checking \cup {"register"} \subseteq Places
      /\ {"granted", "refused"} \subseteq Places
  OBVIOUS
<1>3. CASE log' = log /\ \E p \in Checking \cup {"settle", "wait"} : pc' = [pc EXCEPT ![r] = p]
  <2>1. PICK p \in Checking \cup {"settle", "wait"} : pc' = [pc EXCEPT ![r] = p]
    BY <1>3
  <2>2. p \in Places
    BY <2>1, <1>2
  <2> QED BY <1>1, <1>3, <2>1, <2>2
<1>4. CASE log' = log /\ \E p \in Checking \cup {"register"} : pc' = [pc EXCEPT ![r] = p]
  <2>1. PICK p \in Checking \cup {"register"} : pc' = [pc EXCEPT ![r] = p]
    BY <1>4
  <2>2. p \in Places
    BY <2>1, <1>2
  <2> QED BY <1>1, <1>4, <2>1, <2>2
<1>5. CASE /\ \E l \in Seq(Events) : log' = [log EXCEPT ![r] = l]
           /\ \E p \in {"granted", "refused"} : pc' = [pc EXCEPT ![r] = p]
  <2>1. PICK p \in {"granted", "refused"} : pc' = [pc EXCEPT ![r] = p]
    BY <1>5
  <2>2. p \in Places
    BY <2>1, <1>2
  <2> QED BY <1>1, <1>5, <2>1, <2>2
<1> QED BY <1>1, <1>3, <1>4, <1>5

\* A task touches its own entry, channel, place and events only.
LEMMA TaskIsLocal ==
  ASSUME IInv, NEW r \in Requests, Work(r) \/ DropTask(r),
         NEW q \in Requests, q # r
  PROVE  /\ pc'[q] = pc[q] /\ chan'[q] = chan[q] /\ log'[q] = log[q]
         /\ q \in pending' <=> q \in pending
         /\ UNCHANGED <<mode, allow, reject, cover, ask, uiOp, uiSend>>
<1> USE DEF IInv, IInvType, TypeOK, Goto, Emit, Conclude, policyVars, uiVars
<1>1. CASE ReadDeny(r) \/ ReadMode(r) \/ ReadRejectAuto(r) \/ ReadRejectAsk(r) \/ ReadAllow(r)
  <2>1. /\ UNCHANGED <<policyVars, pending, chan, ask, uiVars>>
        /\ \E p \in Places : pc' = [pc EXCEPT ![r] = p]
        /\ log' = log \/ \E l \in Seq(Events) : log' = [log EXCEPT ![r] = l]
    BY <1>1, PassEffects
  <2> QED BY <2>1
<1>2. CASE \/ Register(r) \/ Announce(r) \/ SettleLate(r) \/ Receive(r) \/ Elapse(r)
           \/ CloseReceiver(r)
  BY <1>2 DEF Register, Announce, SettleLate, Receive, Elapse, CloseReceiver
<1>3. CASE Finish(r) \/ Report(r) \/ DropTask(r) \/ DropGuard(r)
  BY <1>3 DEF Finish, Report, DropTask, DropGuard
<1> QED BY <1>1, <1>2, <1>3 DEF Work

LEMMA OwnershipTask ==
  ASSUME IInv, NEW r \in Requests, Work(r) \/ DropTask(r)
  PROVE  Ownership'
<1>1. Owned(r)'
  BY OwnedByTask
<1>2. uiSend' = uiSend /\ uiOp' = uiOp
  BY DEF Work, ReadDeny, ReadMode, ReadRejectAuto, ReadRejectAsk, ReadAllow, Register,
     Announce, SettleLate, Receive, Elapse, CloseReceiver, Finish, Report, DropGuard,
     DropTask, uiVars
<1>3. ASSUME NEW q \in Requests, q # r
      PROVE  Owned(q)'
  BY <1>2, <1>3, TaskIsLocal DEF IInv, Ownership, Owned, Registered, Announced, Listening, Holders
<1> QED BY <1>1, <1>2, <1>3 DEF IInv, Ownership

LEMMA OwnershipSubmit ==
  ASSUME IInv, NEW r \in Requests, NEW a \in Population, Submit(r, a)
  PROVE  Ownership'
BY DEF IInv, IInvType, TypeOK, Stages, Ownership, Owned, Submit, Goto, uiVars, Holders,
   Registered, Announced, Listening

LEMMA OwnershipUi ==
  ASSUME IInv,
         \/ \E r \in Requests, d \in Decisions : Resolve(r, d)
         \/ UiWork
         \/ \E m \in Modes : SetMode(m)
         \/ \E p \in Patterns : AddAllowRule(p) \/ AddRejectRule(p) \/ RemoveRule(p)
         \/ ClearRules
  PROVE  Ownership'
<1> USE DEF IInv, IInvType, TypeOK, Ownership, Owned, Holders, Registered, Announced, Listening
<1>1. ASSUME NEW r \in Requests, NEW d \in Decisions, Resolve(r, d)
      PROVE  Ownership'
  BY <1>1 DEF Resolve, FromDecision, Unused
<1>2. CASE ApplyRule
  BY <1>2 DEF ApplyRule, taskVars
<1>3. CASE Sweep
  <2> DEFINE settled == {r \in pending : SweepOutcome(ask[r]) # None}
             sent == {<<r, SweepOutcome(ask[r])>> : r \in settled}
  <2>1. /\ pending' = pending \ settled
        /\ uiSend' = sent
        /\ uiOp' = IF settled = {} THEN "idle" ELSE "send"
        /\ UNCHANGED <<pc, chan, log>>
    BY <1>3 DEF Sweep
  <2>2. uiSend = {}
    BY <1>3 DEF Sweep
  <2>3. \A r : r \in Holders' <=> r \in settled
    <3>1. \A x \in sent : x[1] \in settled
      OBVIOUS
    <3>2. ASSUME NEW r \in settled
          PROVE  \E x \in sent : x[1] = r
      <4>1. <<r, SweepOutcome(ask[r])>> \in sent
        OBVIOUS
      <4>2. <<r, SweepOutcome(ask[r])>>[1] = r
        OBVIOUS
      <4> HIDE DEF sent
      <4> QED BY <4>1, <4>2
    <3> QED BY <2>1, <3>1, <3>2
  <2>4. ASSUME NEW x \in sent, NEW y \in sent, x[1] = y[1]
        PROVE  x = y
    <3>1. PICK r \in settled : x = <<r, SweepOutcome(ask[r])>>
      OBVIOUS
    <3>2. PICK q \in settled : y = <<q, SweepOutcome(ask[q])>>
      OBVIOUS
    <3>3. r = q
      BY <2>4, <3>1, <3>2
    <3> QED BY <3>1, <3>2, <3>3
  <2>5. uiOp' \in {"idle", "sweep"} => uiSend' = {}
    BY <2>1
  <2>6. settled \subseteq pending
    OBVIOUS
  <2> HIDE DEF settled, sent, Holders
  <2>7. ASSUME NEW r \in Requests
        PROVE  Owned(r)'
    BY <2>1, <2>2, <2>3, <2>6 DEF Holders
  <2> QED BY <2>1, <2>4, <2>5, <2>7
<1>4. ASSUME NEW r \in Requests, NEW o \in Outcomes, Send(r, o)
      PROVE  Ownership'
  <2>1. /\ <<r, o>> \in uiSend
        /\ uiSend' = uiSend \ {<<r, o>>}
        /\ chan' = [chan EXCEPT ![r] = IF Listening(r) THEN o ELSE @]
        /\ uiOp' = IF uiSend' = {} THEN "idle" ELSE "send"
        /\ UNCHANGED <<pending, pc, log>>
    BY <1>4 DEF Send
  <2>2. r \in Holders
    <3>1. <<r, o>>[1] = r
      OBVIOUS
    <3> QED BY <2>1, <3>1
  <2>3. \A q : q \in Holders' <=> q \in Holders /\ q # r
    <3>1. ASSUME NEW x \in uiSend'
          PROVE  x \in uiSend /\ x[1] # r
      <4>1. x \in uiSend /\ x # <<r, o>>
        BY <2>1, <3>1
      <4>2. <<r, o>>[1] = r
        OBVIOUS
      <4> QED BY <2>1, <4>1, <4>2
    <3>2. ASSUME NEW x \in uiSend, x[1] # r
          PROVE  x \in uiSend'
      BY <2>1, <3>2
    <3> QED BY <3>1, <3>2
  <2>4. ASSUME NEW q \in Requests
        PROVE  Owned(q)'
    <3> HIDE DEF Holders
    <3> QED BY <2>1, <2>2, <2>3
  <2> QED BY <2>1, <2>4
<1>5. ASSUME NEW m \in Modes, SetMode(m)
      PROVE  Ownership'
  BY <1>5 DEF SetMode, taskVars, Unused
<1>6. ASSUME NEW p \in Patterns, AddAllowRule(p) \/ AddRejectRule(p) \/ RemoveRule(p)
      PROVE  Ownership'
  BY <1>6 DEF AddAllowRule, AddRejectRule, RemoveRule, taskVars, uiVars
<1>7. CASE ClearRules
  BY <1>7 DEF ClearRules, taskVars, uiVars
<1> QED BY <1>1, <1>2, <1>3, <1>4, <1>5, <1>6, <1>7 DEF UiWork

LEMMA OwnershipStep ==
  ASSUME IInv, [Next]_vars
  PROVE  Ownership'
<1>1. CASE UNCHANGED vars
  BY <1>1 DEF IInv, Ownership, Owned, Registered, Announced, Listening, Holders,
     vars, taskVars, uiVars
<1>2. CASE Next
  BY <1>2, OwnershipTask, OwnershipSubmit, OwnershipUi DEF Next
<1> QED BY <1>1, <1>2

\* The invariant everything else rests on is inductive.
LEMMA Inductive ==
  /\ Init => IInv
  /\ IInv /\ [Next]_vars => IInv'
<1>1. Init => IInv
  BY TypeInit DEF Init, IInv, Ownership, Owned, Holders, Registered, Announced
<1>2. IInv /\ [Next]_vars => IInv'
  BY TypeStep, StartedStep, OwnershipStep DEF IInv
<1> QED BY <1>1, <1>2

LEMMA OwnershipMeaning ==
  ASSUME IInv
  PROVE  EntryOwnership /\ NoLeakedEntry
<1> USE DEF IInv, Ownership, Owned
<1>1. \A r \in Requests : r \in Holders <=> SenderInFlight(r)
  <2>1. ASSUME NEW x \in uiSend
        PROVE  x[2] \in Outcomes /\ x = <<x[1], x[2]>>
    BY DEF IInvType, TypeOK
  <2> QED BY <2>1, ZenonT(60) DEF Holders, SenderInFlight
<1>2. EntryOwnership
  BY <1>1 DEF EntryOwnership
<1>3. NoLeakedEntry
  BY DEF NoLeakedEntry, IInvType, TypeOK
<1> QED BY <1>2, <1>3

\* For any number of requests, at most one of resolve, the mode sweep, the late
\* check and the drop guard decides each, no waiting task is without somebody
\* to wake it, and no cancelled, timed-out or answered one leaves an entry.
THEOREM OwnershipHolds == Spec => []EntriesAreOwned
<1>1. Init => IInv
  BY Inductive
<1>2. IInv /\ [Next]_vars => IInv'
  BY Inductive
<1>3. IInv => EntriesAreOwned
  BY OwnershipMeaning DEF EntriesAreOwned
<1> QED BY <1>1, <1>2, <1>3, PTL DEF Spec
-----------------------------------------------------------------------------
(* What the mode in force means for the requests that wait. *)

\* In Ask mode a registered restricted command is on its way to being denied.
WaitAsk ==
  mode = "Ask" /\ uiOp # "sweep" =>
    \A r \in pending : IsRestricted(ask[r]) => pc[r] \in {"announce", "deny", "settle"}

\* In Auto mode a registered command is on its way to being approved, or a deny
\* rule covers it, or did until it was withdrawn.
WaitAuto ==
  mode = "Auto" /\ uiOp # "sweep" =>
    \A r \in pending :
      IsCommand(ask[r]) =>
        \/ pc[r] \in {"announce", "deny", "mode", "rejectAuto", "settle"}
        \/ Covered(ask[r].subject, reject)
        \/ cover[r] = "lost"

Waits == WaitAsk /\ WaitAuto

\* The task that moves keeps the promise of the mode for its own request.
LEMMA WaitsOfTask ==
  ASSUME IInv, Waits, NEW r \in Requests, Work(r) \/ DropTask(r), r \in pending'
  PROVE  /\ mode = "Ask" /\ uiOp # "sweep" /\ IsRestricted(ask[r])
              => pc'[r] \in {"announce", "deny", "settle"}
         /\ mode = "Auto" /\ uiOp # "sweep" /\ IsCommand(ask[r])
              => \/ pc'[r] \in {"announce", "deny", "mode", "rejectAuto", "settle"}
                 \/ Covered(ask[r].subject, reject)
                 \/ cover[r] = "lost"
<1> USE DEF IInv, IInvType, TypeOK, Stages, Goto, Waits, WaitAsk, WaitAuto
<1>1. r \in pending => Announced(r) \/ pc[r] = "announce"
  BY DEF Ownership, Owned, Registered
<1>2. CASE ReadDeny(r)
  <2>1. pc[r] = "deny" /\ pending' = pending
    BY <1>2 DEF ReadDeny
  <2>2. Announced(r)
    BY <1>1, <2>1
  <2>3. IF IsRestricted(ask[r]) /\ mode # "Auto" THEN pc'[r] = "settle" ELSE pc'[r] = "mode"
    BY <1>2, <2>2 DEF ReadDeny, Conclude
  <2> QED BY <2>1, <2>3
<1>3. CASE ReadMode(r)
  <2>1. pc[r] = "mode" /\ pending' = pending
    BY <1>3 DEF ReadMode
  <2>2. mode = "Auto" /\ IsCommand(ask[r]) => pc'[r] = "rejectAuto"
    BY <1>3 DEF ReadMode, IsCommand
  <2> QED BY <2>1, <2>2
<1>4. CASE ReadRejectAuto(r)
  <2>1. pc[r] = "rejectAuto" /\ pending' = pending
    BY <1>4 DEF ReadRejectAuto
  <2>2. Announced(r)
    BY <1>1, <2>1
  <2>3. Covered(ask[r].subject, reject) \/ pc'[r] = "settle"
    BY <1>4, <2>2 DEF ReadRejectAuto, Conclude, MatchesUserReject
  <2> QED BY <2>1, <2>3
<1>5. CASE ReadRejectAsk(r) \/ ReadAllow(r)
  BY <1>5 DEF ReadRejectAsk, ReadAllow
<1>6. CASE Register(r)
  BY <1>6 DEF Register
<1>7. CASE Announce(r)
  BY <1>7 DEF Announce
<1>8. CASE SettleLate(r) \/ Finish(r) \/ DropGuard(r)
  BY <1>8 DEF SettleLate, Finish, DropGuard
<1>9. CASE Receive(r) \/ Elapse(r) \/ CloseReceiver(r) \/ Report(r) \/ DropTask(r)
  BY <1>9 DEF Receive, Elapse, CloseReceiver, Report, DropTask
<1> QED BY <1>2, <1>3, <1>4, <1>5, <1>6, <1>7, <1>8, <1>9 DEF Work

LEMMA WaitsTask ==
  ASSUME IInv, Waits, NEW r \in Requests, Work(r) \/ DropTask(r)
  PROVE  Waits'
<1>1. UNCHANGED <<mode, reject, cover, ask, uiOp>>
  BY DEF Work, ReadDeny, ReadMode, ReadRejectAuto, ReadRejectAsk, ReadAllow, Register,
     Announce, SettleLate, Receive, Elapse, CloseReceiver, Finish, Report, DropGuard,
     DropTask, uiVars, policyVars
<1>2. pending' \subseteq Requests
  BY TypeStep DEF IInv, IInvType, TypeOK, Next
<1>3. ASSUME NEW q \in pending', q # r
      PROVE  q \in pending /\ pc'[q] = pc[q]
  BY <1>2, <1>3, TaskIsLocal
<1>4. WaitAsk'
  BY <1>1, <1>2, <1>3, WaitsOfTask DEF WaitAsk, Waits
<1>5. WaitAuto'
  BY <1>1, <1>2, <1>3, WaitsOfTask DEF WaitAuto, Waits
<1> QED BY <1>4, <1>5 DEF Waits

LEMMA WaitsSubmit ==
  ASSUME IInv, Waits, NEW r \in Requests, NEW a \in Population, Submit(r, a)
  PROVE  Waits'
<1>1. r \notin pending
  BY DEF IInv, Started, Submit
<1>2. UNCHANGED <<mode, reject, pending, uiOp>>
  BY DEF Submit, uiVars
<1>3. \A q \in pending : ask'[q] = ask[q] /\ pc'[q] = pc[q] /\ cover'[q] = cover[q]
  BY <1>1 DEF Submit, Goto, IInv, IInvType, TypeOK
<1> QED BY <1>2, <1>3 DEF Waits, WaitAsk, WaitAuto

\* Withdrawing a rule is remembered.
LEMMA WithdrawnIsLost ==
  ASSUME IInv, Waits, NEW rules, SetReject(rules), NEW r \in pending
  PROVE  Covered(ask[r].subject, reject) \/ cover[r] = "lost"
           => Covered(ask[r].subject, reject') \/ cover'[r] = "lost"
<1>1. r \in Requests /\ pc[r] \notin {"idle"} \cup Final
  BY DEF IInv, IInvType, TypeOK, Ownership, Owned, Started
<1> QED BY <1>1 DEF SetReject, CoverAfter

LEMMA WaitsUi ==
  ASSUME IInv, Waits,
         \/ \E r \in Requests, d \in Decisions : Resolve(r, d)
         \/ UiWork
         \/ \E m \in Modes : SetMode(m)
         \/ \E p \in Patterns : AddAllowRule(p) \/ AddRejectRule(p) \/ RemoveRule(p)
         \/ ClearRules
  PROVE  Waits'
<1>0. UNCHANGED <<ask, pc>>
  BY UiStep DEF IInv
<1>1. ASSUME NEW r \in Requests, NEW d \in Decisions, Resolve(r, d)
      PROVE  Waits'
  BY <1>0, <1>1 DEF Resolve, policyVars, Unused, Waits, WaitAsk, WaitAuto
<1>2. CASE Sweep
  <2>1. /\ mode = mode' /\ reject = reject' /\ cover = cover'
        /\ \A r \in pending' : r \in pending /\ SweepOutcome(ask[r]) = None
    BY <1>2 DEF Sweep, policyVars
  <2>2. WaitAsk'
    BY <1>0, <2>1 DEF WaitAsk, SweepOutcome
  <2>3. WaitAuto'
    BY <1>0, <2>1 DEF WaitAuto, SweepOutcome, IsRestricted, IsCommand, MatchesUserReject
  <2> QED BY <2>2, <2>3 DEF Waits
<1>3. ASSUME NEW r \in Requests, NEW o \in Outcomes, Send(r, o)
      PROVE  Waits'
  BY <1>0, <1>3 DEF Send, policyVars, Waits, WaitAsk, WaitAuto
<1>4. ASSUME NEW m \in Modes, SetMode(m)
      PROVE  Waits'
  BY <1>4 DEF SetMode, Waits, WaitAsk, WaitAuto
<1>5. ASSUME NEW p \in Patterns, AddAllowRule(p)
      PROVE  Waits'
  BY <1>0, <1>5 DEF AddAllowRule, taskVars, uiVars, Waits, WaitAsk, WaitAuto
<1>6. ASSUME NEW rules, SetReject(rules), mode' = mode, pending' = pending,
             uiOp # "sweep"
      PROVE  Waits'
  BY <1>0, <1>6, WithdrawnIsLost DEF Waits, WaitAsk, WaitAuto
<1>7. CASE ApplyRule
  <2>1. \E rules : SetReject(rules)
    BY <1>7 DEF ApplyRule
  <2>2. mode' = mode /\ pending' = pending /\ uiOp # "sweep"
    BY <1>7 DEF ApplyRule, taskVars
  <2> QED BY <1>6, <2>1, <2>2
<1>8. ASSUME NEW p \in Patterns, AddRejectRule(p) \/ RemoveRule(p)
      PROVE  Waits'
  <2>1. \E rules : SetReject(rules)
    BY <1>8 DEF AddRejectRule, RemoveRule
  <2>2. mode' = mode /\ pending' = pending /\ uiOp # "sweep"
    BY <1>8 DEF AddRejectRule, RemoveRule, taskVars, Unused
  <2> QED BY <1>6, <2>1, <2>2
<1>9. CASE ClearRules
  <2>1. SetReject({}) /\ mode' = mode /\ pending' = pending /\ uiOp # "sweep"
    BY <1>9 DEF ClearRules, taskVars, Unused
  <2> QED BY <1>6, <2>1
<1> QED BY <1>1, <1>2, <1>3, <1>4, <1>5, <1>7, <1>8, <1>9 DEF UiWork

LEMMA WaitsInductive ==
  /\ Init => Waits
  /\ IInv /\ Waits /\ [Next]_vars => Waits'
<1>1. Init => Waits
  BY DEF Init, Waits, WaitAsk, WaitAuto
<1>2. ASSUME IInv, Waits, [Next]_vars
      PROVE  Waits'
  <2>1. CASE UNCHANGED vars
    BY <1>2, <2>1 DEF Waits, WaitAsk, WaitAuto, vars, policyVars, taskVars, uiVars
  <2>2. CASE Next
    BY <1>2, <2>2, WaitsTask, WaitsSubmit, WaitsUi DEF Next
  <2> QED BY <1>2, <2>1, <2>2
<1> QED BY <1>1, <1>2

\* Once a switch to Auto has finished, the only commands left waiting are those
\* a user deny rule covers or covered until it was withdrawn; once a switch to
\* Ask has, no restricted command waits for a click.
THEOREM NothingStranded == Spec => []NothingWaitsInVain
<1>1. Init => IInv /\ Waits
  BY Inductive, WaitsInductive
<1>2. IInv /\ Waits /\ [Next]_vars => (IInv /\ Waits)'
  BY Inductive, WaitsInductive
<1>3. IInv /\ Waits => NoCommandStrandedInAuto
  BY DEF Waits, WaitAuto, NoCommandStrandedInAuto, Unused
<1>4. IInv /\ Waits => NoRestrictedWaitsInAsk
  BY DEF Waits, WaitAsk, NoRestrictedWaitsInAsk, Unused
<1>5. IInv /\ Waits => NothingWaitsInVain
  BY <1>3, <1>4 DEF NothingWaitsInVain
<1> QED BY <1>1, <1>2, <1>5, PTL DEF Spec
-----------------------------------------------------------------------------
(* What an automatic approval has looked at. *)

\* No deny rule has covered the command all along, and it is no external path.
MayApprove(r) ==
  /\ ask[r].kind # "external"
  /\ IsCommand(ask[r]) => cover[r] # "always"

\* The reads of the rules are made for commands, except the read of the allow
\* rules, which an MCP tool makes too; a rule that has covered a request all
\* along still covers it; and an approval that is on its way was permitted.
Vetted(r) ==
  /\ pc[r] = "idle" => verdict[r] = None
  /\ pc[r] \notin {"idle"} \cup Final /\ cover[r] = "always" => Covered(ask[r].subject, reject)
  /\ pc[r] \in {"rejectAuto", "rejectAsk"} => IsCommand(ask[r])
  /\ pc[r] = "allow" => MayApprove(r)
  /\ verdict[r] = "AutoApproved" => MayApprove(r)
  /\ chan[r] = "AutoApproved" => MayApprove(r)
  /\ <<r, "AutoApproved">> \in uiSend => MayApprove(r)
  /\ \A i \in DOMAIN log[r] : log[r][i] = "AutoApproved" => MayApprove(r)

AllVetted == \A r \in Requests : Vetted(r)

\* What a pass over the policy decides, and that it only approves what may be.
LEMMA PassResult ==
  ASSUME IInv, AllVetted, NEW r \in Requests,
         ReadDeny(r) \/ ReadMode(r) \/ ReadRejectAuto(r) \/ ReadRejectAsk(r) \/ ReadAllow(r)
  PROVE  /\ pc[r] \in Checking
         /\ UNCHANGED <<policyVars, pending, chan, ask, uiVars>>
         /\ \/ \E p \in Checking :
                 /\ Goto(r, p) /\ UNCHANGED <<verdict, log>>
                 /\ p \in {"rejectAuto", "rejectAsk"} => IsCommand(ask[r])
                 /\ p = "allow" => MayApprove(r)
            \/ \E o \in {None, "AutoApproved", "AutoDenied"} :
                 /\ Conclude(r, o)
                 /\ o = "AutoApproved" => MayApprove(r)
<1>1. /\ pc[r] \in Checking
      /\ UNCHANGED <<policyVars, pending, chan, ask, uiVars>>
  BY DEF ReadDeny, ReadMode, ReadRejectAuto, ReadRejectAsk, ReadAllow
<1>2. Vetted(r)
  BY DEF AllVetted
<1>3. CASE ReadDeny(r)
  BY <1>1, <1>3 DEF ReadDeny
<1>4. CASE ReadMode(r)
  BY <1>1, <1>4 DEF ReadMode, MayApprove, IsCommand
<1>5. CASE ReadRejectAuto(r)
  <2>1. ~MatchesUserReject(ask[r].subject) => MayApprove(r)
    BY <1>2, <1>5 DEF ReadRejectAuto, Vetted, MayApprove, MatchesUserReject, IsCommand
  <2>2. Conclude(r, IF MatchesUserReject(ask[r].subject) THEN None ELSE "AutoApproved")
    BY <1>5 DEF ReadRejectAuto
  <2> QED BY <1>1, <2>1, <2>2
<1>6. CASE ReadRejectAsk(r)
  <2>1. ~IsCommandRejected(ask[r].subject) => MayApprove(r)
    BY <1>2, <1>6 DEF ReadRejectAsk, Vetted, MayApprove, IsCommandRejected,
       MatchesUserReject, IsCommand
  <2> QED BY <1>1, <1>6, <2>1 DEF ReadRejectAsk
<1>7. CASE ReadAllow(r)
  <2>1. MayApprove(r)
    BY <1>2, <1>7 DEF ReadAllow, Vetted
  <2>2. Conclude(r, IF MatchesAllow(ask[r].subject) THEN "AutoApproved" ELSE None)
    BY <1>7 DEF ReadAllow
  <2> QED BY <1>1, <2>1, <2>2
<1> QED BY <1>3, <1>4, <1>5, <1>6, <1>7

\* The three ways a pass concludes: late, without an outcome, with an outcome.
LEMMA ConcludeCases ==
  ASSUME IInvType, NEW r \in Requests, NEW o \in {None, "AutoApproved", "AutoDenied"},
         pc[r] \in Checking, Conclude(r, o)
  PROVE  \/ /\ Len(log[r]) = 1 /\ log' = log
            /\ verdict' = [verdict EXCEPT ![r] = o]
            /\ pc' = [pc EXCEPT ![r] = IF o = None THEN "wait" ELSE "settle"]
         \/ /\ Len(log[r]) = 0 /\ o = None /\ log' = log /\ verdict' = verdict
            /\ pc' = [pc EXCEPT ![r] = "register"]
         \/ /\ Len(log[r]) = 0 /\ o # None /\ verdict' = verdict
            /\ pc' = [pc EXCEPT ![r] = Return(o)]
            /\ \E l \in Seq(Events) :
                 /\ Len(l) = 2 /\ l[1] = "requested" /\ l[2] = o
                 /\ log' = [log EXCEPT ![r] = l]
<1>1. Len(log[r]) = 0 \/ Len(log[r]) = 1
  BY DEF IInvType, Stages
<1>2. CASE Len(log[r]) = 1
  BY <1>2 DEF Conclude, Announced, Goto
<1>3. CASE Len(log[r]) = 0 /\ o = None
  BY <1>3 DEF Conclude, Announced, Goto
<1>4. CASE Len(log[r]) = 0 /\ o # None
  <2> DEFINE l == Append(Append(log[r], "requested"), o)
  <2>1. l \in Seq(Events) /\ Len(l) = 2 /\ l[1] = "requested" /\ l[2] = o
    BY <1>4, TwoEvents DEF IInvType, TypeOK
  <2>2. log' = [log EXCEPT ![r] = l] /\ verdict' = verdict /\ pc' = [pc EXCEPT ![r] = Return(o)]
    BY <1>4 DEF Conclude, Announced, Goto
  <2> HIDE DEF l
  <2> QED BY <1>4, <2>1, <2>2
<1> QED BY <1>1, <1>2, <1>3, <1>4

\* A task leaves the outcome of every other one alone, and the user's answers.
LEMMA TaskKeepsOutcomes ==
  ASSUME IInvType, NEW r \in Requests, Work(r) \/ DropTask(r)
  PROVE  /\ answer' = answer
         /\ \A q \in Requests \ {r} : verdict'[q] = verdict[q]
<1>1. verdict \in [Requests -> Outcomes \cup {None}]
  BY DEF IInvType, TypeOK
<1>2. CASE ReadDeny(r) \/ ReadMode(r) \/ ReadRejectAuto(r) \/ ReadRejectAsk(r) \/ ReadAllow(r)
  <2>1. answer' = answer
    BY <1>2, PassEffects DEF uiVars
  <2>2. verdict' = verdict \/ \E o \in {None, "AutoApproved", "AutoDenied"} :
                                verdict' = [verdict EXCEPT ![r] = o]
    BY <1>2 DEF ReadDeny, ReadMode, ReadRejectAuto, ReadRejectAsk, ReadAllow, Conclude
  <2> QED BY <1>1, <2>1, <2>2
<1>3. CASE \/ Register(r) \/ Announce(r) \/ SettleLate(r) \/ Receive(r) \/ Elapse(r)
           \/ CloseReceiver(r)
  BY <1>1, <1>3 DEF Register, Announce, SettleLate, Receive, Elapse, CloseReceiver, uiVars
<1>4. CASE Finish(r) \/ Report(r) \/ DropTask(r) \/ DropGuard(r)
  BY <1>1, <1>4 DEF Finish, Report, DropTask, DropGuard, uiVars
<1> QED BY <1>2, <1>3, <1>4 DEF Work

LEMMA VettedByTask ==
  ASSUME IInv, AllVetted, NEW r \in Requests, Work(r) \/ DropTask(r)
  PROVE  Vetted(r)'
<1> USE DEF Goto, Emit
<1>0. /\ Vetted(r)
      /\ pc \in [Requests -> Places]
      /\ chan \in [Requests -> Outcomes \cup {None}]
      /\ verdict \in [Requests -> Outcomes \cup {None}]
      /\ log \in [Requests -> Seq(Events)]
      /\ pc[r] \in CardOpen => Len(log[r]) = 1
      /\ pc[r] = "announce" => Len(log[r]) = 0
      /\ Len(log[r]) > 0 => log[r][1] = "requested"
  BY DEF IInv, IInvType, TypeOK, Stages, AllVetted
<1>u. UNCHANGED <<ask, cover, reject, uiSend>>
  BY DEF Work, ReadDeny, ReadMode, ReadRejectAuto, ReadRejectAsk, ReadAllow, Register,
     Announce, SettleLate, Receive, Elapse, CloseReceiver, Finish, Report, DropGuard,
     DropTask, uiVars, policyVars
<1>m. MayApprove(r)' <=> MayApprove(r)
  BY <1>u DEF MayApprove, IsCommand
<1>1. CASE ReadDeny(r) \/ ReadMode(r) \/ ReadRejectAuto(r) \/ ReadRejectAsk(r) \/ ReadAllow(r)
  <2>1. pc[r] \in Checking /\ chan' = chan
    BY <1>1, PassResult
  <2>2. ASSUME NEW p \in Checking, Goto(r, p), UNCHANGED <<verdict, log>>,
               p \in {"rejectAuto", "rejectAsk"} => IsCommand(ask[r]),
               p = "allow" => MayApprove(r)
        PROVE  Vetted(r)'
    BY <1>0, <1>u, <1>m, <2>1, <2>2 DEF Vetted, IsCommand
  <2>3. ASSUME NEW o \in {None, "AutoApproved", "AutoDenied"}, Conclude(r, o),
               o = "AutoApproved" => MayApprove(r)
        PROVE  Vetted(r)'
    <3>1. CASE /\ log' = log
               /\ verdict' = [verdict EXCEPT ![r] = o]
               /\ pc' = [pc EXCEPT ![r] = IF o = None THEN "wait" ELSE "settle"]
      BY <1>0, <1>u, <1>m, <2>1, <2>3, <3>1 DEF Vetted
    <3>2. CASE log' = log /\ verdict' = verdict /\ pc' = [pc EXCEPT ![r] = "register"]
      BY <1>0, <1>u, <1>m, <2>1, <3>2 DEF Vetted
    <3>3. CASE /\ verdict' = verdict
               /\ pc' = [pc EXCEPT ![r] = Return(o)]
               /\ \E l \in Seq(Events) :
                    /\ Len(l) = 2 /\ l[1] = "requested" /\ l[2] = o
                    /\ log' = [log EXCEPT ![r] = l]
      <4>1. PICK l \in Seq(Events) :
              /\ Len(l) = 2 /\ l[1] = "requested" /\ l[2] = o
              /\ log' = [log EXCEPT ![r] = l]
        BY <3>3
      <4>2. \A i \in DOMAIN log'[r] : log'[r][i] = "AutoApproved" => MayApprove(r)
        <5>1. log'[r] = l /\ DOMAIN l = 1 .. 2
          BY <1>0, <4>1
        <5> QED BY <2>3, <4>1, <5>1
      <4>3. pc'[r] \in {"granted", "refused"}
        BY <1>0, <3>3 DEF Return
      <4> QED BY <1>0, <1>u, <1>m, <2>1, <3>3, <4>2, <4>3 DEF Vetted
    <3> QED BY <2>1, <2>3, <3>1, <3>2, <3>3, ConcludeCases DEF IInv
  <2> QED BY <1>1, <2>2, <2>3, PassResult
<1>2. CASE \/ Register(r) \/ SettleLate(r) \/ Receive(r) \/ Elapse(r)
           \/ CloseReceiver(r) \/ Finish(r) \/ DropTask(r)
  BY <1>0, <1>u, <1>m, <1>2 DEF Register, SettleLate, Receive, Elapse, CloseReceiver,
     Finish, DropTask, Vetted
<1>3. ASSUME NEW e \in Events, Len(log[r]) \in 0 .. 1, log'[r] = Append(log[r], e),
             e = "AutoApproved" => MayApprove(r)
      PROVE  \A i \in DOMAIN log'[r] : log'[r][i] = "AutoApproved" => MayApprove(r)
  <2>1. log[r] \in Seq(Events)
    BY <1>0
  <2>2. /\ DOMAIN log'[r] = 1 .. Len(log[r]) + 1
        /\ \A i \in 1 .. Len(log[r]) : log'[r][i] = log[r][i]
        /\ log'[r][Len(log[r]) + 1] = e
    BY <1>3, <2>1, AppendAt
  <2>3. Len(log[r]) > 0 => log[r][1] = "requested"
    BY <1>0
  <2> QED BY <1>3, <2>2, <2>3
<1>4. CASE Announce(r)
  <2>1. \A i \in DOMAIN log'[r] : log'[r][i] = "AutoApproved" => MayApprove(r)
    BY <1>0, <1>3, <1>4 DEF Announce
  <2>2. pc'[r] = "deny" /\ pc[r] = "announce" /\ verdict' = verdict /\ chan' = chan
    BY <1>0, <1>4 DEF Announce
  <2> QED BY <1>0, <1>u, <1>m, <2>1, <2>2 DEF Vetted
<1>5. CASE Report(r)
  <2>1. verdict[r] \in Events
    BY <1>5 DEF Report, IInv, IInvType, Stages
  <2>2. \A i \in DOMAIN log'[r] : log'[r][i] = "AutoApproved" => MayApprove(r)
    BY <1>0, <1>3, <1>5, <2>1 DEF Report, Vetted
  <2>3. pc'[r] \in {"granted", "refused"} /\ verdict'[r] = None /\ chan' = chan
    BY <1>0, <1>5 DEF Report, Return
  <2> QED BY <1>0, <1>u, <1>m, <2>2, <2>3 DEF Vetted
<1>6. CASE DropGuard(r)
  <2>1. pc[r] = "dropping" /\ pc'[r] = "dropped" /\ verdict' = verdict /\ chan' = chan
    BY <1>0, <1>6 DEF DropGuard
  <2>2. log'[r] = Append(log[r], "Denied") \/ log' = log
    BY <1>0, <1>6 DEF DropGuard
  <2>3. \A i \in DOMAIN log'[r] : log'[r][i] = "AutoApproved" => MayApprove(r)
    <3>1. CASE log'[r] = Append(log[r], "Denied")
      BY <1>0, <1>3, <2>1, <3>1
    <3> QED BY <1>0, <2>2, <3>1 DEF Vetted
  <2> QED BY <1>0, <1>u, <1>m, <2>1, <2>3 DEF Vetted
<1> QED BY <1>1, <1>2, <1>4, <1>5, <1>6 DEF Work
LEMMA VettedTask ==
  ASSUME IInv, AllVetted, NEW r \in Requests, Work(r) \/ DropTask(r)
  PROVE  AllVetted'
<1>1. ASSUME NEW q \in Requests, q # r
      PROVE  Vetted(q)'
  <2>1. /\ pc'[q] = pc[q] /\ chan'[q] = chan[q] /\ log'[q] = log[q]
        /\ UNCHANGED <<reject, cover, ask, uiSend>>
    BY <1>1, TaskIsLocal
  <2>2. verdict'[q] = verdict[q]
    BY <1>1, TaskKeepsOutcomes DEF IInv
  <2> QED BY <2>1, <2>2 DEF AllVetted, Vetted, MayApprove
<1> QED BY <1>1, VettedByTask DEF AllVetted

LEMMA VettedSubmit ==
  ASSUME IInv, AllVetted, NEW r \in Requests, NEW a \in Population, Submit(r, a)
  PROVE  AllVetted'
<1> USE DEF IInv, IInvType, TypeOK
<1>1. /\ pc[r] = "idle" /\ ask' = [ask EXCEPT ![r] = a]
      /\ pc' = [pc EXCEPT ![r] = IF IsRestricted(a) /\ mode # "Auto" THEN "blocked" ELSE "deny"]
      /\ cover' = [cover EXCEPT ![r] = IF Covered(a.subject, reject) THEN "always" ELSE "never"]
      /\ UNCHANGED <<reject, chan, verdict, log, uiSend>>
  BY DEF Submit, Goto, uiVars
<1>2. ASSUME NEW q \in Requests, q # r
      PROVE  Vetted(q)'
  BY <1>1, <1>2 DEF AllVetted, Vetted, MayApprove
<1>3. Vetted(r)'
  <2>1. Len(log[r]) = 0 /\ verdict[r] = None
    BY <1>1 DEF Stages, AllVetted, Vetted
  <2>2. chan[r] = None
    <3>1. Owned(r) /\ ~Registered(r)
      BY <1>1, <2>1 DEF Ownership, Registered, Announced
    <3> QED BY <3>1 DEF Owned
  <2>3. <<r, "AutoApproved">> \notin uiSend
    <3>1. <<r, "AutoApproved">>[1] = r
      OBVIOUS
    <3> QED BY <1>1, <3>1 DEF Started
  <2>4. DOMAIN log[r] = {}
    BY <2>1
  <2>5. /\ pc'[r] \in {"blocked", "deny"} /\ verdict'[r] = None /\ chan'[r] = None
        /\ <<r, "AutoApproved">> \notin uiSend' /\ DOMAIN log'[r] = {}
        /\ cover'[r] = "always" => Covered(ask'[r].subject, reject')
    BY <1>1, <2>1, <2>2, <2>3, <2>4
  <2> QED BY <2>5 DEF Vetted
<1> QED BY <1>2, <1>3 DEF AllVetted

\* A request that has been vetted stays so whatever happens to the rules: what a
\* deny rule has ceased to cover is remembered as such.
LEMMA RulesKeepVetted ==
  ASSUME IInv, NEW r \in Requests, Vetted(r), UNCHANGED <<ask, pc, log, verdict, chan>>,
         \/ UNCHANGED <<reject, cover>>
         \/ \E rules : SetReject(rules),
         <<r, "AutoApproved">> \in uiSend' => MayApprove(r)
  PROVE  Vetted(r)'
<1>1. cover'[r] \in {cover[r], "late", "lost"}
  BY DEF SetReject, CoverAfter
<1>2. MayApprove(r) => MayApprove(r)'
  BY <1>1 DEF MayApprove, IsCommand
<1>3. pc[r] \notin {"idle"} \cup Final /\ cover'[r] = "always" => Covered(ask[r].subject, reject')
  BY DEF Vetted, SetReject, CoverAfter
<1> QED BY <1>2, <1>3 DEF Vetted, IsCommand

LEMMA VettedUi ==
  ASSUME IInv, AllVetted,
         \/ \E r \in Requests, d \in Decisions : Resolve(r, d)
         \/ UiWork
         \/ \E m \in Modes : SetMode(m)
         \/ \E p \in Patterns : AddAllowRule(p) \/ AddRejectRule(p) \/ RemoveRule(p)
         \/ ClearRules
  PROVE  AllVetted'
<1>0. UNCHANGED <<ask, pc, log, verdict>>
  BY UiStep DEF IInv
<1>v. ASSUME NEW q \in Requests
      PROVE  Vetted(q)
  BY DEF AllVetted
<1>1. ASSUME NEW r \in Requests, NEW d \in Decisions, Resolve(r, d)
      PROVE  AllVetted'
  <2>1. UNCHANGED <<reject, cover, chan>> /\ uiSend' = {<<r, FromDecision(d)>>}
    BY <1>1 DEF Resolve, policyVars
  <2>2. \A q \in Requests : <<q, "AutoApproved">> \notin uiSend'
    BY <2>1 DEF FromDecision
  <2> QED BY <1>0, <1>v, <2>1, <2>2, RulesKeepVetted DEF AllVetted
<1>2. CASE Sweep
  <2>1. UNCHANGED <<reject, cover, chan>>
    BY <1>2 DEF Sweep, policyVars
  <2>2. ASSUME NEW q \in Requests, <<q, "AutoApproved">> \in uiSend'
        PROVE  MayApprove(q)
    <3>1. uiSend' = {<<r, SweepOutcome(ask[r])>> : r \in {r \in pending : SweepOutcome(ask[r]) # None}}
      BY <1>2 DEF Sweep
    <3>2. q \in pending /\ SweepOutcome(ask[q]) = "AutoApproved"
      BY <2>2, <3>1
    <3>3. pc[q] \notin {"idle"} \cup Final
      BY <3>2 DEF IInv, Started, Ownership, Owned
    <3>4. \/ ask[q].kind = "mcp"
          \/ IsCommand(ask[q]) /\ ~Covered(ask[q].subject, reject)
      BY <3>2 DEF SweepOutcome, MatchesUserReject
    <3> QED BY <1>v, <3>3, <3>4 DEF Vetted, MayApprove, IsCommand
  <2> QED BY <1>0, <1>v, <2>1, <2>2, RulesKeepVetted DEF AllVetted
<1>3. ASSUME NEW r \in Requests, NEW o \in Outcomes, Send(r, o)
      PROVE  AllVetted'
  <2>1. /\ <<r, o>> \in uiSend /\ uiSend' \subseteq uiSend
        /\ chan' = [chan EXCEPT ![r] = IF Listening(r) THEN o ELSE @]
        /\ UNCHANGED <<reject, cover>>
    BY <1>3 DEF Send, policyVars
  <2>2. \A q \in Requests : MayApprove(q)' <=> MayApprove(q)
    BY <1>0, <2>1 DEF MayApprove, IsCommand
  <2>3. ASSUME NEW q \in Requests, chan'[q] = "AutoApproved"
        PROVE  MayApprove(q)
    BY <1>v, <2>1, <2>3 DEF Vetted, IInv, IInvType, TypeOK
  <2>4. ASSUME NEW q \in Requests
        PROVE  Vetted(q)'
    BY <1>0, <1>v, <2>1, <2>2, <2>3 DEF Vetted, IsCommand
  <2> QED BY <2>4 DEF AllVetted
<1>4. ASSUME UNCHANGED <<chan, uiSend>>, UNCHANGED <<reject, cover>> \/ \E rules : SetReject(rules)
      PROVE  AllVetted'
  <2>1. ASSUME NEW q \in Requests, <<q, "AutoApproved">> \in uiSend'
        PROVE  MayApprove(q)
    BY <1>v, <1>4, <2>1 DEF Vetted
  <2> QED BY <1>0, <1>v, <1>4, <2>1, RulesKeepVetted DEF AllVetted
<1>5. CASE ApplyRule
  <2>1. UNCHANGED <<chan, uiSend>> /\ \E rules : SetReject(rules)
    BY <1>5 DEF ApplyRule, taskVars
  <2> QED BY <1>4, <2>1
<1>6. ASSUME NEW m \in Modes, SetMode(m)
      PROVE  AllVetted'
  BY <1>4, <1>6 DEF SetMode, taskVars
<1>7. ASSUME NEW p \in Patterns, AddAllowRule(p)
      PROVE  AllVetted'
  BY <1>4, <1>7 DEF AddAllowRule, taskVars, uiVars
<1>8. ASSUME NEW p \in Patterns, AddRejectRule(p) \/ RemoveRule(p)
      PROVE  AllVetted'
  <2>1. UNCHANGED <<chan, uiSend>> /\ \E rules : SetReject(rules)
    BY <1>8 DEF AddRejectRule, RemoveRule, taskVars, uiVars
  <2> QED BY <1>4, <2>1
<1>9. CASE ClearRules
  <2>1. UNCHANGED <<chan, uiSend>> /\ SetReject({})
    BY <1>9 DEF ClearRules, taskVars, uiVars
  <2> QED BY <1>4, <2>1
<1> QED BY <1>1, <1>2, <1>3, <1>5, <1>6, <1>7, <1>8, <1>9 DEF UiWork

LEMMA VettedInductive ==
  /\ Init => AllVetted
  /\ IInv /\ AllVetted /\ [Next]_vars => AllVetted'
<1>1. ASSUME Init
      PROVE  AllVetted
  <2>1. \A r \in Requests : /\ pc[r] = "idle" /\ verdict[r] = None /\ chan[r] = None
                           /\ log[r] = <<>>
    BY <1>1 DEF Init
  <2>2. DOMAIN <<>> = {}
    OBVIOUS
  <2> QED BY <1>1, <2>1, <2>2 DEF Init, AllVetted, Vetted
<1>2. ASSUME IInv, AllVetted, [Next]_vars
      PROVE  AllVetted'
  <2>1. CASE UNCHANGED vars
    BY <1>2, <2>1 DEF AllVetted, Vetted, MayApprove, vars, policyVars, taskVars, uiVars
  <2>2. CASE Next
    BY <1>2, <2>2, VettedTask, VettedSubmit, VettedUi DEF Next
  <2> QED BY <1>2, <2>1, <2>2
<1> QED BY <1>1, <1>2

\* No pass over the policy and no switch of the mode approves, by itself, an
\* external path or a command that a user deny rule has covered all along.
THEOREM DenyRulesHold == Spec => []AutoApprovalRespectsDenyRules
<1>1. Init => IInv /\ AllVetted
  BY Inductive, VettedInductive
<1>2. IInv /\ AllVetted /\ [Next]_vars => (IInv /\ AllVetted)'
  BY Inductive, VettedInductive
<1>3. AllVetted => AutoApprovalRespectsDenyRules
  BY DEF AllVetted, Vetted, MayApprove, AutoApprovalRespectsDenyRules
<1> QED BY <1>1, <1>2, <1>3, PTL DEF Spec
-----------------------------------------------------------------------------
(* What the user's answer permits. *)

\* Nobody has answered a request that still has its entry; what is on its way
\* to a task, or has reached it, is something the user's answer permits; and a
\* task that is about to finish with its entry still there has timed out.
Faithful(r) ==
  /\ r \in pending \/ ~Registered(r) => answer[r] = None
  /\ chan[r] # None => Contract!Permits(answer[r], chan[r])
  /\ pc[r] \in {"finish", "report"} => Contract!Permits(answer[r], verdict[r])
  /\ pc[r] = "finish" /\ r \in pending => verdict[r] = "TimedOut"
  /\ \A o \in Outcomes : <<r, o>> \in uiSend => Contract!Permits(answer[r], o)

AllFaithful == \A r \in Requests : Faithful(r)

LEMMA FaithfulByTask ==
  ASSUME IInv, AllFaithful, NEW r \in Requests, Work(r) \/ DropTask(r)
  PROVE  Faithful(r)'
<1> USE DEF Goto, Emit
<1>0. /\ Faithful(r) /\ Owned(r)
      /\ pending \subseteq Requests
      /\ pc \in [Requests -> Places]
      /\ chan \in [Requests -> Outcomes \cup {None}]
      /\ verdict \in [Requests -> Outcomes \cup {None}]
      /\ log \in [Requests -> Seq(Events)]
      /\ pc[r] \in CardOpen => Len(log[r]) = 1
      /\ pc[r] = "register" => Len(log[r]) = 0
      /\ pc[r] = "settle" => verdict[r] \in {"AutoApproved", "AutoDenied"}
      /\ pc[r] = "elapsed" => verdict[r] = "TimedOut"
  BY DEF IInv, IInvType, TypeOK, Stages, Ownership, AllFaithful
<1>u. answer' = answer /\ uiSend' = uiSend
  BY DEF Work, ReadDeny, ReadMode, ReadRejectAuto, ReadRejectAsk, ReadAllow, Register,
     Announce, SettleLate, Receive, Elapse, CloseReceiver, Finish, Report, DropGuard,
     DropTask, uiVars
<1>1. CASE ReadDeny(r) \/ ReadMode(r) \/ ReadRejectAuto(r) \/ ReadRejectAsk(r) \/ ReadAllow(r)
  <2>1. /\ pc[r] \in Checking /\ chan' = chan /\ pending' = pending
        /\ \/ /\ log' = log
              /\ \E p \in Checking \cup {"settle", "wait", "register"} : pc' = [pc EXCEPT ![r] = p]
           \/ /\ \E l \in Seq(Events) : Len(l) = 2 /\ log' = [log EXCEPT ![r] = l]
              /\ \E p \in {"granted", "refused"} : pc' = [pc EXCEPT ![r] = p]
    BY <1>1, PassMoves DEF IInv
  <2>2. CASE /\ log' = log
             /\ \E p \in Checking \cup {"settle", "wait", "register"} : pc' = [pc EXCEPT ![r] = p]
    <3>1. pc'[r] \in Checking \cup {"settle", "wait", "register"}
      BY <1>0, <2>2
    <3>2. Registered(r) => Registered(r)'
      BY <2>1, <2>2 DEF Registered, Announced
    <3> QED BY <1>0, <1>u, <2>1, <3>1, <3>2 DEF Faithful
  <2>3. CASE /\ \E l \in Seq(Events) : Len(l) = 2 /\ log' = [log EXCEPT ![r] = l]
             /\ \E p \in {"granted", "refused"} : pc' = [pc EXCEPT ![r] = p]
    <3>1. pc'[r] \in {"granted", "refused"}
      BY <1>0, <2>3
    <3>2. Registered(r)'
      <4>1. PICK l \in Seq(Events) : Len(l) = 2 /\ log' = [log EXCEPT ![r] = l]
        BY <2>3
      <4>2. Len(log'[r]) = 2
        BY <1>0, <4>1
      <4> QED BY <4>2 DEF Registered, Announced
    <3> QED BY <1>0, <1>u, <2>1, <3>1, <3>2 DEF Faithful
  <2> QED BY <2>1, <2>2, <2>3
<1>2. CASE Register(r)
  BY <1>0, <1>u, <1>2 DEF Register, Faithful, Registered, Announced, Owned
<1>3. CASE Announce(r)
  <2>1. Len(log'[r]) = Len(log[r]) + 1 /\ Len(log[r]) \in Nat
    BY <1>0, <1>3, AppendAt DEF Announce
  <2>2. Registered(r)' /\ pc'[r] = "deny"
    BY <1>0, <1>3, <2>1 DEF Announce, Registered, Announced
  <2> QED BY <1>0, <1>u, <1>3, <2>2 DEF Announce, Faithful
<1>4. CASE SettleLate(r)
  BY <1>0, <1>u, <1>4 DEF SettleLate, Faithful, Registered, Announced, Contract!Permits,
     Contract!Automatic
<1>5. CASE Receive(r)
  BY <1>0, <1>u, <1>5 DEF Receive, Faithful, Registered, Announced, Owned
<1>6. CASE Elapse(r) \/ CloseReceiver(r)
  BY <1>0, <1>u, <1>6 DEF Elapse, CloseReceiver, Faithful, Registered, Announced,
     Contract!Permits
<1>7. CASE Finish(r) \/ DropTask(r)
  BY <1>0, <1>u, <1>7 DEF Finish, DropTask, Faithful, Registered, Announced
<1>8. CASE Report(r) \/ DropGuard(r)
  <2>1. Len(log[r]) = 1
    BY <1>0, <1>8 DEF Report, DropGuard
  <2>2. ASSUME NEW e \in Events
        PROVE  Len(Append(log[r], e)) = 2
    <3>1. log[r] \in Seq(Events)
      BY <1>0
    <3>2. Len(Append(log[r], e)) = Len(log[r]) + 1
      BY <3>1, AppendAt
    <3> QED BY <2>1, <3>2
  <2>3. Len(log'[r]) > 0
    BY <1>0, <1>8, <2>1, <2>2 DEF Report, DropGuard
  <2>4. /\ pc'[r] \in Final /\ chan' = chan /\ pending' \in {pending, pending \ {r}}
    BY <1>0, <1>8 DEF Report, DropGuard, Return
  <2> QED BY <1>0, <1>u, <2>3, <2>4 DEF Faithful, Registered, Announced
<1> QED BY <1>1, <1>2, <1>3, <1>4, <1>5, <1>6, <1>7, <1>8 DEF Work

LEMMA FaithfulTask ==
  ASSUME IInv, AllFaithful, NEW r \in Requests, Work(r) \/ DropTask(r)
  PROVE  AllFaithful'
<1>1. ASSUME NEW q \in Requests, q # r
      PROVE  Faithful(q)'
  <2>1. /\ pc'[q] = pc[q] /\ chan'[q] = chan[q] /\ log'[q] = log[q]
        /\ q \in pending' <=> q \in pending
        /\ uiSend' = uiSend
    BY <1>1, TaskIsLocal
  <2>2. verdict'[q] = verdict[q] /\ answer' = answer
    BY <1>1, TaskKeepsOutcomes DEF IInv
  <2> QED BY <2>1, <2>2 DEF AllFaithful, Faithful, Registered, Announced
<1> QED BY <1>1, FaithfulByTask DEF AllFaithful

LEMMA FaithfulSubmit ==
  ASSUME IInv, AllFaithful, NEW r \in Requests, NEW a \in Population, Submit(r, a)
  PROVE  AllFaithful'
<1>1. /\ pc[r] = "idle" /\ pc'[r] \in {"blocked", "deny"}
      /\ \A q \in Requests \ {r} : pc'[q] = pc[q]
      /\ UNCHANGED <<pending, chan, verdict, log, uiSend, answer>>
  BY DEF Submit, Goto, uiVars, IInv, IInvType, TypeOK
<1>2. ASSUME NEW q \in Requests
      PROVE  Faithful(q)'
  BY <1>1 DEF AllFaithful, Faithful, Registered, Announced
<1> QED BY <1>2 DEF AllFaithful

LEMMA FaithfulUi ==
  ASSUME IInv, AllFaithful,
         \/ \E r \in Requests, d \in Decisions : Resolve(r, d)
         \/ UiWork
         \/ \E m \in Modes : SetMode(m)
         \/ \E p \in Patterns : AddAllowRule(p) \/ AddRejectRule(p) \/ RemoveRule(p)
         \/ ClearRules
  PROVE  AllFaithful'
<1>0. UNCHANGED <<ask, pc, log, verdict>>
  BY UiStep DEF IInv
<1>f. ASSUME NEW q \in Requests
      PROVE  Faithful(q) /\ Owned(q)
  BY DEF AllFaithful, IInv, Ownership
<1>1. ASSUME NEW r \in Requests, NEW d \in Decisions, Resolve(r, d)
      PROVE  AllFaithful'
  <2>1. /\ r \in pending /\ Announced(r)
        /\ pending' = pending \ {r} /\ chan' = chan
        /\ uiSend' = {<<r, FromDecision(d)>>}
        /\ answer' = [answer EXCEPT ![r] = FromDecision(d)]
    BY <1>1 DEF Resolve
  <2>2. answer'[r] = FromDecision(d) /\ \A q \in Requests \ {r} : answer'[q] = answer[q]
    BY <2>1 DEF IInv, IInvType, TypeOK
  <2>3. Faithful(r)'
    <3>1. chan[r] = None /\ pc[r] # "report"
      BY <1>f, <2>1 DEF Owned
    <3>2. pc[r] = "finish" => verdict[r] = "TimedOut"
      BY <1>f, <2>1 DEF Faithful
    <3>3. Registered(r)'
      BY <1>0, <2>1 DEF Registered, Announced
    <3>4. \A o : <<r, o>> \in uiSend' => o = answer'[r]
      BY <2>1, <2>2
    <3> QED BY <1>0, <2>1, <3>1, <3>2, <3>3, <3>4 DEF Faithful, Contract!Permits
  <2>4. ASSUME NEW q \in Requests, q # r
        PROVE  Faithful(q)'
    <3>1. \A o : <<q, o>> \notin uiSend'
      BY <2>1, <2>4
    <3> QED BY <1>0, <1>f, <2>1, <2>2, <2>4, <3>1 DEF Faithful, Registered, Announced
  <2> QED BY <2>3, <2>4 DEF AllFaithful
<1>2. CASE Sweep
  <2>1. /\ pending' \subseteq pending /\ chan' = chan /\ answer' = answer
        /\ uiSend' = {<<r, SweepOutcome(ask[r])>> : r \in {r \in pending : SweepOutcome(ask[r]) # None}}
    BY <1>2 DEF Sweep
  <2>2. ASSUME NEW q \in Requests, NEW o \in Outcomes, <<q, o>> \in uiSend'
        PROVE  q \in pending /\ o \in {"AutoApproved", "AutoDenied"}
    BY <2>1, <2>2 DEF SweepOutcome
  <2>3. ASSUME NEW q \in Requests
        PROVE  Faithful(q)'
    <3>1. \A o \in Outcomes : <<q, o>> \in uiSend' => Contract!Permits(answer[q], o)
      BY <1>f, <2>2 DEF Faithful, Contract!Permits, Contract!Automatic
    <3> QED BY <1>0, <1>f, <2>1, <3>1 DEF Faithful, Registered, Announced
  <2> QED BY <2>3 DEF AllFaithful
<1>3. ASSUME NEW r \in Requests, NEW o \in Outcomes, Send(r, o)
      PROVE  AllFaithful'
  <2>1. /\ <<r, o>> \in uiSend /\ uiSend' \subseteq uiSend
        /\ chan' = [chan EXCEPT ![r] = IF Listening(r) THEN o ELSE @]
        /\ UNCHANGED <<pending, answer>>
    BY <1>3 DEF Send
  <2>2. Contract!Permits(answer[r], o)
    BY <1>f, <2>1 DEF Faithful
  <2>3. ASSUME NEW q \in Requests
        PROVE  Faithful(q)'
    <3>1. chan'[q] = chan[q] \/ (q = r /\ chan'[q] = o)
      BY <2>1 DEF IInv, IInvType, TypeOK
    <3> QED BY <1>0, <1>f, <2>1, <2>2, <3>1 DEF Faithful, Registered, Announced
  <2> QED BY <2>3 DEF AllFaithful
<1>4. ASSUME UNCHANGED <<pending, chan, uiSend, answer>>
      PROVE  AllFaithful'
  BY <1>0, <1>f, <1>4 DEF AllFaithful, Faithful, Registered, Announced
<1>5. CASE ApplyRule
  BY <1>4, <1>5 DEF ApplyRule, taskVars
<1>6. ASSUME NEW m \in Modes, SetMode(m)
      PROVE  AllFaithful'
  BY <1>4, <1>6 DEF SetMode, taskVars
<1>7. ASSUME NEW p \in Patterns, AddAllowRule(p) \/ AddRejectRule(p) \/ RemoveRule(p)
      PROVE  AllFaithful'
  BY <1>4, <1>7 DEF AddAllowRule, AddRejectRule, RemoveRule, taskVars, uiVars
<1>8. CASE ClearRules
  BY <1>4, <1>8 DEF ClearRules, taskVars, uiVars
<1> QED BY <1>1, <1>2, <1>3, <1>5, <1>6, <1>7, <1>8 DEF UiWork

LEMMA FaithfulInductive ==
  /\ Init => AllFaithful
  /\ IInv /\ AllFaithful /\ [Next]_vars => AllFaithful'
<1>1. Init => AllFaithful
  BY DEF Init, AllFaithful, Faithful, Registered, Announced
<1>2. ASSUME IInv, AllFaithful, [Next]_vars
      PROVE  AllFaithful'
  <2>1. CASE UNCHANGED vars
    BY <1>2, <2>1 DEF AllFaithful, Faithful, Registered, Announced, vars, taskVars, uiVars
  <2>2. CASE Next
    BY <1>2, <2>2, FaithfulTask, FaithfulSubmit, FaithfulUi DEF Next
  <2> QED BY <1>2, <2>1, <2>2
<1> QED BY <1>1, <1>2
-----------------------------------------------------------------------------
(* The broker implements its contract. *)

Cards == [r \in Requests |-> CardOf(log[r])]
Granted == {r \in Requests : pc[r] = "granted"}

LEMMA CardValues ==
  /\ CardOf(<<>>) = "unseen"
  /\ \A s \in Seq(Events) : Len(s) = 0 => CardOf(s) = "unseen"
  /\ \A s \in Seq(Events) : Len(s) = 1 /\ s[1] = "requested" => CardOf(s) = "open"
  /\ \A s \in Seq(Events) : Len(s) = 2 /\ s[1] = "requested" => CardOf(s) = s[2]
BY DEF CardOf

\* The card and the permission of a task, before and after it moves.
LEMMA CardMoves ==
  ASSUME IInvType, NEW r \in Requests, NEW l \in Seq(Events), log' = [log EXCEPT ![r] = l]
  PROVE  Cards' = [Cards EXCEPT ![r] = CardOf(l)]
BY DEF Cards, IInvType, TypeOK

LEMMA GrantMoves ==
  ASSUME IInvType, NEW r \in Requests, NEW p \in Places, pc' = [pc EXCEPT ![r] = p],
         pc[r] # "granted"
  PROVE  Granted' = IF p = "granted" THEN Granted \cup {r} ELSE Granted
<1>1. pc \in [Requests -> Places]
  BY DEF IInvType, TypeOK
<1>2. \A q \in Requests : pc'[q] = IF q = r THEN p ELSE pc[q]
  BY <1>1
<1> QED BY <1>2 DEF Granted

\* A pass over the policy opens no card; it may settle an unseen one.
LEMMA PassKeepsContract ==
  ASSUME IInv, NEW r \in Requests,
         ReadDeny(r) \/ ReadMode(r) \/ ReadRejectAuto(r) \/ ReadRejectAsk(r) \/ ReadAllow(r)
  PROVE  [Contract!Next]_(Contract!contractVars)
<1>1. pc[r] \in Checking /\ answer' = answer /\ IInvType
  BY PassMoves DEF uiVars, IInv
<1>2. \/ \E o \in {None, "AutoApproved", "AutoDenied"} : Conclude(r, o)
      \/ \E p \in Checking : Goto(r, p) /\ UNCHANGED <<verdict, log>>
  BY DEF ReadDeny, ReadMode, ReadRejectAuto, ReadRejectAsk, ReadAllow
<1>3. ASSUME log' = log, NEW p \in Places \ {"granted"}, pc' = [pc EXCEPT ![r] = p]
      PROVE  UNCHANGED Contract!contractVars
  <2>1. Granted' = Granted
    BY <1>1, <1>3, GrantMoves
  <2> QED BY <1>1, <1>3, <2>1 DEF Contract!contractVars, Granted
<1>4. ASSUME NEW o \in {None, "AutoApproved", "AutoDenied"}, Conclude(r, o)
      PROVE  [Contract!Next]_(Contract!contractVars)
  <2>1. CASE /\ log' = log
             /\ pc' = [pc EXCEPT ![r] = IF o = None THEN "wait" ELSE "settle"]
    <3>1. (IF o = None THEN "wait" ELSE "settle") \in Places \ {"granted"}
      OBVIOUS
    <3> QED BY <1>3, <2>1, <3>1
  <2>2. CASE log' = log /\ pc' = [pc EXCEPT ![r] = "register"]
    BY <1>3, <2>2
  <2>3. CASE /\ Len(log[r]) = 0 /\ o # None /\ pc' = [pc EXCEPT ![r] = Return(o)]
             /\ \E l \in Seq(Events) :
                  /\ Len(l) = 2 /\ l[1] = "requested" /\ l[2] = o
                  /\ log' = [log EXCEPT ![r] = l]
    <3>1. PICK l \in Seq(Events) :
            /\ Len(l) = 2 /\ l[1] = "requested" /\ l[2] = o
            /\ log' = [log EXCEPT ![r] = l]
      BY <2>3
    <3>2. Cards' = [Cards EXCEPT ![r] = o]
      BY <1>1, <3>1, CardMoves, CardValues
    <3>3. Cards[r] = "unseen"
      BY <1>1, <2>3, CardValues DEF Cards, IInvType, TypeOK
    <3>4. Granted' = IF o = "AutoApproved" THEN Granted \cup {r} ELSE Granted
      <4>1. Return(o) \in Places /\ (Return(o) = "granted" <=> o = "AutoApproved")
        BY <2>3 DEF Return
      <4>2. pc' = [pc EXCEPT ![r] = Return(o)] /\ pc[r] # "granted"
        BY <1>1, <2>3
      <4>3. Granted' = IF Return(o) = "granted" THEN Granted \cup {r} ELSE Granted
        BY <1>1, <4>1, <4>2, GrantMoves
      <4> QED BY <4>1, <4>3
    <3>5. Contract!Decide(r, o)
      BY <1>1, <2>3, <3>2, <3>3, <3>4 DEF Contract!Decide, Contract!Automatic, Cards, Granted
    <3>6. o \in Contract!Automatic
      BY <2>3 DEF Contract!Automatic
    <3> QED BY <3>5, <3>6 DEF Contract!Next
  <2> QED BY <1>1, <1>4, <2>1, <2>2, <2>3, ConcludeCases
<1>5. CASE \E p \in Checking : Goto(r, p) /\ UNCHANGED <<verdict, log>>
  BY <1>3, <1>5 DEF Goto
<1> QED BY <1>2, <1>4, <1>5

LEMMA TaskKeepsContract ==
  ASSUME IInv, AllFaithful, NEW r \in Requests,
         \/ Register(r) \/ Announce(r) \/ SettleLate(r) \/ Receive(r) \/ Elapse(r)
         \/ CloseReceiver(r) \/ Finish(r) \/ Report(r) \/ DropTask(r) \/ DropGuard(r)
  PROVE  [Contract!Next]_(Contract!contractVars)
<1> USE DEF Goto, Emit
<1>0. /\ IInvType /\ Faithful(r) /\ log[r] \in Seq(Events)
      /\ pc[r] \in CardOpen => Len(log[r]) = 1 /\ log[r][1] = "requested"
      /\ pc[r] = "announce" => Len(log[r]) = 0
      /\ pc[r] = "report" => verdict[r] \in Outcomes
  BY DEF IInv, IInvType, TypeOK, Stages, AllFaithful
<1>1. CASE Register(r) \/ SettleLate(r) \/ Receive(r) \/ Elapse(r) \/ CloseReceiver(r)
           \/ Finish(r) \/ DropTask(r)
  <2>1. /\ log' = log /\ answer' = answer
        /\ \E p \in Places \ {"granted"} : pc' = [pc EXCEPT ![r] = p] /\ pc[r] # "granted"
    BY <1>1 DEF Register, SettleLate, Receive, Elapse, CloseReceiver, Finish, DropTask, uiVars
  <2>2. Granted' = Granted
    BY <1>0, <2>1, GrantMoves
  <2> QED BY <2>1, <2>2 DEF Contract!contractVars, Granted
<1>2. CASE Announce(r)
  <2>1. /\ Append(log[r], "requested") \in Seq(Events)
        /\ Len(Append(log[r], "requested")) = 1
        /\ Append(log[r], "requested")[1] = "requested"
    <3>1. "requested" \in Events /\ Len(log[r]) = 0
      BY <1>0, <1>2 DEF Announce
    <3> QED BY <1>0, <3>1, AppendAt
  <2>2. Cards' = [Cards EXCEPT ![r] = "open"]
    BY <1>0, <1>2, <2>1, CardMoves, CardValues DEF Announce
  <2>3. Cards[r] = "unseen"
    BY <1>0, <1>2, CardValues DEF Cards, Announce
  <2>4. Granted' = Granted /\ answer' = answer
    <3>1. /\ pc' = [pc EXCEPT ![r] = "deny"] /\ pc[r] # "granted" /\ answer' = answer
          /\ "deny" \in Places
      BY <1>2 DEF Announce, uiVars
    <3>2. Granted' = IF "deny" = "granted" THEN Granted \cup {r} ELSE Granted
      BY <1>0, <3>1, GrantMoves
    <3> QED BY <3>1, <3>2
  <2>5. Contract!Open(r)
    BY <2>2, <2>3, <2>4 DEF Contract!Open, Cards, Granted
  <2> QED BY <2>5 DEF Contract!Next
<1>3. ASSUME NEW o \in Outcomes, pc[r] \in CardOpen, log' = [log EXCEPT ![r] = Append(@, o)],
             NEW p \in Places, pc' = [pc EXCEPT ![r] = p], answer' = answer,
             p = "granted" <=> o \in Approving, Contract!Permits(answer[r], o)
      PROVE  Contract!Next
  <2>1. /\ Append(log[r], o) \in Seq(Events)
        /\ Len(Append(log[r], o)) = 2
        /\ Append(log[r], o)[1] = "requested"
        /\ Append(log[r], o)[2] = o
    <3>1. o \in Events
      OBVIOUS
    <3> QED BY <1>0, <1>3, <3>1, CloseCard
  <2>2. log' = [log EXCEPT ![r] = Append(log[r], o)]
    BY <1>3
  <2>3. Cards' = [Cards EXCEPT ![r] = o]
    BY <1>0, <2>1, <2>2, CardMoves, CardValues
  <2>4. Cards[r] = "open"
    BY <1>0, <1>3, CardValues DEF Cards
  <2>5. Granted' = IF o \in {"Approved", "AutoApproved"} THEN Granted \cup {r} ELSE Granted
    BY <1>0, <1>3, GrantMoves
  <2>6. Contract!Settle(r, o)
    BY <1>3, <2>3, <2>4, <2>5 DEF Contract!Settle, Cards, Granted
  <2> QED BY <2>6 DEF Contract!Next, Contract!Automatic
<1>4. CASE Report(r)
  <2>1. /\ verdict[r] \in Outcomes /\ Contract!Permits(answer[r], verdict[r])
        /\ Return(verdict[r]) \in {"granted", "refused"}
        /\ Return(verdict[r]) = "granted" <=> verdict[r] \in Approving
    BY <1>0, <1>4 DEF Report, Return, Faithful
  <2>2. /\ pc[r] \in CardOpen /\ log' = [log EXCEPT ![r] = Append(@, verdict[r])]
        /\ pc' = [pc EXCEPT ![r] = Return(verdict[r])] /\ answer' = answer
    BY <1>4 DEF Report, uiVars
  <2> QED BY <1>3, <2>1, <2>2
<1>5. CASE DropGuard(r)
  <2>1. pc' = [pc EXCEPT ![r] = "dropped"] /\ pc[r] = "dropping" /\ answer' = answer
    BY <1>5 DEF DropGuard, uiVars
  <2>2. CASE r \in pending
    <3>1. Contract!Permits(answer[r], "Denied")
      BY <1>0, <2>2 DEF Faithful, Contract!Permits
    <3>2. log' = [log EXCEPT ![r] = Append(@, "Denied")]
      BY <1>5, <2>2 DEF DropGuard
    <3> QED BY <1>3, <2>1, <3>1, <3>2
  <2>3. CASE r \notin pending
    <3>1. log' = log
      BY <1>5, <2>3 DEF DropGuard
    <3>2. Granted' = IF "dropped" = "granted" THEN Granted \cup {r} ELSE Granted
      <4>1. "dropped" \in Places /\ pc[r] # "granted"
        BY <2>1
      <4> QED BY <1>0, <2>1, <4>1, GrantMoves
    <3>3. Granted' = Granted
      BY <3>2
    <3> QED BY <2>1, <3>1, <3>3 DEF Contract!contractVars, Granted
  <2> QED BY <2>2, <2>3
<1> QED BY <1>1, <1>2, <1>4, <1>5

\* The window's answer is the contract's; nothing else of the main thread shows.
LEMMA UiKeepsContract ==
  ASSUME IInv, AllFaithful,
         \/ \E r \in Requests, d \in Decisions : Resolve(r, d)
         \/ UiWork
         \/ \E m \in Modes : SetMode(m)
         \/ \E p \in Patterns : AddAllowRule(p) \/ AddRejectRule(p) \/ RemoveRule(p)
         \/ ClearRules
  PROVE  [Contract!Next]_(Contract!contractVars)
<1>0. UNCHANGED <<pc, log>>
  BY UiStep DEF IInv
<1>1. ASSUME NEW r \in Requests, NEW d \in Decisions, Resolve(r, d)
      PROVE  Contract!Next
  <2>1. r \in pending /\ Announced(r) /\ answer' = [answer EXCEPT ![r] = FromDecision(d)]
    BY <1>1 DEF Resolve
  <2>2. answer[r] = "none"
    BY <2>1 DEF AllFaithful, Faithful
  <2>3. FromDecision(d) \in {"Approved", "Denied"}
    BY DEF FromDecision
  <2>4. Len(log[r]) = 1 /\ log[r][1] = "requested" /\ log[r] \in Seq(Events)
    <3>1. pc[r] \notin {"report"} \cup Final
      BY <2>1 DEF IInv, Ownership, Owned
    <3> QED BY <2>1, <3>1 DEF IInv, IInvType, TypeOK, Stages, Announced
  <2>5. Cards[r] = "open"
    BY <2>4, CardValues DEF Cards
  <2>6. Contract!Answer(r, FromDecision(d))
    BY <1>0, <2>1, <2>2, <2>3, <2>5 DEF Contract!Answer, Cards, Granted
  <2> QED BY <2>3, <2>6 DEF Contract!Next
<1>2. ASSUME answer' = answer
      PROVE  UNCHANGED Contract!contractVars
  BY <1>0, <1>2 DEF Contract!contractVars
<1>3. CASE UiWork
  BY <1>2, <1>3 DEF UiWork, ApplyRule, Sweep, Send
<1>4. CASE \/ \E m \in Modes : SetMode(m)
           \/ \E p \in Patterns : AddAllowRule(p) \/ AddRejectRule(p) \/ RemoveRule(p)
           \/ ClearRules
  BY <1>2, <1>4 DEF SetMode, AddAllowRule, AddRejectRule, RemoveRule, ClearRules, uiVars
<1> QED BY <1>1, <1>3, <1>4

LEMMA SubmitKeepsContract ==
  ASSUME IInv, NEW r \in Requests, NEW a \in Population, Submit(r, a)
  PROVE  UNCHANGED Contract!contractVars
<1>1. /\ log' = log /\ answer' = answer /\ pc[r] = "idle"
      /\ \E p \in {"blocked", "deny"} : pc' = [pc EXCEPT ![r] = p]
  BY DEF Submit, Goto, uiVars
<1>2. Granted' = Granted
  BY <1>1, GrantMoves DEF IInv
<1> QED BY <1>1, <1>2 DEF Contract!contractVars, Granted

\* Whatever the threads do, the webview and the tools see one card per request,
\* opened once and settled once, the first answer final, and permission given
\* exactly where the card says so: every step is one of the contract or none.
THEOREM KeepsContract == Spec => ImplementsContract
<1>1. Init => Contract!Init
  BY CardValues DEF Init, Contract!Init
<1>2. IInv /\ AllFaithful /\ [Next]_vars => [Contract!Next]_(Contract!contractVars)
  <2> SUFFICES ASSUME IInv, AllFaithful, [Next]_vars
               PROVE  [Contract!Next]_(Contract!contractVars)
    OBVIOUS
  <2>1. CASE UNCHANGED vars
    BY <2>1 DEF Contract!contractVars, vars, taskVars, uiVars
  <2>2. CASE Next
    BY <2>2, PassKeepsContract, TaskKeepsContract, UiKeepsContract, SubmitKeepsContract
       DEF Next, Work
  <2> QED BY <2>1, <2>2
<1>3. Init => IInv /\ AllFaithful
  BY Inductive, FaithfulInductive
<1>4. IInv /\ AllFaithful /\ [Next]_vars => (IInv /\ AllFaithful)'
  BY Inductive, FaithfulInductive
<1> QED BY <1>1, <1>2, <1>3, <1>4, PTL DEF Spec, ImplementsContract, Contract!Spec
=============================================================================
