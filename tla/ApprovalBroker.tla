--------------------------- MODULE ApprovalBroker ---------------------------
(***************************************************************************)
(* The approval broker (src-tauri/src/approval_broker.rs) together with    *)
(* the gate in front of it (CommandExecutor::run_with_approval).           *)
(*                                                                         *)
(* Every agent tool call that needs consent is one request: an async task  *)
(* on a tokio worker that reads the policy, registers an entry in          *)
(* `pending`, announces a card to the webview and waits for an outcome on  *)
(* a oneshot channel.  Against it run the Tauri commands of the window     *)
(* (resolve, set_autonomy_mode, the rule editors): they are synchronous    *)
(* commands, so they run one at a time on the main thread, but each of     *)
(* their critical sections interleaves with the tasks.                     *)
(*                                                                         *)
(* One action is one critical section or one step between two lock         *)
(* acquisitions; the rule lists that one command of the window edits back  *)
(* to back change together, since a task reads at most one of them after   *)
(* the other.  Text is abstract: a subject is what a request is about      *)
(* (command line, path, mcp:// rule), a pattern is a rule text, and        *)
(* Matching says which patterns match which subject.                       *)
(***************************************************************************)
EXTENDS Naturals, Sequences

CONSTANTS
  Requests,    \* ids of the approval requests (fresh UUIDs, used once)
  Subjects,    \* request summaries
  Patterns,    \* rule texts
  Matching,    \* Matching[s]: the patterns that match subject s
  Canonical,   \* Canonical[s]: canonical_command_pattern(s)
  Exact,       \* Exact[s]: the normalized text of s
  BuiltIn,     \* DEFAULT_REJECT_PATTERNS
  Sensitive,   \* subjects that matches_sensitive_target accepts
  Population   \* the requests tools may make

CommandRisks == {"mutating", "destructive", "restricted"}

\* What the factories ApprovalRequest::{command, mcp_tool, external_path} build.
Asks ==
  [kind : {"command"}, risk : CommandRisks, scoped : BOOLEAN, subject : Subjects]
    \cup [kind : {"mcp"}, risk : {"mutating"}, scoped : {FALSE}, subject : Subjects]
    \cup [kind : {"external"}, risk : {"external"}, scoped : {FALSE}, subject : Subjects]

\* A command's own pattern matches it: matches_command_pattern accepts equal
\* texts and a pattern that is a prefix ended by white space.
ASSUME BrokerAssumption ==
  /\ Matching \in [Subjects -> SUBSET Patterns]
  /\ Canonical \in [Subjects -> Patterns]
  /\ Exact \in [Subjects -> Patterns]
  /\ \A s \in Subjects : {Canonical[s], Exact[s]} \subseteq Matching[s]
  /\ BuiltIn \subseteq Patterns
  /\ Sensitive \subseteq Subjects
  /\ Population \subseteq Asks

Modes == {"Ask", "Auto"}
Decisions == {"Approve", "Deny", "AlwaysAllow", "AlwaysDeny"}
Outcomes == {"Approved", "Denied", "TimedOut", "AutoApproved", "AutoDenied"}
Approving == {"Approved", "AutoApproved"}
None == "none"
NoAsk == [kind |-> None, risk |-> None, scoped |-> FALSE, subject |-> None]

\* Places of a request task.  Up to "allow" it reads the policy, once before it
\* registers and once more after it announced its card.
Checking == {"deny", "mode", "rejectAuto", "rejectAsk", "allow"}
Final == {"granted", "refused", "blocked", "dropped"}
Places == {"idle", "register", "announce", "settle", "wait", "elapsed",
           "finish", "report", "dropping"} \cup Checking \cup Final

VARIABLES
  mode,      \* autonomy_mode
  allow,     \* allowed_patterns
  reject,    \* reject_patterns: the user's deny rules only
  pending,   \* the ids with a PendingEntry
  ask,       \* the ApprovalRequest of each id
  pc,        \* where each request task stands
  chan,      \* the value sent on each oneshot channel
  verdict,   \* the outcome a task has read or computed
  log,       \* the events emitted for each id
  uiOp,      \* what the main thread is executing
  uiDecision,\* the decision of the resolve being executed
  uiSend,    \* entries taken from pending whose sender is still to be used
  cover,     \* history: how deny rules have covered each request (below)
  answer     \* history: the user's answer that took each entry

policyVars == <<mode, allow, reject, cover>>
taskVars == <<pending, ask, pc, chan, verdict, log>>
uiVars == <<uiOp, uiDecision, uiSend, answer>>
vars == <<policyVars, taskVars, uiVars>>
-----------------------------------------------------------------------------
(* Reading the policy *)

Covered(s, rules) == Matching[s] \cap rules # {}

IsCommand(a) == a.kind = "command"
IsRestricted(a) == IsCommand(a) /\ a.risk = "restricted"
\* What Ask mode lets an allow rule approve, and an "always allow" create.
Eligible(a) == IsCommand(a) /\ a.scoped /\ a.risk = "mutating"

MatchesUserReject(s) == Covered(s, reject)
MatchesAllow(s) == Covered(s, allow)
IsCommandRejected(s) ==
  s \in Sensitive \/ Covered(s, BuiltIn) \/ MatchesUserReject(s)

Announced(r) == Len(log[r]) > 0

\* The receiver lives until the task has its outcome or is dropped.
Listening(r) == pc[r] \notin {"finish", "report", "dropping"} \cup Final

\* cover[r] records how the user's deny rules have covered request r since it
\* was made: "always", not at first but "late", "never", or "lost" when a rule
\* that covered it was withdrawn; it stops with the request.
CoverAfter(rules) ==
  [r \in Requests |->
     IF pc[r] \in {"idle"} \cup Final THEN cover[r]
     ELSE LET was == Covered(ask[r].subject, reject)
              is  == Covered(ask[r].subject, rules)
          IN  CASE was /\ ~is                       -> "lost"
                [] ~was /\ is /\ cover[r] = "never" -> "late"
                [] OTHER                            -> cover[r]]

SetReject(rules) == reject' = rules /\ cover' = CoverAfter(rules)
-----------------------------------------------------------------------------
(* The request task *)

Goto(r, place) == pc' = [pc EXCEPT ![r] = place]
Emit(r, e) == log' = [log EXCEPT ![r] = Append(@, e)]
Return(o) == IF o \in Approving THEN "granted" ELSE "refused"

\* The outcome of one pass over the policy.  Before registration it is final;
\* afterwards an outcome is settled through the entry, if that is still there.
Conclude(r, o) ==
  IF Announced(r)
  THEN /\ Goto(r, IF o = None THEN "wait" ELSE "settle")
       /\ verdict' = [verdict EXCEPT ![r] = o]
       /\ UNCHANGED log
  ELSE /\ Goto(r, IF o = None THEN "register" ELSE Return(o))
       /\ log' = IF o = None THEN log
                 ELSE [log EXCEPT ![r] = Append(Append(@, "requested"), o)]
       /\ UNCHANGED verdict

\* A tool asks for consent.  A restricted command is blocked without a request
\* unless the mode is Auto right now.
Submit(r, a) ==
  /\ pc[r] = "idle"
  /\ ask' = [ask EXCEPT ![r] = a]
  /\ Goto(r, IF IsRestricted(a) /\ mode # "Auto" THEN "blocked" ELSE "deny")
  /\ cover' = [cover EXCEPT ![r] =
                 IF Covered(a.subject, reject) THEN "always" ELSE "never"]
  /\ UNCHANGED <<mode, allow, reject, pending, chan, verdict, log, uiVars>>

\* should_auto_deny
ReadDeny(r) ==
  /\ pc[r] = "deny"
  /\ IF IsRestricted(ask[r]) /\ mode # "Auto"
     THEN Conclude(r, "AutoDenied")
     ELSE Goto(r, "mode") /\ UNCHANGED <<verdict, log>>
  /\ UNCHANGED <<policyVars, pending, ask, chan, uiVars>>

\* should_auto_approve_command up to its reads of the rules.
ReadMode(r) ==
  /\ pc[r] = "mode"
  /\ LET a == ask[r]
         goto(place) == Goto(r, place) /\ UNCHANGED <<verdict, log>>
     IN  CASE a.kind = "mcp"                      -> goto("allow")
           [] a.kind = "external"                 -> Conclude(r, None)
           [] IsCommand(a) /\ mode = "Auto"       -> goto("rejectAuto")
           [] IsCommand(a) /\ mode # "Auto"
                           /\ Eligible(a)         -> goto("rejectAsk")
           [] OTHER                               -> Conclude(r, None)
  /\ UNCHANGED <<policyVars, pending, ask, chan, uiVars>>

ReadRejectAuto(r) ==
  /\ pc[r] = "rejectAuto"
  /\ Conclude(r, IF MatchesUserReject(ask[r].subject) THEN None ELSE "AutoApproved")
  /\ UNCHANGED <<policyVars, pending, ask, chan, uiVars>>

ReadRejectAsk(r) ==
  /\ pc[r] = "rejectAsk"
  /\ IF IsCommandRejected(ask[r].subject)
     THEN Conclude(r, None)
     ELSE Goto(r, "allow") /\ UNCHANGED <<verdict, log>>
  /\ UNCHANGED <<policyVars, pending, ask, chan, uiVars>>

ReadAllow(r) ==
  /\ pc[r] = "allow"
  /\ Conclude(r, IF MatchesAllow(ask[r].subject) THEN "AutoApproved" ELSE None)
  /\ UNCHANGED <<policyVars, pending, ask, chan, uiVars>>

\* pending.insert, before the card exists.
Register(r) ==
  /\ pc[r] = "register"
  /\ pending' = pending \cup {r}
  /\ Goto(r, "announce")
  /\ UNCHANGED <<policyVars, ask, chan, verdict, log, uiVars>>

\* Mutant: no second look at the policy after registering.
AnnounceUnchecked(r) ==
  /\ pc[r] = "announce"
  /\ Emit(r, "requested")
  /\ Goto(r, "wait")
  /\ UNCHANGED <<policyVars, pending, ask, chan, verdict, uiVars>>

\* Arm the drop guard, fix the deadline, emit the card, check the policy again.
Announce(r) ==
  /\ pc[r] = "announce"
  /\ Emit(r, "requested")
  /\ Goto(r, "deny")
  /\ UNCHANGED <<policyVars, pending, ask, chan, verdict, uiVars>>

\* Mutant: the late outcome counts even if somebody else took the entry.
SettleLateAnyway(r) ==
  /\ pc[r] = "settle"
  /\ pending' = pending \ {r}
  /\ chan' = [chan EXCEPT ![r] = verdict[r]]
  /\ verdict' = [verdict EXCEPT ![r] = None]
  /\ Goto(r, "wait")
  /\ UNCHANGED <<policyVars, ask, log, uiVars>>

\* The late outcome counts only if nobody else has taken the entry.
SettleLate(r) ==
  /\ pc[r] = "settle"
  /\ pending' = pending \ {r}
  /\ chan' = [chan EXCEPT ![r] = IF r \in pending THEN verdict[r] ELSE @]
  /\ verdict' = [verdict EXCEPT ![r] = None]
  /\ Goto(r, "wait")
  /\ UNCHANGED <<policyVars, ask, log, uiVars>>

\* timeout_at polls the receiver before it looks at the deadline.  The sender
\* is never dropped unused, so the Err(_dropped) arm has no step.
Receive(r) ==
  /\ pc[r] = "wait"
  /\ chan[r] # None
  /\ verdict' = [verdict EXCEPT ![r] = chan[r]]
  /\ chan' = [chan EXCEPT ![r] = None]
  /\ Goto(r, "finish")
  /\ UNCHANGED <<policyVars, pending, ask, log, uiVars>>

\* Mutant: the elapsed branch produces no outcome.
ElapseWithoutOutcome(r) ==
  /\ pc[r] = "wait"
  /\ chan[r] = None
  /\ Goto(r, "elapsed")
  /\ UNCHANGED <<policyVars, pending, ask, chan, verdict, log, uiVars>>

\* Mutant: the receiver is awaited with no deadline.
ElapseNever(r) ==
  /\ pc[r] = "wait"
  /\ chan[r] # None
  /\ Goto(r, "elapsed")
  /\ UNCHANGED <<policyVars, pending, ask, chan, verdict, log, uiVars>>

\* The deadline passed and the poll found nothing: the receiver is still open.
Elapse(r) ==
  /\ pc[r] = "wait"
  /\ chan[r] = None
  /\ verdict' = [verdict EXCEPT ![r] = "TimedOut"]
  /\ Goto(r, "elapsed")
  /\ UNCHANGED <<policyVars, pending, ask, chan, log, uiVars>>

CloseReceiver(r) ==
  /\ pc[r] = "elapsed"
  /\ chan' = [chan EXCEPT ![r] = None]
  /\ Goto(r, "finish")
  /\ UNCHANGED <<policyVars, pending, ask, verdict, log, uiVars>>

\* Defuse the guard and remove the entry.
Finish(r) ==
  /\ pc[r] = "finish"
  /\ pending' = pending \ {r}
  /\ Goto(r, "report")
  /\ UNCHANGED <<policyVars, ask, chan, verdict, log, uiVars>>

Report(r) ==
  /\ pc[r] = "report"
  /\ Emit(r, verdict[r])
  /\ verdict' = [verdict EXCEPT ![r] = None]
  /\ Goto(r, Return(verdict[r]))
  /\ UNCHANGED <<policyVars, pending, ask, chan, uiVars>>

\* The run is cancelled while the task is suspended: the receiver goes first...
DropTask(r) ==
  /\ pc[r] = "wait"
  /\ chan' = [chan EXCEPT ![r] = None]
  /\ Goto(r, "dropping")
  /\ UNCHANGED <<policyVars, pending, ask, verdict, log, uiVars>>

\* Mutant: the guard was defused when it was created.
DropGuardDefused(r) ==
  /\ pc[r] = "dropping"
  /\ Goto(r, "dropped")
  /\ UNCHANGED <<policyVars, pending, ask, chan, verdict, log, uiVars>>

\* ... then PendingApproval::drop, which reports only an entry it removed.
DropGuard(r) ==
  /\ pc[r] = "dropping"
  /\ pending' = pending \ {r}
  /\ IF r \in pending THEN Emit(r, "Denied") ELSE UNCHANGED log
  /\ Goto(r, "dropped")
  /\ UNCHANGED <<policyVars, ask, chan, verdict, uiVars>>
-----------------------------------------------------------------------------
(* The main thread *)

Unused == uiOp = "idle"

\* ApprovalOutcome::from_decision
FromDecision(d) == IF d \in {"Approve", "AlwaysAllow"} THEN "Approved" ELSE "Denied"

\* resolve: the entry is taken first, so the first answer wins.  The card of a
\* request that is not pending any more answers nothing.
Resolve(r, d) ==
  /\ Unused
  /\ Announced(r)
  /\ r \in pending
  /\ pending' = pending \ {r}
  /\ uiOp' = "rule"
  /\ uiDecision' = d
  /\ uiSend' = {<<r, FromDecision(d)>>}
  /\ answer' = [answer EXCEPT ![r] = FromDecision(d)]
  /\ UNCHANGED <<policyVars, ask, pc, chan, verdict, log>>

\* add_reject_rule keeps no copy of a built-in pattern.
RejectPlus(p) == IF p \in BuiltIn THEN reject ELSE reject \cup {p}

\* resolve: the rule an "always" decision adds, before the task is told.
ApplyRule ==
  /\ uiOp = "rule"
  /\ \E r \in Requests, o \in Outcomes :
       /\ <<r, o>> \in uiSend
       /\ LET a == ask[r] IN
            /\ allow' = CASE uiDecision # "AlwaysAllow" -> allow
                          [] a.kind = "mcp" -> allow \cup {Exact[a.subject]}
                          [] Eligible(a) /\ ~IsCommandRejected(a.subject) ->
                               allow \cup {Canonical[a.subject], Exact[a.subject]}
                          [] OTHER -> allow
            /\ SetReject(IF uiDecision = "AlwaysDeny" /\ IsCommand(a)
                         THEN RejectPlus(Canonical[a.subject]) ELSE reject)
  /\ uiOp' = "send"
  /\ uiDecision' = None
  /\ UNCHANGED <<mode, taskVars, uiSend, answer>>

\* set_autonomy_mode: the mode is published first ...
SetMode(m) ==
  /\ Unused
  /\ mode' = m
  /\ uiOp' = "sweep"
  /\ UNCHANGED <<allow, reject, cover, taskVars, uiDecision, uiSend, answer>>

\* Mutant: the sweep approves every command.
SweepOutcomeAll(a) ==
  CASE IsRestricted(a) /\ mode # "Auto" -> "AutoDenied"
    [] mode = "Auto" /\ a.kind = "mcp" /\ MatchesAllow(a.subject) -> "AutoApproved"
    [] mode = "Auto" /\ IsCommand(a) -> "AutoApproved"
    [] OTHER -> None

\* ... then one critical section takes every entry the new mode decides.
SweepOutcome(a) ==
  CASE IsRestricted(a) /\ mode # "Auto" -> "AutoDenied"
    [] mode = "Auto" /\ a.kind = "mcp" /\ MatchesAllow(a.subject) -> "AutoApproved"
    [] mode = "Auto" /\ IsCommand(a) /\ ~MatchesUserReject(a.subject) -> "AutoApproved"
    [] OTHER -> None

Sweep ==
  /\ uiOp = "sweep"
  /\ LET settled == {r \in pending : SweepOutcome(ask[r]) # None} IN
       /\ pending' = pending \ settled
       /\ uiSend' = {<<r, SweepOutcome(ask[r])>> : r \in settled}
       /\ uiOp' = IF settled = {} THEN "idle" ELSE "send"
  /\ UNCHANGED <<policyVars, ask, pc, chan, verdict, log, uiDecision, answer>>

\* Senders are used after the lock is released; a closed receiver loses it.
Send(r, o) ==
  /\ uiOp = "send"
  /\ <<r, o>> \in uiSend
  /\ chan' = [chan EXCEPT ![r] = IF Listening(r) THEN o ELSE @]
  /\ uiSend' = uiSend \ {<<r, o>>}
  /\ uiOp' = IF uiSend' = {} THEN "idle" ELSE "send"
  /\ UNCHANGED <<policyVars, pending, ask, pc, verdict, log, uiDecision, answer>>

\* The policy editor.  Rules added here settle nothing that is already pending.
AddAllowRule(p) ==
  /\ Unused
  /\ allow' = allow \cup {p}
  /\ UNCHANGED <<mode, reject, cover, taskVars, uiVars>>

AddRejectRule(p) ==
  /\ Unused
  /\ SetReject(RejectPlus(p))
  /\ UNCHANGED <<mode, allow, taskVars, uiVars>>

RemoveRule(p) ==
  /\ Unused
  /\ allow' = allow \ {p}
  /\ SetReject(reject \ {p})
  /\ UNCHANGED <<mode, taskVars, uiVars>>

ClearRules ==
  /\ Unused
  /\ allow' = {}
  /\ SetReject({})
  /\ UNCHANGED <<mode, taskVars, uiVars>>
-----------------------------------------------------------------------------
Init ==
  /\ mode = "Ask"
  /\ allow = {}
  /\ reject = {}
  /\ pending = {}
  /\ ask = [r \in Requests |-> NoAsk]
  /\ pc = [r \in Requests |-> "idle"]
  /\ chan = [r \in Requests |-> None]
  /\ verdict = [r \in Requests |-> None]
  /\ log = [r \in Requests |-> <<>>]
  /\ uiOp = "idle"
  /\ uiDecision = None
  /\ uiSend = {}
  /\ cover = [r \in Requests |-> "never"]
  /\ answer = [r \in Requests |-> None]

\* What a live task does by itself, its deadline included.
Work(r) ==
  \/ ReadDeny(r) \/ ReadMode(r) \/ ReadRejectAuto(r) \/ ReadRejectAsk(r)
  \/ ReadAllow(r) \/ Register(r) \/ Announce(r) \/ SettleLate(r)
  \/ Receive(r) \/ Elapse(r) \/ CloseReceiver(r) \/ Finish(r) \/ Report(r)
  \/ DropGuard(r)

\* What completes a command the main thread has begun.
UiWork ==
  \/ ApplyRule
  \/ Sweep
  \/ \E r \in Requests, o \in Outcomes : Send(r, o)

Next ==
  \/ \E r \in Requests :
       \/ \E a \in Population : Submit(r, a)
       \/ Work(r)
       \/ DropTask(r)
       \/ \E d \in Decisions : Resolve(r, d)
  \/ UiWork
  \/ \E m \in Modes : SetMode(m)
  \/ \E p \in Patterns : AddAllowRule(p) \/ AddRejectRule(p) \/ RemoveRule(p)
  \/ ClearRules

\* Tokio polls a runnable task and fires its timer; the main thread finishes
\* the command it runs.  Tools, cancellations and the user owe nothing.
Fairness == (\A r \in Requests : WF_vars(Work(r))) /\ WF_vars(UiWork)

Spec == Init /\ [][Next]_vars
FairSpec == Spec /\ Fairness
-----------------------------------------------------------------------------
(* Properties *)

\* Type invariant: every place, channel, card event and rule of the broker is
\* one the source has (ApprovalOutcome, ApprovalDecision, AutonomyMode).
TypeOK ==
  /\ mode \in Modes
  /\ allow \in SUBSET Patterns
  /\ reject \in SUBSET Patterns
  /\ pending \in SUBSET Requests
  /\ ask \in [Requests -> Asks \cup {NoAsk}]
  /\ pc \in [Requests -> Places]
  /\ chan \in [Requests -> Outcomes \cup {None}]
  /\ verdict \in [Requests -> Outcomes \cup {None}]
  /\ log \in [Requests -> Seq(Outcomes \cup {"requested"})]
  /\ uiOp \in {"idle", "rule", "sweep", "send"}
  /\ uiDecision \in Decisions \cup {None}
  /\ uiSend \in SUBSET (Requests \X Outcomes)
  /\ cover \in [Requests -> {"never", "late", "always", "lost"}]
  /\ answer \in [Requests -> {"Approved", "Denied", None}]

Registered(r) == Announced(r) \/ pc[r] = "announce"
SenderInFlight(r) == \E o \in Outcomes : <<r, o>> \in uiSend

\* The one oneshot sender of a request that is still listening is in exactly
\* one place: in its pending entry, in the hands of the main thread, or used.
\* So two of resolve, the mode sweep, the late check and the drop guard never
\* both decide it, and a waiting task is never left with nobody to wake it.
EntryOwnership ==
  \A r \in Requests : Registered(r) /\ Listening(r) =>
    /\ r \in pending \/ SenderInFlight(r) \/ chan[r] # None
    /\ r \in pending => ~SenderInFlight(r) /\ chan[r] = None
    /\ SenderInFlight(r) => chan[r] = None

\* An entry belongs to a task that is still there to remove it.
NoLeakedEntry ==
  \A r \in pending : Registered(r) /\ pc[r] \notin {"report"} \cup Final

\* Every entry of the broker has one owner.  Until a request is decided, exactly one of the
\* broker, the main thread and the channel holds its sender (EntryOwnership), so no two of an
\* answer, a sweep, the late look and the guard decide it and none forgets it; and "a cancelled
\* tool must not leave an approval waiting in the broker" (NoLeakedEntry).
EntriesAreOwned == EntryOwnership /\ NoLeakedEntry

\* Auto mode runs every command (ADR 0014): once the switch has finished, the
\* only commands left waiting are those a user deny rule covers, or covered
\* until it was withdrawn.  It holds because a task checks the policy again
\* after it registered, whichever way the switch and the registration race.
NoCommandStrandedInAuto ==
  mode = "Auto" /\ Unused =>
    \A r \in pending :
      IsCommand(ask[r]) /\ pc[r] \in {"wait", "elapsed"} =>
        Covered(ask[r].subject, reject) \/ cover[r] = "lost"

\* Restricted commands are never left waiting for a click in Ask mode: the
\* switch to Ask denies those registered before it, the late check the others.
NoRestrictedWaitsInAsk ==
  mode = "Ask" /\ Unused =>
    \A r \in pending : IsRestricted(ask[r]) => pc[r] \notin {"wait", "elapsed"}

\* Whichever way a switch of the mode and a registration race, once the switch has finished no
\* command waits for an answer that the new mode would not ask for.
NothingWaitsInVain == NoCommandStrandedInAuto /\ NoRestrictedWaitsInAsk

\* A user deny rule outranks the mode: no pass over the policy and no switch
\* of the mode approves a command by itself while a rule has covered it since
\* it was asked; and an external path is never approved without the user.
AutoApprovalRespectsDenyRules ==
  \A r \in Requests : \A i \in DOMAIN log[r] :
    log[r][i] = "AutoApproved" =>
      /\ ask[r].kind # "external"
      /\ IsCommand(ask[r]) => cover[r] # "always"

\* Every request a tool makes ends: no interleaving of mode switches, answers,
\* rule edits, timeouts and cancellations leaves it suspended for ever.
RequestsSettle ==
  \A r \in Requests : (pc[r] # "idle") ~> (pc[r] \in Final)

\* The contract, with the events of each id as its card.
CardOf(events) ==
  CASE Len(events) = 0                             -> "unseen"
    [] Len(events) = 1 /\ events[1] = "requested" -> "open"
    [] Len(events) = 2 /\ events[1] = "requested" -> events[2]
    [] OTHER                                       -> "garbled"

Contract == INSTANCE ApprovalContract WITH
  card <- [r \in Requests |-> CardOf(log[r])],
  allowed <- {r \in Requests : pc[r] = "granted"}

\* The broker implements ApprovalContract: one card per request, settled once,
\* the first answer is final, and request() returns true exactly to the tools
\* whose card says so.
ImplementsContract == Contract!Spec
=============================================================================
