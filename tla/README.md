# Formal models of Gospel

Gospel is a desktop harness for coding agents: a Tauri application whose Rust
backend (`src-tauri/src`) runs language-model turns and the tools they call, and
whose TypeScript window (`src`) shows them. This directory holds TLA+ models of the
parts where the order of events decides whether the program is right, TLC
configurations that check them on small instances, and TLAPS proofs of what
matters most for instances of any size.

Paths below are relative to the repository, `B/` stands for `src-tauri/src/` and
`F/` for `src/`.

## 1. The system

Three kinds of actors share state:

* the **window**: a single-threaded JavaScript event loop that calls Tauri commands
  and receives events (`llm-token`, `llm-done`, `approval-requested`, ...);
* the **main thread** of the backend, which runs every *synchronous* Tauri command
  (`#[tauri::command] fn`) to its end before the next one;
* the **tokio workers**, which run every *asynchronous* command, the turns, the tools
  a turn calls and background jobs, interleaved at every lock and every await; one
  further thread per turn runs the agent kernel (`B/ecs_runtime.rs`).

State behind locks: the approval broker, the map of streaming runs, the conversation
store, the model cache, the MCP connections, and two SQLite databases (sessions,
configuration) each behind one mutex.

### Inventory

| Component | State | Operations | Talks to | Hard behaviour | What makes it correct |
|---|---|---|---|---|---|
| Approval broker `B/approval_broker.rs`, gate in `B/shell_tools.rs` | autonomy mode, allow and deny rules, pending entries with oneshot senders | `request`, `resolve`, `set_autonomy_mode`, rule editors, drop guard | tools call it and wait; window answers; events to the window | requests race mode switches, answers, timeouts, cancellation | one owner per sender, one settlement per card, mode and deny rules respected, nothing leaks, every request ends |
| Session turns `B/session_turn.rs`, `complete_streaming` and `StreamingRunHandles` in `B/lib.rs` | map session -> (run, abort handle); the locals of each turn | start, replace, cancel, finish, fail | session store, conversation store, agent run, window | cancellation in mid-turn, replacement, late writes | the map is exact; commands and turns exclude each other; histories lose nothing; cancelled runs end |
| Session store `B/session_store.rs` | `sessions`, `archived_sessions`, notes, policies | create, persist, fork, rename, archive, restore, delete, import, maintenance | turns and window commands | partial failure of batches, late writes | one table per session, drafts and sessions in use untouched by maintenance |
| Conversation store `B/conversation.rs` | LRU of message histories | `get_history`, `store_history` with pruning | turns, `get_session`, message actions | eviction, stale writes | the next turn continues the saved one |
| Message actions `B/session_actions.rs` | none | retry, fork | session store, conversation store | race with turns | a session in use is refused |
| Agent run `B/ecs_runtime.rs`, `B/harness_profile.rs` | call counts, loop detector, live text, outcome | model calls, tool calls, retries, controlled stop, deadline | provider, tools, turn | retries against limits, stop against completion, cancellation of a sleeping thread | one end per run, limits exact, no text twice, the thread ends |
| Chat stream `F/hooks/useChatStream.ts` | live turn per session, buffered text, run -> session map | start, events, task switch, finalize, cancel | backend events, session manager | events of several runs, late events, switching | text goes to its own session, every run finalized once |
| Session manager `F/hooks/useSessionManager.ts` | selected session, list, drafts | select, create, archive, retry | session commands | late answers | the answer shown belongs to the selection |
| Model fetch `B/models.rs`, `B/model_fetch.rs` | cache, pending notifies | `get_or_fetch` | provider | lost wake-up, dropped leader | no waiter sleeps for ever, one fetch at a time |
| MCP runtime `B/mcp_runtime.rs` | connections, per-server locks | connect, refresh, delete, tools of a turn | config store, broker | overlapping transitions, stale records | at most one connection, none for a deleted or untrusted server |
| Code review `B/review/*.rs`, its commands in `B/lib.rs` | tasks of a sweep, the results so far; records of runs, accepted and rejected findings in files | sweep over focuses, detect, validate, finalize; accept, reject | providers, tools, window events | a deadline against tasks that finish, providers that hang, outcomes recorded while a review runs | the report is true of every focus; rejected findings stay away; no outcome is lost; the sweep ends |
| Skill optimization `B/skill_opt.rs`, the skill cache in `B/skills.rs` | the skill file; the staged skill, the scores and the rejected edits in files; the cache of the skills found | optimize (edit, replay, gate, stage or record), adopt, list, reload, switch of workspace | providers, session store, turns that load the skills, panel | runs that share the name of a temporary file, half-written outcomes, a load overtaken by an adoption | nothing worse is adopted, the files say what was answered, the cache is fresh, protected text survives |
| Workspace and shell tools, config, credentials, providers, trace | files, keychain, HTTP | I/O and text processing | all | little | tested directly |

`PROJECT.json` lists every component with its status and every hazard with its line.

## 2. The plan

Order of work, most important behaviour first:

1. **ApprovalBroker** with the abstract **ApprovalContract** - consent decides what an
   agent may do to the machine. *Done; its safety and the refinement are proved.*
2. **SessionTurns** - turns, handles, store and conversations composed in one module,
   because their hazards lie between them. *Done, with proofs of the handle map, of the
   exclusion of commands, of the tables and of the histories.*
3. **ModelFetch** - single-flight cache with its pending map and notify. *Done, with
   proofs of its safety.*
4. **ChatStream** - the window side of a run: focus, buffers, run map, finalizers, and
   the session manager's selections. *Done; all four properties are proved.*
5. **AgentRun** with the abstract **RunContract** - model-call limit, retries, loop
   guards, deadline and cancellation. *Done; its safety and the
   refinement are proved.*
6. **McpRuntime** - rows, connection and secrets of a custom server under overlapping
   commands. *Done; its safety is proved.* Open: the tools a turn is given while a connection
   is replaced.
7. **ReviewSweep** with the abstract **ReviewContract** - the sweep over the focuses of a
   review, and the outcomes recorded beside it. *Done; its safety and the refinement are
   proved.*
8. **SkillOpt** - the optimization of a skill and the cache of the skills. *Done; all four
   properties are proved.*
9. Open: extensions of the session store (titles by compare and set, notes after a
   verification, batch archiving, import), the process handling of the shell tools, and
   the exact-replacement edits of the workspace tools as a pure algorithm.

Every safety invariant, action property and refinement that a passing run checks is proved as
a theorem (section 5); what a run checks alone is liveness. Theorems worth proving next belong
to the modules of item 9: that a title set by hand survives one that was generated, and that an
exact replacement changes the text it names and nothing else.

## 3. The modules

### ApprovalBroker

One request is one tokio task. `pc[r]` is where it stands: the gate and the first look
at the policy, which reads the mode and each rule list under its own lock (`Submit`,
`ReadDeny`, `ReadMode`, `ReadRejectAuto`, `ReadRejectAsk`, `ReadAllow`); the
registration (`Register`); the guard and the card (`Announce`); the second look and
what it does with the entry (`SettleLate`); the wait on the oneshot (`Receive`,
`Elapse`, `CloseReceiver`); and the end (`Finish`, `Report`). `DropTask` drops the
future at an await, and `DropGuard` is the guard that runs then. The window's commands
are the main thread's: one begins only when no other is under way (`Unused`), and each
of its critical sections is an action (`Resolve`, `ApplyRule`, `SetMode`, `Sweep`,
`Send`, the rule editors). `pending` is the map of entries, `chan[r]` what was sent on
the oneshot, `log[r]` the events the window has received about the request.

Texts are abstract: `Matching` says which rule matches which subject, `Canonical` and
`Exact` what a rule is built from. `cover[r]` and `answer[r]` are history variables:
whether a deny rule has covered the command since it was asked, and the user's first
answer.

### ApprovalContract

The broker without locks, channels and threads: a card is opened once and settled once,
the first answer is the only one that counts, nothing automatic overrides an answer, and
a tool proceeds exactly when its card says so. `ImplementsContract` maps the events of a
request to its card.

### SessionTurns

One run is one call of `complete_streaming`. The lock order of the code gives its
steps: `Invoke` registers the handle and aborts the one it replaces; `Begin`, `Select`
and `ReadHistory` are the accesses before the stream; `StreamEnds` leads to the
success path (`Persist`, `Store`) or the failure path (`Snapshot`, `FailPersist`), then
`Emit` and `Return`, which removes the handle if it is still its own. `Abortable`
notices an abort only between two polls (`AbortNoticed`); a poll under way goes on, and
everything after the stream belongs to one poll, so an aborted run can still write.

Window commands: `Cancel`, `CreateSession`, `GetSession` with `Hydrate`, `Retry` with
`RetryPersist` and `RetryStore`, `Fork`, `Archive`, `Restore`, `Delete`,
`DeleteArchived`. A command under `mutate_if_idle` holds the handle map from the look
to the end (`MapFree`). `Restart` ends the process at any point; only the rows survive.

A history is the sequence of turns it contains, so pruning (50 messages, 64 KB) drops
whole turns from the front; in the code it can cut inside a turn. `spoiled[s]` is a
history variable that records the three ways in which memory and row of a session come
apart: a run aborted with writes still to make (`late`), a row hydrated after it had
changed (`stale`), and an eviction. `TurnsAreSerial` and `FailureKeepsHistory` are about
sessions none of these has happened to; the runs below show what the first does, and the
gaps are listed as hazards.

### ModelFetch

One caller is one call of `get_or_fetch` for a cache key. `Lookup` is the fast path; the
section under the write lock of `PENDING_REQUESTS` is `Lead` (the map was empty) or
`Join` (the `Notified` future is created and registered with the Notify found there);
`Poll` and `Resume` are the wait, `FetchSucceeds` and `FetchFails` the answer of the
provider, `Clear` and `NotifyWaiters` what the leader does after it. `Expire` lets the
cached list outlive its TTL at any time. A Notify is named by the caller that made it, and
a list by the caller that fetched it. `notify_waiters` wakes what is registered and
leaves no permit for latecomers, which is why registration under the lock matters.
`begun` and `before[c]` are history variables: the fetches begun so far, and those begun
before `c` came.

A caller that forced a refresh fetches by itself after its wait, outside the map, so
several such fetches may run at once and the last to end fills the cache. The model keeps
this, and no property denies it.

### McpRuntime

One custom server. `row` is its definition with its enabled and trusted flags, `health`
its diagnostics, `secrets` its entry in `mcp-credentials.json`, `conn` its entry in
`McpRuntime::connections`. A command is a tokio task in two halves. The first edits rows
or secrets under their own lock: `Update` with `StoreSecrets`, `SetEnabled`, `SetTrusted`,
`Ask` (refresh and deletion, which edit nothing), `Logout`, `SignIn` with `SignInEnds`;
`Startup` is the background reconnect. The second half runs under the transition lock of
the server, from `Begin`, which takes it and reads the row, over `Remove` and `Cancelled`
(`disconnect`, with the await between the removal of the entry and the end of the
service), to `Skip`, or `Dial` with `Connects` or `Fails`, and `Persist`; or to
`DeleteRows` and `DeleteSecrets`. `Import` is the synchronous command that overwrites the
rows of an existing server and has no second half. `Restart` ends the process anywhere.

The store's statements are not in a transaction, so a statement after the first may fail
with the earlier ones done (`HalfRedefined`, the second disjuncts of `Persist`,
`DeleteRows` and `DeleteSecrets`); an edit whose first statement fails changes nothing and
is no step. Reads do not fail. A process that ends between two statements is such a
failure followed by `Restart`.

A definition has an `Endpoint`, what an approval is about: transport, command and URL.
Two definitions of one endpoint differ in arguments, environment or headers. The reasons
for not being connected are one value. `gaps` is a history variable: rows changed with
nobody to follow (`behind`), a report that was lost (`cut`), a half deletion (`torn`),
secrets stored or kept after the rows were gone (`late`); each property names those it
excepts. MCMcpApproval adds the history of the endpoints the user has approved.

### ChatStream

The window: one event loop, so a handler of `useChatStream.ts` or `useSessionManager.ts` is
one action up to its next await, and React's renders and effects are actions of their own
in the order React keeps (`Render` updates the options the handlers read, `Swap` is the
effect that stashes the visible turn and restores the next one). `selected`, `focused` and
`swapped` are the session as the click, the last render and the stash effect know it.
A run's events are `Token`, `ToolCall`, `Reasoning` and `ApprovalRequested` (a block each, but
for reasoning that continues one), `Result`, `Resolve`, `RetryReset`, `Done` and `Fail`;
`Frame` is the animation frame that flushes buffered text. `Send` with `Refuse` and
`Rejected` is a turn begun, and `Stop` with `Stopped` the two halves of
`cancelStreamForSession` around its await. A block is the run it came from and its number
in it; that is all the properties tell apart.

`slips` is a history variable that names how the window is known to lose or misplace
something: a click that overtakes an earlier one (`hasty`), a transcript overwritten by a
late load (`overwritten`), a live turn wiped or left by a switch to or from the draft view
(`wiped`, `leaked`, `draft`), a stop that comes back when another session is shown or another
run has been started in its own (`stopped late`), and an event between a render and its effect
(`between`). A run that ends while its stop is under way is no slip: its answer is whole, and the
notice of the stop, which comes after it, must hold nothing of it. `OwnBuffers` holds whatever happens; the other
properties speak of behaviours up to the first slip, and the run explores no further.
`wrong_session_text` shows what one of the slips does.

### AgentRun and RunContract

One call of `ecs_runtime::run`: a kernel thread with its own event loop, a channel of
events to the turn, and the future the turn polls. `at` is where the thread is in a tick:
`Check` looks at the flag, then `GateModel` and `GateTool` admit calls, `ReadDelta` forwards
text, `ReviewRetry`, `ReviewNothing` and `ReviewEnd` look at ended attempts, `SettleTool`
takes tool results, `Look` reads the outcome, and `WakeUp` sleeps on a channel of one wake.
The world is the model (`Speak`, `Reply`), the tools (`ToolEnds`) and the scheduler of the
library the runtime is built on (`BackoffEnds`, `StartTools`, `NextCall`), modelled from how
`ecs_runtime.rs` uses it. The turn is `Receive` and `Conclude`; it may be abandoned at any
time (`Abandon`: the deadline of the role, or the turn is dropped), and then
`Cancellation::drop` stores the flag and sends the wake in two steps (`SetFlag`,
`WakeKernel`). `LoopDetector` is `CountAfter`, `StreakAfter` and `Stops`.

RunContract is what the turn is promised: text grows, or is taken back to the start of an
attempt; the run ends once; at most `MaxRequests` requests are made, and at most one after
the end, by a kernel that is already past its look at the flag.

### ReviewSweep and ReviewContract

The sweep is one future, its tasks one each, and every action runs from await to await.
`Launch` announces and spawns, `Join` takes a task that has finished, `Elapse` and `TimeOut`
are the deadline, `AbortAll` and the draining follow, `Conclude` builds the report. `Drop`
is the turn that asked for the review being dropped, and the JoinSet with it. A task fetches
its diff and loads the rejected findings once (`DiffArrives`, `NothingToRead`, `DiffFails`),
asks the detector chunk by chunk (`DetectorAnswers`, `DetectorFails`; `LastAnswers` and
`LastFails` for the last), has the candidates validated (`ValidatorAnswers`,
`ValidatorFails`), and finalizes (`Finalize`): the run is written with everything found, then the
noise gate leaves out what is not actionable. A run whose writing failed is reported as not saved;
its record may be there all the same, when only the sync of the directory failed. A full scan, a diff and a review of one focus are
the same task. An aborted task may still take the step it is being polled in and is then
gone (`GoesTo`, `Reap`). Panics are caught inside the task (`Panic`), so the join error of
`multi.rs` cannot occur and is not modelled.

The commands beside it are `Reject` and `Accept`, each a file read and a file written under
`REJECTION_STORE_LOCK`, the second with two files (`SaveAcceptance`, `ClearRejection`). A
finding is a focus and an anchor. The store holds rejections of two formats: the older has
no focus and counts for security only. `told` and `kept` are history variables: what a
command last confirmed, and the rejections that have stood since the review began.
ReviewContract is the review as the receiver of its events sees it: each focus runs and
comes to one end, and the review ends once, after all of them.

### SkillOpt

One skill of one workspace. A run is one call of `optimize_skill_from_sessions`: `Start` reads
the skill and holds tasks out, `Propose` applies what the model answered (`ApplyEdits`, with the
budget, unique matches and the slow-update region), `ReplayCurrent` and `ReplayCandidate` grade
the held-out tasks, and the gate sends the run to its files. There `ReadRejected`, `OpenTemp`,
`FillTemp` and `Rename` are the steps between which another run can come, since the name of the
temporary file only holds the process id; the file of the verdict comes first, the scores second.
`fs::write` is two steps, the truncation and the contents: `handle[r]` says where the file is that
run r has open, under its temporary name, on disk once another run has renamed it, or gone. What
two runs write into one file may be a mixture (`Torn`).
`ModelFails` and `WriteFails` are the errors. `Adopt`, `Reload`, `BeginLoad`, `Switch` are
commands of the main thread, `Drop`, `Load` and `Insert` what they and the turns do to the cache,
which is unlocked between a look and an insertion. `UserEdits` is an edit of the file from
outside, `Restart` the end of the program anywhere.

A body is a sequence of tokens, and what a file of a run says is the set of runs it speaks of;
an interrupted write speaks of none. `better`, `tangled`, `last` and `excused` are history
variables: the runs that did better task by task, whether two runs met at their files, which
was there last, and whether the cache may be behind the file. Two things are set apart by name:
what runs that meet were told (`tangled`), and a turn that fills the cache with what it read
before an adoption (`excused`). `RegionIsKept` speaks of models that write no marker themselves.

## 4. The runs

| Run | Question | Bounds | Result |
|---|---|---|---|
| `approval_broker` | Is each card settled once, by one owner, and are mode switches complete, whatever the interleaving? Does the broker implement the contract? | 2 requests for the same restricted command (routine command when the gate says so), one rule text, any number of switches, answers and edits | holds |
| `approval_kinds` | Do automatic decisions respect deny rules for every kind of request, and does every request end? | 1 request of any kind and risk, 3 subjects, fair scheduling | holds |
| `session_turns` | Is the handle map exact, does it keep commands and turns apart, are histories serial, is a session in one table? | 2 sessions, 2 runs, 1 conversation in memory, 1 turn kept by pruning, 1 restart | holds |
| `turns_end` | Does a cancelled run end when the provider never answers? | 1 session, 2 runs, 1 restart, fair scheduling | holds |
| `model_fetch` | Does one caller lead, does every waiter go on, is no old list passed off as fresh? | 3 callers, each forced or not, the cache expiring at any time | holds |
| `mcp_runtime` | Is there one service at a time, are revoked or changed approvals followed, does a deleted server stay gone, are its diagnostics true? | 3 commands, the startup task, 3 definitions of 2 endpoints, any number of restarts, imports and failures | holds |
| `half_update` | `app_config.rs`: the user approved a specific binary or endpoint, not the row | 2 commands | violated: the definition is written, the revocation fails |
| `chat_stream` | Does text reach its own session and only it, is the live turn what was streamed, does every run leave one whole answer? | 2 sessions and the draft view, 2 runs, 1 stop, 2 pieces of text and 1 block of each kind per run, up to the first slip | holds |
| `wrong_session_text` | The comment on the buffers: text is never attributed to the wrong session | 2 sessions, 2 runs, 1 stop | violated: a stop reads the visible turn after its await |
| `agent_run` | Is the text shown the text said, are limits and loop guards exact, does the thread end with its turn? | 2 model calls with 1 retry each, 1 piece of text, replies of 2 tool calls, 2 calls and 1 failure reason, loop guard at 2, fair scheduling | holds |
| `review_sweep` | Is the report true of every focus, do rejected findings stay away, is every outcome kept, is the contract kept, does the sweep end? | 2 focuses, 2 anchors, no changes or 3 files in 2 chunks, any number of commands about 1 finding, 2 at a time, fair scheduling | holds |
| `skill_opt` | Is only a better skill adopted, do answers stand, is the cache fresh, does the slow-update region survive the edits? | 2 runs with 1 or 10 tasks, 3 proposals, budget 2, 1 turn that loads between the runs (`Apart`), 1 edit or restart | holds |

**Why the bounds are enough.** The races of the broker are between one request and the
main thread, and between two requests over the shared rules and mode; a third request
adds no new pair. The rule lists are sets over the texts that matter: one that matches
and, in `approval_kinds`, one that is also built in. For turns the interesting pairs are
run and run (replacement, late writes), run and command, and two sessions competing for
one slot of memory; pruning bites from the second turn on. Three callers of a fetch are two leaders in a row with one
that waits for either, or one leader with a waiter of each kind. Three commands on a server
are one that holds the lock, one that has edited the row since and one that waits behind
it; the startup task is a fourth. The order in which they get the lock is left open,
although tokio's mutex is first come, first served.
In ChatStream two sessions and a draft view are every pair of outgoing and incoming view;
two runs are one per session or two in a row of one. In AgentRun the second model call sees
what the first left, one retry is the step from an attempt to the next, and a loop guard at 2
is the least that counts. In ReviewSweep two focuses are one that ends and one that does not,
two anchors one worth acting on and one of noise, so that the gate at 40 percent
stops the noise alone and lets both pass together; the store starts with one rejection of each
format, and two commands take turns at the files as often as they like, the second starting
while the first is still there.
In SkillOpt two runs are what can meet at a file; one task gives nothing to hold out and ten give
two, so that the gate has a pair that counts and one that does not; the proposals are refused for
each of the reasons of `apply_one_edit` in one of the two bodies, and two edits are the least
budget of which an edit uses up a part for the next. One event from outside, an edit or a restart,
is what falls between two steps. The files do not depend on the cache, nor the cache on a run under
way, only on adoption: the main thread adopts, drops and loads at any time, and the turn, which need only
meet an adoption, loads while no run is under way (`Apart`, a constraint of the run).
Deadlock is not checked for SessionTurns because there the run ids are finite and every
session can be deleted for good, nor for ModelFetch and McpRuntime, whose callers all end, nor for
ChatStream, AgentRun and ReviewSweep, which come to an end too; the broker and SkillOpt are
checked for it.

**Fairness.** Tokio polls a runnable task again and the main thread finishes a command it
has begun: weak fairness on the steps of a request, of a run and of a command under way.
A pending deadline elapses, since `timeout_at` bounds every wait on a card. A run that
ends waits for the handle map, which the window takes only now and then: strong fairness
on `Return`. Nothing is assumed of the user, nor of the provider: `StreamEnds` has no
fairness, so `AbortedRunsEnd` holds with a provider that stays silent; in ModelFetch the
two outcomes of a fetch have none either, and `WaitersGoOn` speaks of the time after it.
In AgentRun the kernel thread and the future of the turn
go on and the deadline passes; the model and the tools may hang, and `RunEnds` still holds.
ReviewSweep assumes that the sweep is polled, its deadline passes and an aborted task is
dropped, and nothing of the tasks: `SweepEnds` holds with providers that never answer.
McpRuntime states no liveness: a connect is bounded by `CONNECT_TIMEOUT` and a sign-in by
its own, but `disconnect` waits for the end of the old service without one, under the
transition lock, so that every later command on the server rests on the MCP library there.

**Known divergences without a run.** Six more disagreements between code and documents came
up while modelling; the modules contain each of them, and the properties set it apart by name.
Always deny on a command whose canonical pattern is built in saves no rule, although ADR 0014
says such a rule outranks Auto mode (`AddRejectRule`). A card answered just before its run is
cancelled is never reported as resolved (`DropGuard`). A cancelled turn in its last poll can
still write the session a retry has truncated, although CONTEXT.md says message actions refuse
a session in use (`late` in SessionTurns). An import that overwrites a connected server revokes
its approval and leaves the connection (`behind` in McpRuntime). A turn starts from the
conversation in memory, which is pruned, and replaces the saved history with it, although ADR 0005
has the model history store the full conversation state (`Prune` in SessionTurns). An edit that
inserts a pair of markers in front of the slow-update region takes its protection away from the
next edit, although ADR 0011 says that edits cannot overwrite it (`Region` in SkillOpt).

**What the properties leave out.** Some ways of going wrong are in the models, no document
forbids them, and the property next to them excepts them by name, so that nothing here covers them.
`TurnsAreSerial` is about histories as pruning leaves them, and excepts sessions that were hydrated
from a row that had changed meanwhile, or were evicted from memory (`spoiled`).
`CacheIsFresh` says that every way of changing the skill drops the cache after the change; it
excepts the turn that read the directory before an adoption and fills the cache after it
(`excused`). `OneWholeAnswer` excepts a message sent, or a session selected, while a stop is under
way (`stopped late`). `RegionIsKept` is checked and proved for proposals that write no marker.

Every property of a passing run has a mutant in `PROJECT.json`: a plausible slip in the
modelled code (a dropped look, a guard kept armed, an insert for an update) under which
the same run finds the property violated.

## 5. The proofs

The assumptions are those the modules declare about their constants; the proofs hold for
any number of requests, sessions and runs.

**ApprovalBrokerProofs.** `TypeCorrect` proves `TypeOK` through `IInvType`, which adds
`Stages`: where a task stands determines how many events its card has had and whether it
has an outcome; without it, an event log of two entries could grow a third and the
decision could be read before there is one. `OwnershipHolds` proves `EntriesAreOwned`; it
needs `Started` (only requests that were made have entries or senders) and that a sender
in the hands of the main thread has no entry. `NothingStranded` proves `NothingWaitsInVain`,
that after a switch has finished no request is left in the wrong mode: the inductive invariant says of
each registered task that it either still has its second look before it or has settled
under the mode that holds now, with the requests a sweep under way will still decide
set apart. `DenyRulesHold` (`AutoApprovalRespectsDenyRules`) follows an automatic approval back
to the read of the rules that permitted it (`Vetted`): a command that a deny rule has covered
all along cannot get past that read, neither on the way to its decision nor from a switch of
the mode, whose answer is on its way to the task. `KeepsContract` proves that the broker
implements ApprovalContract, step by step. Beside the ownership of senders it needs `Faithful`:
a request that still has its entry has no answer, and what is in its channel, in the hands of
the main thread or read by the task is something the user's answer permits.

**SessionTurnsProofs.** `IInvHandles` joins the types of the handle map and the places with
`Unborn`: a run not yet called has no session and was never aborted, which is what makes a
new handle distinct from every old one. From it follow `HandlesExact` and, with
`MutationsSeeNoHandle` (only commands that looked at the map remove a row or begin a
retry), `MutationsGuarded`. `IInvTables` proves `OneTable`: a turn updates rows and never
inserts them. `TurnsSerial` (`TurnsAreSerial`) and `FailureKeeps` (`FailureKeepsHistory`) rest on
`IInvHistory`. Of a session that nothing has spoiled it says what its memory holds, the row, pruned,
unless a turn or a retry has saved and is about to store (`MemHolds`), and what each of its turns
holds in each place (`TurnHolds`): one that may still write was not aborted, and what it was
started from is the row of this moment. That needs the handle map, since a second turn would
move the row, and `Known`, that only sessions the window has opened are worked on. The list of
recently used sessions decides who is evicted; what `touch` does to it (`Recent`) has lemmas of its own.

**ModelFetchProofs.** `OneLeader` (`SingleLeader`) is inductive once the state is typed.
`NobodySleeps` (`NoLostWakeup`) rests on it: at the moment a caller joins, the entry it
finds belongs to a caller that still leads, and that one leaves its duties only by
clearing the map and then waking all that registered with it. `FlightIsShared` joins the two
to `OneFlight`. `FreshIsFresh` needs
`OwnLists`: before a caller is through it has been given nothing, and one that forced a
refresh is only ever given its own list.

**McpRuntimeProofs.** `TypeCorrect` carries `Reports`, what a task has in hand in each
place. `LockHeld` says that one task at most is past `Begin`; it is inductive by itself.
`Replacing` adds that the old connection is gone from its removal to the new one, and
that the row of a connecting task stays, since only a deletion under the same lock
removes it: together they give `SingleService` (`OneService`) and `DeletionHolds`
(`DeletedIsGone`). `ApprovalIsFollowed` (`UnapprovedGoes`) needs `Current`: the row a
connecting task works with is the row in the store, or a task that changed it since is
still before the lock. It is what "read after acquiring the lock" in `connect_and_report`
buys. `RestIsClean` (`NothingIsLeft`) is about a state with nothing under way, so its
invariant says what each task still owes: while the diagnostics disagree with the connection
some task is before its report (`Diagnosed`), and while secrets outlive their rows some task is
before `DeleteSecrets` (`Forgotten`).

**ChatStreamProofs.** `RoutingHolds` proves the inductive invariant behind `BuffersAreOwn`
(`OwnBuffers`): the places of runs, sessions and buffers are typed; a stop under way names the
session of its run (`StopsKnow`), so that it clears that session's buffer and no other;
buffered text belongs to a live run of its session; and it has a frame. Most handlers do the
same thing to the buffers, empty those of some sessions, and one lemma (`ClearingStep`) covers
them; `SendStep`, `TokenStep`, `StoppedStep` and `EndSteps` are the ones with more to say,
because there a run is born, speaks or is forgotten. The other three speak of the time before
the first slip, and share `StreamInv`. Of the runs (`RunsHold`) it says that the pieces of text are
numbered as they were streamed and that a session has one live run at most; of the turns
(`TurnsHold`) that what a session shows, followed by what waits in its buffer, is what that
run streamed, wherever the turn is kept: on the screen, or stashed while another session is
shown. From these follow `TurnsAreTrue` (`LiveTurnsAreTrue`) and
`GhostsAreGone` (`NoGhostTurns`). `AnswersAreWhole` (`OneWholeAnswer`) adds `AnswersHold`, that a
run gets its answer in the step in which it ends and in no other; the notice of a stop that found
its run ended holds nothing (`Due`). What `extend` makes of a turn, and
that appending in two parts is appending at once, are lemmas about sequences.

**AgentRunProofs.** `TypeCorrect` rests on where an attempt began (`start` within the text) and
on counters within the limits. `LimitsOfRun` (`LimitsHold`) adds that an attempt under way is
the last of the list and has been counted. `TextReceived` (`TextIsTrue`) carries, beside the
property, which part of the text belongs to the attempt under way, so that a reset takes back
exactly that; the channel is described by its last reset. `CancellationHeard` says that a
kernel past its look at the flag has a wake waiting or coming once the flag is set, which is
why it cannot sleep through its cancellation. `LoopsAreStopped` (`LoopsStop`) relates the
counters of the loop guard to the calls and results themselves: the last `repeats` calls are equal
and the one before them is not (`CallsTracked`), and the same of failures, where a success
ends the row (`FailuresTracked`). `KeepsContract` proves that the run implements RunContract.
Its invariant has the texts that whoever receives the events in the channel would see in turn
(`ViewsFollow`), so that each of them extends the one before or takes it back to its front; that
the requests fit into the calls counted (`RequestsFit`); and that an abandoned kernel which
sent a last request meets the flag before the next (`LateIsLast`).

**ReviewSweepProofs.** `RejectedHolds` needs that what a task loaded covers the rejections that
have stood since (`kept` only shrinks), and that candidates were filtered with it.
`OutcomesHold` needs the lock: one command at a time is between its read and its write, and
what it has read is what the file still holds. `KeepsContract` shows that every step of the
sweep maps to a step of ReviewContract or leaves its variables, from an invariant that the
focuses left are those still running and that a task ends before it is joined. `ChunksAreTheFiles` is
about `chunk_files` alone: for any list of files, the chunks are the list cut into pieces, each within
the limits or a single file that is too long, and each closed because the next file would have left
them. It is shown file by file, from the values the fold has for the first m files.
`ReportsAreTrue` (`ReportIsTrue`) has an invariant of the sweep, in which every focus is in one
of three sets and the totals are those of the results joined (`Tallied`),
and one of the tasks, in which a result shows what its record leaves to see (`Recorded`). A
total over a set is the number of elements of a disjoint union (`Count`), so that joining
one more result adds its share by a theorem about cardinalities; that a fold computes
this number is proved for finite sets by taking a smallest set for which it does not.

**SkillOptProofs.** `AnswersHold` (`AnswersStand`) follows a run through its files: alone there
(`Alone`), it has in the temporary file what it means to write, has read all that is on record
before it adds to it, and has the file of its verdict on disk before it turns to the scores
(`AtItsFiles`). `Quiet` covers every step away from the files. `CacheStaysFresh` (`CacheIsFresh`)
needs that what the main thread is about to insert is what the file says. The proofs carry no
types but which functions there are (`Shape`). `BetterHolds` (`OnlyBetterIsAdopted`) carries a run
from the gate to the skill: what is staged, or about to be, is of a run that did better
(`StagedBetter`), or torn by two runs that met at the temporary file. Both use `FilesInv`: a run
that is writing has an empty file in hand under its temporary name, or was not alone. That the gate compares sums of
scores the way the property compares tasks is arithmetic over the tasks both replays graded
(`Count`, `Diff`). `RegionKept` (`RegionIsKept`) is the proof of `apply_edits`: an edit
is a splice (`PatchIsSplice`), one that does not overlap the region moves it or leaves it
(`RegionMoves`), and so do all the edits within the budget, one after the other (`FoldKeeps`).
Its hypothesis is `NoMarkers`, that no proposal writes a marker, which the
property needs (see the divergences above) and the instance of `skill_opt` meets.

**Finite data.** The theorems about sums, about the chunks of a list and about a list of edits
need an induction over sets or sequences. The library's induction rules take an operator as
their parameter, which the provers cannot instantiate; the proofs look at a smallest
counterexample instead (`SmallestSubset`, `SmallestNumber`). So the recursive function behind
a fold exists (`FoldExists`), and any two that meet its equation agree (`FoldsAgree`), which is
all the proofs use of a fold.

**Only model-checked.** Liveness (`RequestsSettle`, `AbortedRunsEnd`, `WaitersGoOn`, `RunEnds`, `SweepEnds`) and
anything with ENABLED is outside the prover's reach. What liveness rests on is proved where it is
safety: `NoLostWakeup` for the waiters of a fetch, `CancelIsHeard` for the kernel. The runs
with a violation have nothing to prove. The type invariant of ModelFetch is only proved.

## 6. What is not modelled

Text processing (the command classifier, canonical patterns, prompt preparation,
transcripts, the parsing of diffs and of the answers of a reviewer), provider and keychain
I/O, file tools, the discovery and ranking of skills, the tiers and metrics of a review and the trace: they keep no shared
state whose order matters, and the repository tests them directly. Much of the repository is
of this kind, or is tests, which are a good third of the Rust sources. The
components of the plan that are still open are listed in section 2 and, line by line,
under the hazards of `PROJECT.json` that carry a note instead of a property.

Two abstractions a reader should know. First, an edit of two rule lists by one command
(`remove_rule`, `clear_rules`) is one action, since a task reads at most one of the
lists after the other. Second, a history counts turns, not messages, and the retry of a
failed turn, which the saved history never received, is the retry that keeps all of it.
