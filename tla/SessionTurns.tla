---------------------------- MODULE SessionTurns ----------------------------
(***************************************************************************)
(* Session turns in the backend: the streaming commands and their abort    *)
(* handles (StreamingRunHandles, complete_streaming in lib.rs), the turn   *)
(* they run (run_streaming_turn in session_turn.rs), the saved sessions    *)
(* (session_store.rs), the in-memory conversations the next turn starts    *)
(* from (conversation.rs), and the window's commands that read or change a *)
(* session meanwhile.                                                      *)
(*                                                                         *)
(* A turn is a task on a tokio worker.  It takes the handle map, the       *)
(* SQLite connection and the conversation store one after the other, so    *)
(* every access is an action.  The window's commands are synchronous and   *)
(* run one at a time on the main thread; one that takes several locks is   *)
(* several actions.  A history is the sequence of the turns it holds, so   *)
(* pruning, which counts messages and bytes, drops whole turns here; the   *)
(* workspace binding and the credentials only decide whether a turn is     *)
(* refused.                                                                *)
(***************************************************************************)
EXTENDS Naturals, Sequences, SequencesExt

CONSTANTS
  Sessions,          \* session ids (UUIDs, never reused)
  Runs,              \* run ids (UUIDs), one per complete_streaming call
  None,
  Keep,              \* turns prune_history_for_storage leaves
  MaxConversations,  \* conversations kept in memory
  MaxRestarts        \* bound: how often the application is restarted

ASSUME TurnsAssumption ==
  /\ None \notin Sessions \cup Runs
  /\ Keep \in Nat \ {0}
  /\ MaxConversations \in Nat \ {0}
  /\ MaxRestarts \in Nat

VARIABLES
  live,      \* sessions: "none", "draft" or "active" for each id
  archived,  \* archived_sessions
  fresh,     \* ids not handed out yet
  saved,     \* model_history of each row, live or archived
  cached,    \* ConversationStore::conversations
  order,     \* ConversationStore::access_order
  handles,   \* StreamingRunHandles: the run registered for each session
  aborted,   \* runs whose AbortHandle was used
  pc,        \* where each run stands
  sess,      \* the session of each run
  base,      \* the history a run read and will extend or put back
  ui,        \* the command the main thread has begun
  restarts,
  opened,    \* history: sessions the window has opened since the start
  spoiled    \* history: what has put the memory of a session out of step

rowVars == <<live, archived, fresh, saved>>
memVars == <<cached, order>>
runVars == <<handles, aborted, pc, sess, base>>
winVars == <<ui, restarts, opened>>
vars == <<rowVars, memVars, runVars, winVars, spoiled>>

Writing == {"persist", "store", "snapshot", "failPersist"}
Ending == Writing \cup {"done", "error"}
Live == {"begin", "select", "read", "llm", "return"} \cup Ending
Places == {"idle", "returned", "lost"} \cup Live

InFlight(r) == pc[r] \in Live
Exists(s) == live[s] # "none"

Idle == [op |-> "idle", session |-> None, history |-> <<>>]
Busy(op, s, h) == [op |-> op, session |-> s, history |-> h]
Unused == ui = Idle

\* mutate_if_idle holds the handle map for the whole of a message action.
MapFree == ui.op \notin {"retry", "retryStore"}

Goto(r, place) == pc' = [pc EXCEPT ![r] = place]
Mark(s, causes) == [spoiled EXCEPT ![s] = @ \cup causes]
-----------------------------------------------------------------------------
(* ConversationStore *)

Prune(h) == IF Len(h) > Keep THEN SubSeq(h, Len(h) - Keep + 1, Len(h)) ELSE h

Cached(s) == s \in Range(order)
\* s leaves its place in an access order and becomes the most recent.
Recent(places, s) == Append(RemoveFirst(places, s), s)
Touch(s) == Recent(order, s)

\* The session store_history drops to make room for s.
Evicted(s) ==
  IF ~Cached(s) /\ Len(order) >= MaxConversations THEN {Head(order)} ELSE {}

\* store_history
StoreHistory(s, h) ==
  /\ order' = Recent(IF Evicted(s) = {} THEN order ELSE Tail(order), s)
  /\ cached' = [t \in Sessions |-> IF t = s THEN Prune(h)
                                   ELSE IF t \in Evicted(s) THEN <<>> ELSE cached[t]]

\* How a write to the conversation store leaves the sessions: the one evicted,
\* and s itself when what is stored is not what is saved.
SpoiledBy(s, causes) ==
  [t \in Sessions |-> spoiled[t] \cup (IF t \in Evicted(s) THEN {"evicted"} ELSE {})
                                 \cup (IF t = s THEN causes ELSE {})]

Stale(s, h) == IF h # saved[s] THEN {"stale"} ELSE {}

\* A run aborted where it still has writes to make, which nothing stops.
Late(s) == IF handles[s] # None /\ pc[handles[s]] \in Writing THEN {"late"} ELSE {}
-----------------------------------------------------------------------------
(* A streaming turn *)

\* complete_streaming registers its handle and aborts the one it replaces.
Invoke(r, s) ==
  /\ pc[r] = "idle"
  /\ s \in opened
  /\ MapFree
  /\ handles' = [handles EXCEPT ![s] = r]
  /\ aborted' = aborted \cup ({handles[s]} \ {None})
  /\ sess' = [sess EXCEPT ![r] = s]
  /\ Goto(r, "begin")
  /\ spoiled' = Mark(s, Late(s))
  /\ UNCHANGED <<rowVars, memVars, base, winVars>>

\* The first poll: credentials, then validate_workspace_binding.
Begin(r) ==
  /\ pc[r] = "begin"
  /\ r \notin aborted
  /\ \/ Exists(sess[r]) /\ Goto(r, "select")
     \/ Goto(r, "return")
  /\ UNCHANGED <<rowVars, memVars, handles, aborted, sess, base, winVars, spoiled>>

\* update_model_selection
Select(r) ==
  /\ pc[r] = "select"
  /\ Goto(r, IF Exists(sess[r]) THEN "read" ELSE "return")
  /\ UNCHANGED <<rowVars, memVars, handles, aborted, sess, base, winVars, spoiled>>

\* chat_history
ReadHistory(r) ==
  /\ pc[r] = "read"
  /\ LET s == sess[r] IN
       /\ base' = [base EXCEPT ![r] = IF Cached(s) THEN cached[s] ELSE <<>>]
       /\ order' = IF Cached(s) THEN Touch(s) ELSE order
  /\ Goto(r, "llm")
  /\ UNCHANGED <<rowVars, cached, handles, aborted, sess, winVars, spoiled>>

\* The stream ends.  A poll under way finishes even if the run was aborted
\* meanwhile, and everything after the stream belongs to that poll.
StreamEnds(r) ==
  /\ pc[r] = "llm"
  /\ \/ Goto(r, "persist")
     \/ Goto(r, "snapshot")
  /\ spoiled' = Mark(sess[r], IF r \in aborted THEN {"late"} ELSE {})
  /\ UNCHANGED <<rowVars, memVars, handles, aborted, sess, base, winVars>>

\* Mutant: aborting is not noticed once the stream has begun.
AbortNoticedAtStart(r) ==
  /\ pc[r] = "begin"
  /\ r \in aborted
  /\ Goto(r, "return")
  /\ UNCHANGED <<rowVars, memVars, handles, aborted, sess, base, winVars, spoiled>>

\* Abortable notices the abort between two polls.
AbortNoticed(r) ==
  /\ pc[r] \in {"begin", "llm"}
  /\ r \in aborted
  /\ Goto(r, "return")
  /\ UNCHANGED <<rowVars, memVars, handles, aborted, sess, base, winVars, spoiled>>

\* Mutant: persist_turn inserts the row when there is none.
PersistUpsert(r) ==
  /\ pc[r] = "persist"
  /\ LET s == sess[r] IN
       /\ saved' = [saved EXCEPT ![s] = Append(base[r], r)]
       /\ live' = [live EXCEPT ![s] = "active"]
  /\ Goto(r, "store")
  /\ UNCHANGED <<archived, fresh, memVars, handles, aborted, sess, base, winVars, spoiled>>

\* persist_turn after a success: UPDATE finds the row or the turn is not saved.
Persist(r) ==
  /\ pc[r] = "persist"
  /\ LET s == sess[r] IN
       IF Exists(s)
       THEN /\ saved' = [saved EXCEPT ![s] = Append(base[r], r)]
            /\ live' = [live EXCEPT ![s] = "active"]
            /\ Goto(r, "store")
       ELSE Goto(r, "done") /\ UNCHANGED <<saved, live>>
  /\ UNCHANGED <<archived, fresh, memVars, handles, aborted, sess, base, winVars, spoiled>>

\* update_status, which finds the status persist_turn left, and store_history.
Store(r) ==
  /\ pc[r] = "store"
  /\ LET s == sess[r] IN
       /\ StoreHistory(s, Append(base[r], r))
       /\ spoiled' = SpoiledBy(s, {})
  /\ Goto(r, "done")
  /\ UNCHANGED <<rowVars, handles, aborted, sess, base, winVars>>

\* failure_snapshot
Snapshot(r) ==
  /\ pc[r] = "snapshot"
  /\ IF Exists(sess[r])
     THEN /\ base' = [base EXCEPT ![r] = saved[sess[r]]]
          /\ Goto(r, "failPersist")
     ELSE Goto(r, "error") /\ UNCHANGED base
  /\ UNCHANGED <<rowVars, memVars, handles, aborted, sess, winVars, spoiled>>

\* Mutant: a failed turn saves the history it was started with.
FailPersistPartial(r) ==
  /\ pc[r] = "failPersist"
  /\ LET s == sess[r] IN
       IF Exists(s)
       THEN /\ saved' = [saved EXCEPT ![s] = Append(base[r], r)]
            /\ live' = [live EXCEPT ![s] = "active"]
       ELSE UNCHANGED <<saved, live>>
  /\ Goto(r, "error")
  /\ UNCHANGED <<archived, fresh, memVars, handles, aborted, sess, base, winVars, spoiled>>

\* persist_turn after a failure puts the snapshot of the history back.
FailPersist(r) ==
  /\ pc[r] = "failPersist"
  /\ LET s == sess[r] IN
       IF Exists(s)
       THEN /\ saved' = [saved EXCEPT ![s] = base[r]]
            /\ live' = [live EXCEPT ![s] = "active"]
       ELSE UNCHANGED <<saved, live>>
  /\ Goto(r, "error")
  /\ UNCHANGED <<archived, fresh, memVars, handles, aborted, sess, base, winVars, spoiled>>

\* emit_done or emit_error
Emit(r) ==
  /\ pc[r] \in {"done", "error"}
  /\ Goto(r, "return")
  /\ UNCHANGED <<rowVars, memVars, handles, aborted, sess, base, winVars, spoiled>>

\* Mutant: the handle of the session goes, whoever it belongs to.
ReturnRemovingAny(r) ==
  /\ pc[r] = "return"
  /\ MapFree
  /\ handles' = [handles EXCEPT ![sess[r]] = None]
  /\ base' = [base EXCEPT ![r] = <<>>]
  /\ Goto(r, "returned")
  /\ UNCHANGED <<rowVars, memVars, aborted, sess, winVars, spoiled>>

\* remove_if_run_matches; the locals of the turn are gone.
Return(r) ==
  /\ pc[r] = "return"
  /\ MapFree
  /\ handles' = IF handles[sess[r]] = r THEN [handles EXCEPT ![sess[r]] = None] ELSE handles
  /\ base' = [base EXCEPT ![r] = <<>>]
  /\ Goto(r, "returned")
  /\ UNCHANGED <<rowVars, memVars, aborted, sess, winVars, spoiled>>
-----------------------------------------------------------------------------
(* The window's commands *)

\* cancel_streaming
Cancel(s) ==
  /\ Unused
  /\ handles[s] # None
  /\ aborted' = aborted \cup {handles[s]}
  /\ handles' = [handles EXCEPT ![s] = None]
  /\ spoiled' = Mark(s, Late(s))
  /\ UNCHANGED <<rowVars, memVars, pc, sess, base, winVars>>

CreateSession(s) ==
  /\ Unused
  /\ s \in fresh
  /\ fresh' = fresh \ {s}
  /\ live' = [live EXCEPT ![s] = "draft"]
  /\ opened' = opened \cup {s}
  /\ UNCHANGED <<archived, saved, memVars, runVars, ui, restarts, spoiled>>

\* get_session reads the row ...
GetSession(s) ==
  /\ Unused
  /\ Exists(s)
  /\ IF saved[s] = <<>>
     THEN opened' = opened \cup {s} /\ UNCHANGED ui
     ELSE ui' = Busy("hydrate", s, saved[s]) /\ UNCHANGED opened
  /\ UNCHANGED <<rowVars, memVars, runVars, restarts, spoiled>>

\* ... and then hydrates the conversation store, whatever happened in between.
Hydrate ==
  /\ ui.op = "hydrate"
  /\ StoreHistory(ui.session, ui.history)
  /\ spoiled' = SpoiledBy(ui.session, Stale(ui.session, ui.history))
  /\ opened' = opened \cup {ui.session}
  /\ ui' = Idle
  /\ UNCHANGED <<rowVars, runVars, restarts>>

\* Mutant: a retry does not ask whether a turn is in flight.
RetryUnguarded(s, n) ==
  /\ Unused
  /\ Exists(s)
  /\ n <= Len(saved[s])
  /\ ui' = Busy("retry", s, SubSeq(saved[s], 1, n))
  /\ UNCHANGED <<rowVars, memVars, runVars, restarts, opened, spoiled>>

\* run_session_message_action, retry: the history before turn n + 1, which is
\* all of it when that turn failed ...
Retry(s, n) ==
  /\ Unused
  /\ handles[s] = None
  /\ Exists(s)
  /\ n <= Len(saved[s])
  /\ ui' = Busy("retry", s, SubSeq(saved[s], 1, n))
  /\ UNCHANGED <<rowVars, memVars, runVars, restarts, opened, spoiled>>

\* ... is saved ...
RetryPersist ==
  /\ ui.op = "retry"
  /\ LET s == ui.session IN
       IF Exists(s)
       THEN /\ saved' = [saved EXCEPT ![s] = ui.history]
            /\ live' = [live EXCEPT ![s] = "active"]
            /\ ui' = Busy("retryStore", s, ui.history)
       ELSE ui' = Idle /\ UNCHANGED <<saved, live>>
  /\ UNCHANGED <<archived, fresh, memVars, runVars, restarts, opened, spoiled>>

\* Mutant: memory keeps the history from before the retry.
RetryStoreForgotten ==
  /\ ui.op = "retryStore"
  /\ ui' = Idle
  /\ UNCHANGED <<rowVars, memVars, runVars, restarts, opened, spoiled>>

\* ... and stored in memory.
RetryStore ==
  /\ ui.op = "retryStore"
  /\ StoreHistory(ui.session, ui.history)
  /\ spoiled' = SpoiledBy(ui.session, Stale(ui.session, ui.history))
  /\ ui' = Idle
  /\ UNCHANGED <<rowVars, runVars, restarts, opened>>

\* run_session_message_action, fork.  Nobody else knows the new id yet.
Fork(s, n, t) ==
  /\ Unused
  /\ handles[s] = None
  /\ Exists(s)
  /\ n \in 1 .. Len(saved[s])
  /\ t \in fresh
  /\ fresh' = fresh \ {t}
  /\ live' = [live EXCEPT ![t] = "active"]
  /\ saved' = [saved EXCEPT ![t] = SubSeq(saved[s], 1, n)]
  /\ StoreHistory(t, saved'[t])
  /\ spoiled' = SpoiledBy(t, {})
  /\ opened' = opened \cup {t}
  /\ UNCHANGED <<archived, runVars, ui, restarts>>

\* archive_session, by hand or by age: one transaction, refused for drafts and
\* while a turn holds a handle.
Archive(s) ==
  /\ Unused
  /\ handles[s] = None
  /\ live[s] = "active"
  /\ s \notin archived
  /\ archived' = archived \cup {s}
  /\ live' = [live EXCEPT ![s] = "none"]
  /\ UNCHANGED <<fresh, saved, memVars, runVars, winVars, spoiled>>

Restore(s) ==
  /\ Unused
  /\ s \in archived
  /\ ~Exists(s)
  /\ archived' = archived \ {s}
  /\ live' = [live EXCEPT ![s] = "active"]
  /\ UNCHANGED <<fresh, saved, memVars, runVars, winVars, spoiled>>

\* delete_session_cmd, and clean_stale_drafts for a draft with no messages.
Delete(s) ==
  /\ Unused
  /\ handles[s] = None
  /\ Exists(s)
  /\ live' = [live EXCEPT ![s] = "none"]
  /\ UNCHANGED <<archived, fresh, saved, memVars, runVars, winVars, spoiled>>

DeleteArchived(s) ==
  /\ Unused
  /\ s \in archived
  /\ archived' = archived \ {s}
  /\ UNCHANGED <<live, fresh, saved, memVars, runVars, winVars, spoiled>>

\* The process ends at any point and starts again: only SQLite survives.
Restart ==
  /\ restarts < MaxRestarts
  /\ restarts' = restarts + 1
  /\ pc' = [r \in Runs |-> IF InFlight(r) THEN "lost" ELSE pc[r]]
  /\ handles' = [s \in Sessions |-> None]
  /\ cached' = [s \in Sessions |-> <<>>]
  /\ order' = <<>>
  /\ base' = [r \in Runs |-> <<>>]
  /\ ui' = Idle
  /\ opened' = {}
  /\ spoiled' = [s \in Sessions |-> {}]
  /\ UNCHANGED <<rowVars, aborted, sess>>
-----------------------------------------------------------------------------
Init ==
  /\ live = [s \in Sessions |-> "none"]
  /\ archived = {}
  /\ fresh = Sessions
  /\ saved = [s \in Sessions |-> <<>>]
  /\ cached = [s \in Sessions |-> <<>>]
  /\ order = <<>>
  /\ handles = [s \in Sessions |-> None]
  /\ aborted = {}
  /\ pc = [r \in Runs |-> "idle"]
  /\ sess = [r \in Runs |-> None]
  /\ base = [r \in Runs |-> <<>>]
  /\ ui = Idle
  /\ restarts = 0
  /\ opened = {}
  /\ spoiled = [s \in Sessions |-> {}]

\* What a run does without waiting for the provider.
Work(r) ==
  \/ Begin(r) \/ Select(r) \/ ReadHistory(r) \/ AbortNoticed(r) \/ Persist(r)
  \/ Store(r) \/ Snapshot(r) \/ FailPersist(r) \/ Emit(r)

Command(s) ==
  \/ Cancel(s) \/ CreateSession(s) \/ GetSession(s)
  \/ Archive(s) \/ Restore(s) \/ Delete(s) \/ DeleteArchived(s)
  \/ \E n \in 0 .. Len(saved[s]) :
       Retry(s, n) \/ \E t \in Sessions : Fork(s, n, t)

CommandEnds == Hydrate \/ RetryPersist \/ RetryStore

Next ==
  \/ \E r \in Runs :
       \/ \E s \in Sessions : Invoke(r, s)
       \/ Work(r)
       \/ StreamEnds(r)
       \/ Return(r)
  \/ \E s \in Sessions : Command(s)
  \/ CommandEnds
  \/ Restart

\* Tokio polls a runnable task and the main thread finishes its command; a run
\* that waits for the handle map gets it, for the window leaves it free nearly
\* always.  The provider may stream for ever.
Fairness ==
  /\ \A r \in Runs : WF_vars(Work(r)) /\ SF_vars(Return(r))
  /\ WF_vars(CommandEnds)

Spec == Init /\ [][Next]_vars
FairSpec == Spec /\ Fairness
-----------------------------------------------------------------------------
(* Properties *)

\* The handle map is exact: it names, for each session, the one run in flight
\* that was neither cancelled nor replaced.  A handle left behind would lock
\* the session against archiving for ever; one removed by the wrong run would
\* open it to archiving in the middle of a turn.
HandlesTrackRuns ==
  \A s \in Sessions, r \in Runs :
    handles[s] = r <=> sess[r] = s /\ InFlight(r) /\ r \notin aborted

\* The row of s goes away, or a retry begins to truncate it.
Mutates(s) ==
  \/ Exists(s) /\ ~Exists(s)'
  \/ ui.op = "idle" /\ ui'.op = "retry" /\ ui'.session = s

\* A turn that nobody aborted has its session to itself: no command truncates,
\* archives or deletes the row under it (StreamingRunHandles::mutate_if_idle).
GuardedMutations ==
  [][\A s \in Sessions :
       Mutates(s) => \A r \in Runs : sess[r] = s /\ InFlight(r) => r \in aborted]_vars

\* A session is in one table: the last write of a cancelled turn cannot bring
\* back what was archived or deleted in the meantime.
OneHome ==
  \A s \in Sessions :
    /\ s \in archived => ~Exists(s)
    /\ s \in fresh => ~Exists(s) /\ s \notin archived

\* Turns are serial: the history a finished turn saves is the one saved at that
\* moment, pruned, and the turn.  No update is lost, unless an aborted run
\* wrote late, a stale row was hydrated or the conversation was evicted.
TurnsAreSerial ==
  [][\A r \in Runs :
       LET s == sess[r] IN
         pc[r] = "persist" /\ pc'[r] = "store" /\ spoiled'[s] = {}
           => saved'[s] = Append(Prune(saved[s]), r)]_vars

\* ADR 0005: a failed turn leaves the last valid model history in place.
FailureKeepsHistory ==
  [][\A r \in Runs :
       LET s == sess[r] IN
         pc[r] = "failPersist" /\ pc'[r] = "error" /\ spoiled'[s] = {}
           => saved'[s] = saved[s]]_vars

\* A cancelled run ends, whatever the provider does.
AbortedRunsEnd ==
  \A r \in Runs : r \in aborted ~> pc[r] \in {"returned", "lost"}
=============================================================================
