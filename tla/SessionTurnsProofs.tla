------------------------- MODULE SessionTurnsProofs -------------------------
(***************************************************************************)
(* Proofs about the session turns, for any set of sessions and runs and    *)
(* any bounds: the handle map is exact, no command mutates a session under *)
(* a turn nobody aborted, a session is in one table, a turn saves what the *)
(* last one saved and itself, and a failed turn changes nothing.           *)
(***************************************************************************)
EXTENDS SessionTurns, SequenceTheorems, WellFoundedInduction, TLAPS

\* The variables the handle map and the runs depend on keep their types.
HandleTypes ==
  /\ handles \in [Sessions -> Runs \cup {None}]
  /\ aborted \in SUBSET Runs
  /\ pc \in [Runs -> Places]
  /\ sess \in [Runs -> Sessions \cup {None}]

\* A run that was not called yet has no session and was never aborted.
Unborn ==
  \A r \in Runs :
    /\ pc[r] = "idle" => sess[r] = None /\ r \notin aborted
    /\ pc[r] # "idle" => sess[r] \in Sessions

IInvHandles == HandleTypes /\ Unborn /\ HandlesTrackRuns

TableTypes ==
  /\ live \in [Sessions -> {"none", "draft", "active"}]
  /\ archived \in SUBSET Sessions
  /\ fresh \in SUBSET Sessions

IInvTables == TableTypes /\ OneHome
-----------------------------------------------------------------------------
USE TurnsAssumption DEF Live, Ending, Writing, Places, InFlight

\* Only Invoke, Cancel, Return and Restart touch the handles or decide which
\* runs are in flight; every other step of a run keeps it in flight.
LEMMA HandlesInit == Init => IInvHandles
  BY DEF Init, IInvHandles, HandleTypes, Unborn, HandlesTrackRuns

\* A step that only moves a run from one place in flight to another.
LEMMA RunMoves ==
  ASSUME IInvHandles, NEW r \in Runs, pc[r] \in Live,
         NEW place \in Live, pc' = [pc EXCEPT ![r] = place],
         UNCHANGED <<handles, aborted, sess>>
  PROVE  IInvHandles'
<1>1. HandleTypes'
  BY DEF IInvHandles, HandleTypes
<1>2. \A q \in Runs : (pc[q] = "idle" <=> pc'[q] = "idle") /\ (InFlight(q) <=> InFlight(q)')
  BY DEF IInvHandles, HandleTypes
<1>3. Unborn'
  BY <1>2 DEF IInvHandles, Unborn
<1>4. HandlesTrackRuns'
  BY <1>2 DEF IInvHandles, HandlesTrackRuns
<1> QED BY <1>1, <1>3, <1>4 DEF IInvHandles

LEMMA WorkMoves ==
  ASSUME IInvHandles, NEW r \in Runs, Work(r) \/ StreamEnds(r)
  PROVE  IInvHandles'
<1>1. CASE Begin(r)
  BY <1>1, RunMoves DEF Begin, Goto
<1>2. CASE Select(r)
  BY <1>2, RunMoves DEF Select, Goto
<1>3. CASE ReadHistory(r)
  BY <1>3, RunMoves DEF ReadHistory, Goto
<1>4. CASE AbortNoticed(r)
  BY <1>4, RunMoves DEF AbortNoticed, Goto
<1>5. CASE Persist(r)
  BY <1>5, RunMoves DEF Persist, Goto
<1>6. CASE Store(r)
  BY <1>6, RunMoves DEF Store, Goto
<1>7. CASE Snapshot(r)
  BY <1>7, RunMoves DEF Snapshot, Goto
<1>8. CASE FailPersist(r)
  BY <1>8, RunMoves DEF FailPersist, Goto
<1>9. CASE Emit(r)
  BY <1>9, RunMoves DEF Emit, Goto
<1>10. CASE StreamEnds(r)
  BY <1>10, RunMoves DEF StreamEnds, Goto
<1> QED
  BY <1>1, <1>2, <1>3, <1>4, <1>5, <1>6, <1>7, <1>8, <1>9, <1>10 DEF Work

\* The run that replaces another takes its handle and aborts it.
LEMMA InvokeHandles ==
  ASSUME IInvHandles, NEW r \in Runs, NEW s \in Sessions, Invoke(r, s)
  PROVE  IInvHandles'
<1>1. HandleTypes'
  BY DEF IInvHandles, HandleTypes, Invoke, Goto
<1>2. Unborn'
  <2>1. \A q \in Runs : q # r => pc'[q] = pc[q] /\ sess'[q] = sess[q]
    BY DEF IInvHandles, HandleTypes, Invoke, Goto
  <2>2. pc'[r] = "begin" /\ sess'[r] = s
    BY DEF IInvHandles, HandleTypes, Invoke, Goto
  <2>3. \A q \in Runs : handles[s] = q => pc[q] # "idle"
    BY DEF IInvHandles, HandleTypes, HandlesTrackRuns
  <2>4. \A q \in Runs : q \in aborted' => q \in aborted \/ handles[s] = q
    BY DEF Invoke
  <2> QED
    BY <2>1, <2>2, <2>3, <2>4 DEF IInvHandles, Unborn
<1>3. HandlesTrackRuns'
  <2> SUFFICES ASSUME NEW t \in Sessions, NEW q \in Runs
               PROVE  (handles[t] = q <=> sess[q] = t /\ InFlight(q) /\ q \notin aborted)'
    BY DEF HandlesTrackRuns
  <2>1. r \notin aborted /\ handles[s] # r /\ handles[t] # r
    BY DEF IInvHandles, HandlesTrackRuns, Unborn, Invoke
  <2>2. CASE q = r
    BY <2>1, <2>2 DEF IInvHandles, HandleTypes, Invoke, Goto
  <2>3. CASE q # r /\ t = s
    BY <2>1, <2>3 DEF IInvHandles, HandleTypes, HandlesTrackRuns, Invoke, Goto
  <2>4. CASE q # r /\ t # s
    BY <2>1, <2>4 DEF IInvHandles, HandleTypes, HandlesTrackRuns, Invoke, Goto
  <2> QED BY <2>2, <2>3, <2>4
<1> QED BY <1>1, <1>2, <1>3 DEF IInvHandles

LEMMA ReturnHandles ==
  ASSUME IInvHandles, NEW r \in Runs, Return(r)
  PROVE  IInvHandles'
<1>1. sess[r] \in Sessions
  BY DEF IInvHandles, Unborn, Return
<1>2. HandleTypes'
  BY <1>1 DEF IInvHandles, HandleTypes, Return, Goto
<1>3. Unborn'
  BY DEF IInvHandles, HandleTypes, Unborn, Return, Goto
<1>4. HandlesTrackRuns'
  <2> SUFFICES ASSUME NEW t \in Sessions, NEW q \in Runs
               PROVE  (handles[t] = q <=> sess[q] = t /\ InFlight(q) /\ q \notin aborted)'
    BY DEF HandlesTrackRuns
  <2>1. CASE q = r
    BY <1>1, <2>1 DEF IInvHandles, HandleTypes, HandlesTrackRuns, Return, Goto
  <2>2. CASE q # r
    BY <1>1, <2>2 DEF IInvHandles, HandleTypes, HandlesTrackRuns, Return, Goto
  <2> QED BY <2>1, <2>2
<1> QED BY <1>2, <1>3, <1>4 DEF IInvHandles

LEMMA CancelHandles ==
  ASSUME IInvHandles, NEW s \in Sessions, Cancel(s)
  PROVE  IInvHandles'
<1>1. handles[s] \in Runs
  BY DEF IInvHandles, HandleTypes, Cancel
<1>2. HandleTypes'
  BY <1>1 DEF IInvHandles, HandleTypes, Cancel
<1>3. Unborn'
  <2>1. pc[handles[s]] # "idle"
    BY <1>1 DEF IInvHandles, HandlesTrackRuns
  <2> QED BY <2>1 DEF IInvHandles, Unborn, Cancel
<1>4. HandlesTrackRuns'
  <2> SUFFICES ASSUME NEW t \in Sessions, NEW q \in Runs
               PROVE  (handles[t] = q <=> sess[q] = t /\ InFlight(q) /\ q \notin aborted)'
    BY DEF HandlesTrackRuns
  <2>1. InFlight(q)' <=> InFlight(q)
    BY DEF Cancel
  <2>2. CASE t = s
    BY <1>1, <2>1, <2>2 DEF IInvHandles, HandleTypes, HandlesTrackRuns, Cancel
  <2>3. CASE t # s
    BY <1>1, <2>1, <2>3 DEF IInvHandles, HandleTypes, HandlesTrackRuns, Cancel
  <2> QED BY <2>2, <2>3
<1> QED BY <1>2, <1>3, <1>4 DEF IInvHandles

LEMMA RestartHandles ==
  ASSUME IInvHandles, Restart
  PROVE  IInvHandles'
<1>1. HandleTypes'
  BY DEF IInvHandles, HandleTypes, Restart
<1>2. Unborn'
  BY DEF IInvHandles, HandleTypes, Unborn, Restart
<1>3. HandlesTrackRuns'
  BY DEF IInvHandles, HandleTypes, HandlesTrackRuns, Restart
<1> QED BY <1>1, <1>2, <1>3 DEF IInvHandles

\* The other commands of the window leave the runs alone.
LEMMA WindowLeavesRuns ==
  ASSUME NEW s \in Sessions, Command(s), ~Cancel(s)
  PROVE  UNCHANGED <<handles, aborted, pc, sess>>
  BY DEF Command, CreateSession, GetSession, Archive, Restore, Delete,
         DeleteArchived, Retry, Fork, runVars

LEMMA CommandEndsLeaveRuns ==
  ASSUME CommandEnds
  PROVE  UNCHANGED <<handles, aborted, pc, sess>>
  BY DEF CommandEnds, Hydrate, RetryPersist, RetryStore, runVars

LEMMA RunsUnchanged ==
  ASSUME IInvHandles, UNCHANGED <<handles, aborted, pc, sess>>
  PROVE  IInvHandles'
  BY DEF IInvHandles, HandleTypes, Unborn, HandlesTrackRuns

LEMMA HandlesStep == IInvHandles /\ [Next]_vars => IInvHandles'
<1> SUFFICES ASSUME IInvHandles, [Next]_vars PROVE IInvHandles'
  OBVIOUS
<1>1. ASSUME NEW r \in Runs, NEW s \in Sessions, Invoke(r, s) PROVE IInvHandles'
  BY <1>1, InvokeHandles
<1>2. ASSUME NEW r \in Runs, Work(r) \/ StreamEnds(r) PROVE IInvHandles'
  BY <1>2, WorkMoves
<1>3. ASSUME NEW r \in Runs, Return(r) PROVE IInvHandles'
  BY <1>3, ReturnHandles
<1>4. ASSUME NEW s \in Sessions, Command(s) PROVE IInvHandles'
  BY <1>4, CancelHandles, WindowLeavesRuns, RunsUnchanged
<1>5. CASE CommandEnds
  BY <1>5, CommandEndsLeaveRuns, RunsUnchanged
<1>6. CASE Restart
  BY <1>6, RestartHandles
<1>7. CASE UNCHANGED vars
  BY <1>7, RunsUnchanged DEF vars, runVars
<1> QED
  BY <1>1, <1>2, <1>3, <1>4, <1>5, <1>6, <1>7 DEF Next

\* The handle map names, for every session, the one run in flight that was
\* neither cancelled nor replaced (StreamingRunHandles in lib.rs).
THEOREM HandlesExact == Spec => []HandlesTrackRuns
<1>1. Init => IInvHandles
  BY HandlesInit
<1>2. IInvHandles /\ [Next]_vars => IInvHandles'
  BY HandlesStep
<1>3. IInvHandles => HandlesTrackRuns
  BY DEF IInvHandles
<1> QED BY <1>1, <1>2, <1>3, PTL DEF Spec
-----------------------------------------------------------------------------
(* One table per session *)

LEMMA TablesInit == Init => IInvTables
  BY DEF Init, IInvTables, TableTypes, OneHome, Exists

\* A turn writes the status of a row only where it finds the row.
LEMMA TurnTables ==
  ASSUME IInvTables, NEW r \in Runs, Work(r) \/ StreamEnds(r)
  PROVE  IInvTables'
<1>1. CASE Persist(r)
  BY <1>1 DEF Persist, IInvTables, TableTypes, OneHome, Exists
<1>2. CASE FailPersist(r)
  BY <1>2 DEF FailPersist, IInvTables, TableTypes, OneHome, Exists
<1>3. CASE ~Persist(r) /\ ~FailPersist(r)
  <2>1. UNCHANGED <<live, archived, fresh>>
    BY <1>3 DEF Work, Begin, Select, ReadHistory, AbortNoticed, Store, Snapshot, Emit,
       StreamEnds, rowVars
  <2> QED BY <2>1 DEF IInvTables, TableTypes, OneHome, Exists
<1> QED BY <1>1, <1>2, <1>3

LEMMA CommandTables ==
  ASSUME IInvTables, NEW s \in Sessions, Command(s)
  PROVE  IInvTables'
<1>1. CASE CreateSession(s)
  BY <1>1 DEF CreateSession, IInvTables, TableTypes, OneHome, Exists
<1>2. CASE Archive(s)
  BY <1>2 DEF Archive, IInvTables, TableTypes, OneHome, Exists
<1>3. CASE Restore(s)
  BY <1>3 DEF Restore, IInvTables, TableTypes, OneHome, Exists
<1>4. CASE Delete(s)
  BY <1>4 DEF Delete, IInvTables, TableTypes, OneHome, Exists
<1>5. CASE DeleteArchived(s)
  BY <1>5 DEF DeleteArchived, IInvTables, TableTypes, OneHome, Exists
<1>6. ASSUME NEW n, NEW t \in Sessions, Fork(s, n, t) PROVE IInvTables'
  BY <1>6 DEF Fork, IInvTables, TableTypes, OneHome, Exists
<1>7. ASSUME NEW n, Retry(s, n) PROVE UNCHANGED <<live, archived, fresh>>
  BY <1>7 DEF Retry, rowVars
<1>8. CASE Cancel(s) \/ GetSession(s)
  <2>1. UNCHANGED <<live, archived, fresh>>
    BY <1>8 DEF Cancel, GetSession, rowVars
  <2> QED BY <2>1 DEF IInvTables, TableTypes, OneHome, Exists
<1>9. ASSUME UNCHANGED <<live, archived, fresh>> PROVE IInvTables'
  BY <1>9 DEF IInvTables, TableTypes, OneHome, Exists
<1> QED
  BY <1>1, <1>2, <1>3, <1>4, <1>5, <1>6, <1>7, <1>8, <1>9 DEF Command

LEMMA TablesUnchanged ==
  ASSUME IInvTables, UNCHANGED <<live, archived, fresh>>
  PROVE  IInvTables'
  BY DEF IInvTables, TableTypes, OneHome, Exists

LEMMA CommandEndsTables ==
  ASSUME IInvTables, CommandEnds
  PROVE  IInvTables'
<1>1. CASE RetryPersist
  BY <1>1 DEF RetryPersist, IInvTables, TableTypes, OneHome, Exists
<1>2. CASE Hydrate \/ RetryStore
  <2>1. UNCHANGED <<live, archived, fresh>>
    BY <1>2 DEF Hydrate, RetryStore, rowVars
  <2> QED BY <2>1, TablesUnchanged
<1> QED BY <1>1, <1>2 DEF CommandEnds

LEMMA TablesStep == IInvTables /\ [Next]_vars => IInvTables'
<1> SUFFICES ASSUME IInvTables, [Next]_vars PROVE IInvTables'
  OBVIOUS
<1>1. ASSUME NEW r \in Runs, NEW s \in Sessions, Invoke(r, s) PROVE IInvTables'
  BY <1>1, TablesUnchanged DEF Invoke, rowVars
<1>2. ASSUME NEW r \in Runs, Work(r) \/ StreamEnds(r) PROVE IInvTables'
  BY <1>2, TurnTables
<1>3. ASSUME NEW r \in Runs, Return(r) PROVE IInvTables'
  BY <1>3, TablesUnchanged DEF Return, rowVars
<1>4. ASSUME NEW s \in Sessions, Command(s) PROVE IInvTables'
  BY <1>4, CommandTables
<1>5. CASE CommandEnds
  BY <1>5, CommandEndsTables
<1>6. CASE Restart
  BY <1>6, TablesUnchanged DEF Restart, rowVars
<1>7. CASE UNCHANGED vars
  BY <1>7, TablesUnchanged DEF vars, rowVars
<1> QED
  BY <1>1, <1>2, <1>3, <1>4, <1>5, <1>6, <1>7 DEF Next

\* A session is never both live and archived, and an id that was not handed out
\* is in neither table, whatever a cancelled turn still writes
\* (SessionStore::persist_turn updates, it never inserts).
THEOREM OneTable == Spec => []OneHome
<1>1. Init => IInvTables
  BY TablesInit
<1>2. IInvTables /\ [Next]_vars => IInvTables'
  BY TablesStep
<1>3. IInvTables => OneHome
  BY DEF IInvTables
<1> QED BY <1>1, <1>2, <1>3, PTL DEF Spec
-----------------------------------------------------------------------------
(* Commands and turns exclude each other *)

\* Only the commands of the window remove a row or begin a retry, and each of
\* those that do looks at the handle map first.
LEMMA MutationsSeeNoHandle ==
  ASSUME IInvTables, [Next]_vars, NEW s \in Sessions, Mutates(s)
  PROVE  handles[s] = None
<1> USE DEF Mutates, Exists
<1>1. ASSUME NEW r \in Runs, Work(r) \/ StreamEnds(r) PROVE ~Mutates(s)
  <2>1. CASE Persist(r)
    BY <2>1 DEF Persist, IInvTables, TableTypes, winVars
  <2>2. CASE FailPersist(r)
    BY <2>2 DEF FailPersist, IInvTables, TableTypes, winVars
  <2>3. CASE ~Persist(r) /\ ~FailPersist(r)
    <3>1. UNCHANGED <<live, ui>>
      BY <1>1, <2>3 DEF Work, Begin, Select, ReadHistory, AbortNoticed, Store, Snapshot, Emit,
         StreamEnds, rowVars, winVars
    <3> QED BY <3>1
  <2> QED BY <2>1, <2>2, <2>3
<1>2. ASSUME NEW r \in Runs, NEW t \in Sessions, Invoke(r, t) PROVE ~Mutates(s)
  BY <1>2 DEF Invoke, rowVars, winVars
<1>3. ASSUME NEW r \in Runs, Return(r) PROVE ~Mutates(s)
  BY <1>3 DEF Return, rowVars, winVars
<1>4. ASSUME NEW t \in Sessions, Command(t) PROVE handles[s] = None
  <2>1. CASE Archive(t)
    BY <2>1 DEF Archive, IInvTables, TableTypes, winVars
  <2>2. CASE Delete(t)
    BY <2>2 DEF Delete, IInvTables, TableTypes, winVars
  <2>3. ASSUME NEW n, Retry(t, n) PROVE handles[s] = None
    BY <2>3 DEF Retry, Busy, rowVars
  <2>4. ASSUME NEW n, NEW q \in Sessions, Fork(t, n, q) PROVE ~Mutates(s)
    BY <2>4 DEF Fork, IInvTables, TableTypes
  <2>5. CASE Restore(t)
    BY <2>5 DEF Restore, IInvTables, TableTypes, winVars
  <2>6. CASE CreateSession(t)
    BY <2>6 DEF CreateSession, IInvTables, TableTypes
  <2>7. CASE GetSession(t)
    BY <2>7 DEF GetSession, Busy, rowVars
  <2>8. CASE Cancel(t) \/ DeleteArchived(t)
    BY <2>8 DEF Cancel, DeleteArchived, rowVars, winVars
  <2> QED BY <1>4, <2>1, <2>2, <2>3, <2>4, <2>5, <2>6, <2>7, <2>8 DEF Command
<1>5. CASE CommandEnds
  BY <1>5 DEF CommandEnds, Hydrate, RetryPersist, RetryStore, IInvTables, TableTypes, Idle, Busy,
     rowVars
<1>6. CASE Restart
  BY <1>6 DEF Restart, Idle, rowVars
<1>7. CASE UNCHANGED vars
  BY <1>7 DEF vars, rowVars, winVars
<1> QED
  BY <1>1, <1>2, <1>3, <1>4, <1>5, <1>6, <1>7 DEF Next

\* No command truncates, archives or deletes a session under a turn that nobody
\* aborted: the exactness of the handle map is what makes the look enough.
THEOREM MutationsGuarded == Spec => GuardedMutations
<1>1. Init => IInvHandles /\ IInvTables
  BY HandlesInit, TablesInit
<1>2. IInvHandles /\ IInvTables /\ [Next]_vars => (IInvHandles /\ IInvTables)'
  BY HandlesStep, TablesStep
<1>3. IInvHandles /\ IInvTables /\ [Next]_vars =>
        [\A s \in Sessions :
           Mutates(s) => \A r \in Runs : sess[r] = s /\ InFlight(r) => r \in aborted]_vars
  <2> SUFFICES ASSUME IInvHandles, IInvTables, [Next]_vars, NEW s \in Sessions, Mutates(s),
                      NEW r \in Runs, sess[r] = s, InFlight(r)
               PROVE  r \in aborted
    OBVIOUS
  <2>1. handles[s] = None
    BY MutationsSeeNoHandle
  <2>2. handles[s] # r
    BY <2>1
  <2> QED BY <2>2 DEF IInvHandles, HandlesTrackRuns
<1> QED BY <1>1, <1>2, <1>3, PTL DEF Spec, GuardedMutations
-----------------------------------------------------------------------------
(* What a turn is started from and what it saves *)

Histories == Seq(Runs)

HistoryTypes ==
  /\ saved \in [Sessions -> Histories]
  /\ cached \in [Sessions -> Histories]
  /\ base \in [Runs -> Histories]
  /\ order \in Seq(Sessions)
  /\ spoiled \in [Sessions -> SUBSET {"evicted", "stale", "late"}]
  /\ opened \subseteq Sessions

\* An id that was not handed out is in no use, a run belongs to a session the window has opened, and
\* the command under way is about a session it has read; no turn begins under a retry.
Known ==
  /\ \A r \in Runs : InFlight(r) => sess[r] \in opened
  /\ \A s \in fresh : s \notin opened /\ saved[s] = <<>> /\ ~Cached(s)
  /\ \/ ui = Idle
     \/ /\ ui \in [op : {"hydrate", "retry", "retryStore"}, session : Sessions, history : Histories]
        /\ ui.session \notin fresh
        /\ ui.op # "hydrate" => handles[ui.session] = None

\* What the next turn of a session would be started from.
Mem(s) == IF Cached(s) THEN cached[s] ELSE <<>>

\* The memory of a session follows its row, or a turn or a retry that has saved is about to store.
InStep(s) ==
  \/ Mem(s) = Prune(saved[s])
  \/ \E r \in Runs : sess[r] = s /\ pc[r] = "store"
  \/ ui.op = "retryStore" /\ ui.session = s

MemHolds(s) ==
  spoiled[s] = {} =>
    /\ s \in opened \/ Cached(s) => InStep(s)
    /\ ui.op = "retryStore" /\ ui.session = s => ui.history = saved[s]

\* What a turn of a session holds while it runs.
TurnHolds(r, s) ==
  sess[r] = s /\ spoiled[s] = {} =>
    /\ pc[r] \in Writing => r \notin aborted
    /\ pc[r] \in {"llm", "persist"} /\ r \notin aborted => base[r] = Prune(saved[s])
    /\ pc[r] = "store" => saved[s] = Append(base[r], r)
    /\ pc[r] = "failPersist" => base[r] = saved[s]

SessionHolds(s) == MemHolds(s) /\ \A r \in Runs : TurnHolds(r, s)

IInvHistory == HistoryTypes /\ Known /\ \A s \in Sessions : SessionHolds(s)

IInvAll == IInvHandles /\ IInvTables /\ IInvHistory

LEMMA PruneIs ==
  /\ Prune(<<>>) = <<>>
  /\ \A h \in Histories : Prune(h) \in Histories
<1>1. Prune(<<>>) = <<>>
  BY DEF Prune
<1>2. ASSUME NEW h \in Seq(Runs) PROVE Prune(h) \in Seq(Runs)
  <2>1. CASE Len(h) > Keep
    <3>1. Len(h) \in Nat /\ Len(h) - Keep + 1 \in 1..Len(h)
      BY <2>1
    <3>2. SubSeq(h, Len(h) - Keep + 1, Len(h)) \in Seq(Runs)
      BY <3>1
    <3> QED
      BY <2>1, <3>2 DEF Prune
  <2>2. CASE ~(Len(h) > Keep)
    BY <2>2 DEF Prune
  <2> QED
    BY <2>1, <2>2
<1> QED
  BY <1>1, <1>2 DEF Histories

\* The first place of a list where something stands.
LEMMA FirstPlace ==
  ASSUME NEW q \in Seq(Sessions), NEW s, \E i \in 1..Len(q) : q[i] = s
  PROVE  SelectInSeq(q, LAMBDA v : v = s) \in 1..Len(q) /\ q[SelectInSeq(q, LAMBDA v : v = s)] = s
<1> DEFINE I == {i \in 1..Len(q) : q[i] = s}
<1>1. I # {} /\ I \in SUBSET Nat /\ I \subseteq 1..Len(q)
  OBVIOUS
<1>2. SelectInSeq(q, LAMBDA v : v = s) = Min(I)
  BY <1>1 DEF SelectInSeq
<1>3. \E m \in I : \A n \in I : m <= n
  <2> HIDE DEF I
  <2>1. PICK m \in I : \A n \in I : ~(<<n, m>> \in OpToRel(<, Nat))
    BY <1>1, WFMin, NatLessThanWellFounded
  <2>2. \A n \in I : ~(n < m)
    BY <1>1, <2>1 DEF OpToRel
  <2> QED
    BY <1>1, <2>2
<1>4. Min(I) \in I
  <2> HIDE DEF I
  <2> QED
    BY <1>3 DEF Min
<1> QED
  BY <1>1, <1>2, <1>4

\* Moving a session to the end of the access order keeps the others in it.
LEMMA RecentIs ==
  ASSUME NEW q \in Seq(Sessions), NEW s \in Sessions
  PROVE  Recent(q, s) \in Seq(Sessions) /\ Range(Recent(q, s)) = Range(q) \cup {s}
<1> DEFINE without == RemoveFirst(q, s)
<1>1. without \in Seq(Sessions) /\ Range(without) \subseteq Range(q) /\ Range(q) \ {s} \subseteq Range(without)
  <2>1. CASE ~\E i \in 1..Len(q) : q[i] = s
    <3>1. without = q
      BY <2>1 DEF RemoveFirst
    <3> QED
      BY <3>1
  <2>2. CASE \E i \in 1..Len(q) : q[i] = s
    <3> DEFINE p == SelectInSeq(q, LAMBDA v : v = s)
    <3>1. p \in 1..Len(q) /\ q[p] = s
      BY <2>2, FirstPlace
    <3> HIDE DEF p
    <3>2. without = SubSeq(q, 1, p - 1) \o SubSeq(q, p + 1, Len(q))
      BY <2>2 DEF RemoveFirst, RemoveAt, p
    <3> DEFINE a == SubSeq(q, 1, p - 1)
               b == SubSeq(q, p + 1, Len(q))
    <3>3. /\ a \in Seq(Sessions) /\ b \in Seq(Sessions)
          /\ Len(a) = p - 1 /\ \A i \in 1..(p - 1) : a[i] = q[i]
          /\ Len(b) = Len(q) - p /\ \A i \in 1..(Len(q) - p) : b[i] = q[p + i]
      BY <3>1
    <3> HIDE DEF a, b
    <3>4. without \in Seq(Sessions) /\ Range(without) = Range(a) \cup Range(b)
      <4>1. without = a \o b
        BY <3>2 DEF a, b
      <4>2. a \o b \in Seq(Sessions) /\ Range(a \o b) = Range(a) \cup Range(b)
        BY <3>3, RangeConcatenation
      <4> HIDE DEF without
      <4> QED
        BY <4>1, <4>2
    <3>5. Range(a) = {q[i] : i \in 1..(p - 1)}
      <4>1. DOMAIN a = 1..(p - 1)
        BY <3>1, <3>3
      <4> QED
        BY <3>3, <4>1 DEF Range
    <3>6. Range(b) = {q[i] : i \in (p + 1)..Len(q)}
      <4>1. DOMAIN b = 1..(Len(q) - p) /\ Len(q) \in Nat
        BY <3>1, <3>3
      <4>2. \A i \in 1..(Len(q) - p) : p + i \in (p + 1)..Len(q) /\ b[i] = q[p + i]
        BY <3>1, <3>3, <4>1
      <4>3. \A i \in (p + 1)..Len(q) : i - p \in 1..(Len(q) - p) /\ b[i - p] = q[i]
        BY <3>1, <4>1, <4>2
      <4> QED
        BY <4>1, <4>2, <4>3 DEF Range
    <3>7. Range(q) = {q[i] : i \in 1..Len(q)}
      BY DEF Range
    <3> QED
      BY <3>1, <3>4, <3>5, <3>6, <3>7
  <2> QED
    BY <2>1, <2>2
<1>2. Recent(q, s) = without \o <<s>> /\ <<s>> \in Seq(Sessions)
  BY <1>1, AppendIsConcat DEF Recent
<1> HIDE DEF without
<1>3. Recent(q, s) \in Seq(Sessions) /\ Range(Recent(q, s)) = Range(without) \cup Range(<<s>>)
  <2>1. /\ without \o <<s>> \in Seq(Sessions)
        /\ Range(without \o <<s>>) = Range(without) \cup Range(<<s>>)
    <3>1. PICK t \in Seq(Sessions) : t = <<s>>
      BY <1>2
    <3>2. without \o t \in Seq(Sessions) /\ Range(without \o t) = Range(without) \cup Range(t)
      BY <1>1, RangeConcatenation
    <3> QED
      BY <3>1, <3>2
  <2> QED
    BY <1>2, <2>1
<1>4. Range(<<s>>) = {s}
  BY DEF Range
<1> QED
  BY <1>1, <1>3, <1>4

\* What storing a history does to the memory of each session.
LEMMA StoreIs ==
  ASSUME HistoryTypes, NEW s \in Sessions, NEW h \in Histories, StoreHistory(s, h)
  PROVE  /\ order' \in Seq(Sessions) /\ cached' \in [Sessions -> Histories]
         /\ Mem(s)' = Prune(h)
         /\ \A t : Cached(t)' => Cached(t) \/ t = s
         /\ \A t \in Sessions \ (Evicted(s) \cup {s}) : Mem(t)' = Mem(t)
         /\ s \notin Evicted(s) /\ Evicted(s) \subseteq Sessions
<1> DEFINE left == IF Evicted(s) = {} THEN order ELSE Tail(order)
<1>1. order \in Seq(Sessions) /\ cached \in [Sessions -> Histories]
  BY DEF HistoryTypes
<1>2. /\ Evicted(s) = {} \/ (order # <<>> /\ ~Cached(s) /\ Evicted(s) = {Head(order)})
      /\ left \in Seq(Sessions)
      /\ Range(left) \subseteq Range(order) /\ Range(order) \ Evicted(s) \subseteq Range(left)
      /\ Evicted(s) \subseteq Range(order)
  <2>1. CASE Evicted(s) = {}
    BY <1>1, <2>1
  <2>2. CASE Evicted(s) # {}
    <3>1. ~Cached(s) /\ Len(order) >= MaxConversations /\ Evicted(s) = {Head(order)}
      BY <2>2 DEF Evicted
    <3>2. Len(order) \in Nat /\ Len(order) >= 1 /\ order # <<>>
      BY <1>1, <3>1
    <3>3. left = Tail(order) /\ Head(order) = order[1]
      BY <1>1, <2>2, <3>2
    <3>4. /\ left \in Seq(Sessions) /\ DOMAIN left = 1..(Len(order) - 1)
          /\ \A i \in 1..(Len(order) - 1) : left[i] = order[i + 1]
      BY <1>1, <3>2, <3>3
    <3> HIDE DEF left
    <3>5. Range(left) \subseteq Range(order)
      <4>1. \A i \in 1..(Len(order) - 1) : i + 1 \in DOMAIN order
        BY <1>1, <3>2
      <4> QED
        BY <3>4, <4>1 DEF Range
    <3>6. Range(order) \ {Head(order)} \subseteq Range(left)
      <4>1. \A i \in DOMAIN order : i # 1 => i - 1 \in 1..(Len(order) - 1) /\ left[i - 1] = order[i]
        BY <1>1, <3>2, <3>4
      <4>2. ASSUME NEW x \in Range(order), x # order[1] PROVE x \in Range(left)
        <5>1. PICK i \in DOMAIN order : x = order[i]
          BY DEF Range
        <5>2. i - 1 \in DOMAIN left /\ left[i - 1] = x
          BY <3>4, <4>1, <4>2, <5>1
        <5> QED
          BY <5>2 DEF Range
      <4> QED
        BY <3>3, <4>2
    <3>7. Head(order) \in Range(order)
      BY <1>1, <3>2, <3>3 DEF Range
    <3> QED
      BY <3>1, <3>2, <3>4, <3>5, <3>6, <3>7
  <2> QED
    BY <2>1, <2>2
<1>3. order' = Recent(left, s) /\ cached' = [t \in Sessions |-> IF t = s THEN Prune(h)
                                               ELSE IF t \in Evicted(s) THEN <<>> ELSE cached[t]]
  BY DEF StoreHistory
<1> HIDE DEF left
<1>4. order' \in Seq(Sessions) /\ Range(order') = Range(left) \cup {s}
  BY <1>2, <1>3, RecentIs
<1>5. cached' \in [Sessions -> Histories]
  <2>1. <<>> \in Histories /\ Prune(h) \in Histories
    BY PruneIs DEF Histories
  <2> QED
    BY <1>1, <1>3, <2>1
<1>6. s \notin Evicted(s) /\ Evicted(s) \subseteq Sessions
  <2>1. Range(order) \subseteq Sessions
    BY <1>1, RangeOfSeq
  <2> QED
    BY <1>2, <2>1 DEF Cached, Evicted
<1>7. Mem(s)' = Prune(h)
  BY <1>3, <1>4 DEF Mem, Cached
<1>8. \A t : Cached(t)' => Cached(t) \/ t = s
  BY <1>2, <1>4 DEF Cached
<1>9. ASSUME NEW t \in Sessions \ (Evicted(s) \cup {s}) PROVE Mem(t)' = Mem(t)
  <2>1. t \in Range(order') <=> t \in Range(order)
    BY <1>2, <1>4
  <2> QED
    BY <1>3, <2>1 DEF Mem, Cached
<1> QED
  BY <1>4, <1>5, <1>6, <1>7, <1>8, <1>9

\* A run that works and that nobody aborted has the handle of its session: the session has no other.
LEMMA OnlyTurn ==
  ASSUME IInvHandles, NEW r \in Runs, NEW q \in Runs, InFlight(r), InFlight(q),
         r \notin aborted, q \notin aborted, sess[r] = sess[q], sess[r] \in Sessions
  PROVE  q = r
BY DEF IInvHandles, HandlesTrackRuns

\* What a step that does not touch a session's history and memory leaves as it was.
LEMMA MemKept ==
  ASSUME NEW s \in Sessions, MemHolds(s), spoiled'[s] = {} => spoiled[s] = {},
         saved'[s] = saved[s], Mem(s)' = Mem(s),
         s \in opened' \/ Cached(s)' => s \in opened \/ Cached(s) \/ Mem(s) = Prune(saved[s]),
         \A r \in Runs : sess[r] = s /\ pc[r] = "store" => sess'[r] = s /\ pc'[r] = "store",
         ui.op = "retryStore" /\ ui.session = s => ui' = ui,
         ui'.op = "retryStore" /\ ui'.session = s => ui' = ui
  PROVE  MemHolds(s)'
<1> SUFFICES ASSUME spoiled'[s] = {}
             PROVE  /\ s \in opened' \/ Cached(s)' => InStep(s)'
                    /\ ui'.op = "retryStore" /\ ui'.session = s => ui'.history = saved'[s]
  BY DEF MemHolds
<1>1. InStep(s) => InStep(s)'
  BY DEF InStep
<1>2. s \in opened' \/ Cached(s)' => InStep(s)
  BY DEF MemHolds, InStep
<1>3. ui'.op = "retryStore" /\ ui'.session = s => ui'.history = saved'[s]
  BY DEF MemHolds
<1> QED
  BY <1>1, <1>2, <1>3

\* Memory in step again, or shown to be.
LEMMA MemRenewed ==
  ASSUME NEW s \in Sessions,
         spoiled'[s] = {} => InStep(s)',
         spoiled'[s] = {} /\ ui'.op = "retryStore" /\ ui'.session = s => ui'.history = saved'[s]
  PROVE  MemHolds(s)'
BY DEF MemHolds

LEMMA TurnKept ==
  ASSUME NEW r \in Runs, NEW s \in Sessions, TurnHolds(r, s),
         spoiled'[s] = {} => spoiled[s] = {},
         sess'[r] = s => /\ sess[r] = s /\ saved'[s] = saved[s]
                         /\ pc'[r] = pc[r] /\ base'[r] = base[r],
         aborted \subseteq aborted',
         spoiled'[s] = {} /\ sess[r] = s /\ pc[r] \in Writing /\ r \in aborted' => r \in aborted
  PROVE  TurnHolds(r, s)'
BY DEF TurnHolds

\* A step that leaves histories and memory alone, whatever becomes of the runs.
LEMMA RunsOnly ==
  ASSUME IInvAll, UNCHANGED <<saved, cached, opened, ui, fresh>>,
         order' \in Seq(Sessions), \A s : Cached(s)' = Cached(s),
         base' \in [Runs -> Histories],
         spoiled' \in [Sessions -> SUBSET {"evicted", "stale", "late"}],
         \A s \in Sessions : spoiled[s] \subseteq spoiled'[s],
         aborted \subseteq aborted',
         \A q \in Runs : InFlight(q)' => sess'[q] \in opened,
         ui.op \in {"retry", "retryStore"} => handles'[ui.session] = None,
         \A q \in Runs : pc[q] = "store" => sess'[q] = sess[q] /\ pc'[q] = "store",
         \A q \in Runs :
           \/ pc'[q] \notin Writing \cup {"llm"}
           \/ /\ sess'[q] = sess[q] /\ pc'[q] = pc[q] /\ base'[q] = base[q]
              /\ \A s \in Sessions : spoiled'[s] = {} /\ sess[q] = s /\ pc[q] \in Writing /\ q \in aborted'
                                       => q \in aborted
           \/ \A s \in Sessions : TurnHolds(q, s)'
  PROVE  IInvHistory'
<1>1. HistoryTypes'
  BY DEF IInvAll, IInvHistory, HistoryTypes
<1>2. Known'
  <2>1. Known
    BY DEF IInvAll, IInvHistory
  <2>2. ui.op \in {"hydrate", "retry", "retryStore"} /\ ui.op # "hydrate" => ui.op \in {"retry", "retryStore"}
    OBVIOUS
  <2>3. \A s \in fresh' : s \notin opened' /\ saved'[s] = <<>> /\ ~Cached(s)'
    BY <2>1 DEF Known
  <2>4. \/ ui' = Idle
        \/ /\ ui' \in [op : {"hydrate", "retry", "retryStore"}, session : Sessions, history : Histories]
           /\ ui'.session \notin fresh'
           /\ ui'.op # "hydrate" => handles'[ui'.session] = None
    BY <2>1 DEF Known
  <2> QED
    BY <2>3, <2>4 DEF Known
<1>3. ASSUME NEW s \in Sessions PROVE SessionHolds(s)'
  <2>1. SessionHolds(s)
    BY DEF IInvAll, IInvHistory
  <2>2. spoiled'[s] = {} => spoiled[s] = {}
    OBVIOUS
  <2>3. Mem(s)' = Mem(s)
    BY DEF Mem
  <2>4. MemHolds(s)'
    <3>1. MemHolds(s)
      BY <2>1 DEF SessionHolds
    <3>2. s \in opened' \/ Cached(s)' => s \in opened \/ Cached(s) \/ Mem(s) = Prune(saved[s])
      OBVIOUS
    <3> QED
      BY <2>2, <2>3, <3>1, <3>2, MemKept
  <2>5. ASSUME NEW q \in Runs PROVE TurnHolds(q, s)'
    <3>1. TurnHolds(q, s)
      BY <2>1 DEF SessionHolds
    <3>2. CASE pc'[q] \notin Writing \cup {"llm"}
      BY <3>2 DEF TurnHolds
    <3>3. CASE /\ sess'[q] = sess[q] /\ pc'[q] = pc[q] /\ base'[q] = base[q]
               /\ \A t \in Sessions : spoiled'[t] = {} /\ sess[q] = t /\ pc[q] \in Writing /\ q \in aborted'
                                        => q \in aborted
      BY <2>2, <3>1, <3>3, TurnKept
    <3> QED
      BY <3>2, <3>3
  <2> QED
    BY <2>4, <2>5 DEF SessionHolds
<1> QED
  BY <1>1, <1>2, <1>3 DEF IInvHistory

\* A run that moves to a place where it holds no history.
LEMMA QuietMoves ==
  ASSUME IInvAll, NEW r \in Runs, Begin(r) \/ Select(r) \/ AbortNoticed(r) \/ Emit(r) \/ Return(r)
  PROVE  IInvHistory'
<1>1. /\ UNCHANGED <<saved, cached, opened, ui, fresh, order, spoiled, aborted, sess>>
      /\ pc[r] \in Live /\ pc[r] # "store"
  BY DEF Begin, Select, AbortNoticed, Emit, Return, rowVars, memVars, winVars
<1>2. PICK place : place \notin Writing \cup {"llm"} /\ pc' = [pc EXCEPT ![r] = place]
  BY DEF Begin, Select, AbortNoticed, Emit, Return, Goto
<1>3. /\ pc \in [Runs -> Places] /\ base \in [Runs -> Histories]
      /\ spoiled \in [Sessions -> SUBSET {"evicted", "stale", "late"}] /\ order \in Seq(Sessions)
      /\ handles \in [Sessions -> Runs \cup {None}]
  BY DEF IInvAll, IInvHandles, HandleTypes, IInvHistory, HistoryTypes
<1>4. base' \in [Runs -> Histories] /\ \A q \in Runs \ {r} : base'[q] = base[q]
  <2>1. <<>> \in Histories
    BY DEF Histories
  <2>2. base' = base \/ base' = [base EXCEPT ![r] = <<>>]
    BY DEF Begin, Select, AbortNoticed, Emit, Return
  <2> QED
    BY <1>3, <2>1, <2>2
<1>5. \A x \in Sessions : handles'[x] \in {handles[x], None}
  <2>1. handles' = handles \/ handles' = [handles EXCEPT ![sess[r]] = None]
    BY DEF Begin, Select, AbortNoticed, Emit, Return
  <2> QED
    BY <1>3, <2>1
<1>6. pc'[r] = place /\ \A q \in Runs \ {r} : pc'[q] = pc[q]
  BY <1>2, <1>3
<1>7. \A q \in Runs : InFlight(q)' => sess'[q] \in opened
  BY <1>1, <1>6 DEF IInvAll, IInvHistory, Known
<1>8. ui.op \in {"retry", "retryStore"} => handles'[ui.session] = None
  BY <1>5 DEF IInvAll, IInvHistory, Known, Idle
<1>9. \A s : Cached(s)' = Cached(s)
  BY <1>1 DEF Cached
<1>10. \A q \in Runs : pc[q] = "store" => sess'[q] = sess[q] /\ pc'[q] = "store"
  BY <1>1, <1>6
<1>11. \A q \in Runs :
         \/ pc'[q] \notin Writing \cup {"llm"}
         \/ /\ sess'[q] = sess[q] /\ pc'[q] = pc[q] /\ base'[q] = base[q]
            /\ \A s \in Sessions : spoiled'[s] = {} /\ sess[q] = s /\ pc[q] \in Writing /\ q \in aborted'
                                     => q \in aborted
  BY <1>1, <1>2, <1>4, <1>6
<1> QED
  BY <1>1, <1>3, <1>4, <1>7, <1>8, <1>9, <1>10, <1>11, RunsOnly

\* Aborting a run: one that still has writes to make spoils its session.
LEMMA Aborts ==
  ASSUME IInvHandles, HistoryTypes, NEW s \in Sessions,
         aborted' = aborted \cup ({handles[s]} \ {None}), spoiled' = Mark(s, Late(s))
  PROVE  /\ spoiled' \in [Sessions -> SUBSET {"evicted", "stale", "late"}]
         /\ \A t \in Sessions : spoiled[t] \subseteq spoiled'[t]
         /\ \A q \in Runs : \A t \in Sessions :
              spoiled'[t] = {} /\ sess[q] = t /\ pc[q] \in Writing /\ q \in aborted' => q \in aborted
<1>1. spoiled' = [spoiled EXCEPT ![s] = @ \cup Late(s)] /\ Late(s) \subseteq {"late"}
  BY DEF Mark, Late
<1>2. spoiled \in [Sessions -> SUBSET {"evicted", "stale", "late"}]
  BY DEF HistoryTypes
<1>3. ASSUME NEW q \in Runs, NEW t \in Sessions, spoiled'[t] = {}, sess[q] = t, pc[q] \in Writing,
             q \in aborted', q \notin aborted
      PROVE  FALSE
  <2>1. handles[s] = q
    BY <1>3
  <2>2. t = s
    BY <1>3, <2>1 DEF IInvHandles, HandlesTrackRuns
  <2>3. Late(s) = {"late"}
    BY <1>3, <2>1 DEF Late
  <2> QED
    BY <1>1, <1>2, <1>3, <2>2, <2>3
<1>4. spoiled' \in [Sessions -> SUBSET {"evicted", "stale", "late"}]
  BY <1>1, <1>2
<1>5. \A t \in Sessions : spoiled[t] \subseteq spoiled'[t]
  BY <1>1, <1>2
<1> QED
  BY <1>3, <1>4, <1>5

LEMMA InvokeHistory ==
  ASSUME IInvAll, NEW r \in Runs, NEW s \in Sessions, Invoke(r, s)
  PROVE  IInvHistory'
<1>1. /\ UNCHANGED <<saved, cached, opened, ui, fresh, order, base>>
      /\ s \in opened /\ pc[r] = "idle" /\ MapFree
      /\ aborted' = aborted \cup ({handles[s]} \ {None}) /\ spoiled' = Mark(s, Late(s))
  BY DEF Invoke, rowVars, memVars, winVars
<1>2. /\ pc'[r] = "begin" /\ sess'[r] = s
      /\ \A q \in Runs \ {r} : pc'[q] = pc[q] /\ sess'[q] = sess[q]
  BY DEF Invoke, Goto, IInvAll, IInvHandles, HandleTypes
<1>3. /\ order \in Seq(Sessions) /\ base \in [Runs -> Histories] /\ IInvHandles /\ HistoryTypes
  BY DEF IInvAll, IInvHistory, HistoryTypes
<1>4. \A q \in Runs : InFlight(q)' => sess'[q] \in opened
  BY <1>1, <1>2 DEF IInvAll, IInvHistory, Known
<1>5. ui.op \notin {"retry", "retryStore"}
  BY <1>1 DEF MapFree
<1>6. \A x : Cached(x)' = Cached(x)
  BY <1>1 DEF Cached
<1>7. \A q \in Runs : pc[q] = "store" => sess'[q] = sess[q] /\ pc'[q] = "store"
  BY <1>1, <1>2
<1>8. /\ spoiled' \in [Sessions -> SUBSET {"evicted", "stale", "late"}]
      /\ \A t \in Sessions : spoiled[t] \subseteq spoiled'[t]
      /\ \A q \in Runs : \A t \in Sessions :
           spoiled'[t] = {} /\ sess[q] = t /\ pc[q] \in Writing /\ q \in aborted' => q \in aborted
  BY <1>1, <1>3, Aborts
<1>9. \A q \in Runs :
         \/ pc'[q] \notin Writing \cup {"llm"}
         \/ /\ sess'[q] = sess[q] /\ pc'[q] = pc[q] /\ base'[q] = base[q]
            /\ \A t \in Sessions : spoiled'[t] = {} /\ sess[q] = t /\ pc[q] \in Writing /\ q \in aborted'
                                     => q \in aborted
  BY <1>1, <1>2, <1>8
<1> QED
  BY <1>1, <1>3, <1>4, <1>5, <1>6, <1>7, <1>8, <1>9, RunsOnly

\* The commands of the window that touch no history.
LEMMA PlainCommands ==
  ASSUME IInvAll, NEW s \in Sessions,
         Cancel(s) \/ Archive(s) \/ Restore(s) \/ Delete(s) \/ DeleteArchived(s)
  PROVE  IInvHistory'
<1>1. UNCHANGED <<saved, cached, opened, ui, fresh, order, base, pc, sess>> /\ ui = Idle
  BY DEF Cancel, Archive, Restore, Delete, DeleteArchived, rowVars, memVars, winVars, runVars, Unused
<1>2. /\ order \in Seq(Sessions) /\ base \in [Runs -> Histories] /\ IInvHandles /\ HistoryTypes
  BY DEF IInvAll, IInvHistory, HistoryTypes
<1>3. \A q \in Runs : InFlight(q)' => sess'[q] \in opened
  BY <1>1 DEF IInvAll, IInvHistory, Known
<1>4. \A x : Cached(x)' = Cached(x)
  BY <1>1 DEF Cached
<1>5. /\ aborted \subseteq aborted'
      /\ spoiled' \in [Sessions -> SUBSET {"evicted", "stale", "late"}]
      /\ \A t \in Sessions : spoiled[t] \subseteq spoiled'[t]
      /\ \A q \in Runs : \A t \in Sessions :
           spoiled'[t] = {} /\ sess[q] = t /\ pc[q] \in Writing /\ q \in aborted' => q \in aborted
  <2>1. CASE Cancel(s)
    <3>1. aborted' = aborted \cup ({handles[s]} \ {None}) /\ spoiled' = Mark(s, Late(s))
      BY <2>1 DEF Cancel
    <3> QED
      BY <1>2, <3>1, Aborts
  <2>2. CASE ~Cancel(s)
    <3>1. UNCHANGED <<aborted, spoiled>>
      BY <2>2 DEF Archive, Restore, Delete, DeleteArchived, runVars
    <3> QED
      BY <1>2, <3>1 DEF HistoryTypes
  <2> QED
    BY <2>1, <2>2
<1>6. ui.op \notin {"retry", "retryStore"}
  BY <1>1 DEF Idle
<1>7. \A q \in Runs : /\ sess'[q] = sess[q] /\ pc'[q] = pc[q] /\ base'[q] = base[q]
                      /\ \A t \in Sessions : spoiled'[t] = {} /\ sess[q] = t /\ pc[q] \in Writing
                                               /\ q \in aborted' => q \in aborted
  BY <1>1, <1>5
<1> QED
  BY <1>1, <1>2, <1>3, <1>4, <1>5, <1>6, <1>7, RunsOnly

\* One run moves on, holding what a turn holds there.
LEMMA OneMoves ==
  ASSUME IInvAll, NEW r \in Runs, NEW place,
         UNCHANGED <<saved, cached, opened, ui, fresh, sess, aborted, handles>>,
         order' \in Seq(Sessions), \A s : Cached(s)' = Cached(s),
         pc[r] \in Live \ {"store"}, pc' = [pc EXCEPT ![r] = place],
         base' \in [Runs -> Histories], \A q \in Runs \ {r} : base'[q] = base[q],
         spoiled' \in [Sessions -> SUBSET {"evicted", "stale", "late"}],
         \A s \in Sessions : spoiled[s] \subseteq spoiled'[s],
         \A s \in Sessions : TurnHolds(r, s)'
  PROVE  IInvHistory'
<1>1. pc \in [Runs -> Places]
  BY DEF IInvAll, IInvHandles, HandleTypes
<1>2. pc'[r] = place /\ \A q \in Runs \ {r} : pc'[q] = pc[q]
  BY <1>1
<1>3. \A q \in Runs : InFlight(q)' => sess'[q] \in opened
  BY <1>2 DEF IInvAll, IInvHistory, Known
<1>4. ui.op \in {"retry", "retryStore"} => handles'[ui.session] = None
  BY DEF IInvAll, IInvHistory, Known, Idle
<1>5. \A q \in Runs : pc[q] = "store" => sess'[q] = sess[q] /\ pc'[q] = "store"
  BY <1>2
<1>6. \A q \in Runs :
         \/ pc'[q] \notin Writing \cup {"llm"}
         \/ /\ sess'[q] = sess[q] /\ pc'[q] = pc[q] /\ base'[q] = base[q]
            /\ \A s \in Sessions : spoiled'[s] = {} /\ sess[q] = s /\ pc[q] \in Writing /\ q \in aborted'
                                     => q \in aborted
         \/ \A s \in Sessions : TurnHolds(q, s)'
  BY <1>2
<1> QED
  BY <1>3, <1>4, <1>5, <1>6, RunsOnly

\* A turn reads what its session's row holds, pruned, if nothing has spoiled the session.
LEMMA ReadHistoryHolds ==
  ASSUME IInvAll, NEW r \in Runs, ReadHistory(r)
  PROVE  IInvHistory'
<1>1. pc[r] = "read" /\ UNCHANGED <<saved, cached, opened, ui, fresh, sess, aborted, handles, spoiled>>
  BY DEF ReadHistory, rowVars, winVars
<1>2. PICK s \in Sessions : s = sess[r]
  BY <1>1 DEF IInvAll, IInvHandles, Unborn
<1>3. /\ pc' = [pc EXCEPT ![r] = "llm"] /\ base' = [base EXCEPT ![r] = Mem(s)]
      /\ order' = IF Cached(s) THEN Recent(order, s) ELSE order
  BY <1>2 DEF ReadHistory, Goto, Mem, Touch
<1>4. /\ IInvHandles /\ HistoryTypes /\ Known /\ SessionHolds(s)
      /\ pc \in [Runs -> Places] /\ base \in [Runs -> Histories] /\ order \in Seq(Sessions)
      /\ spoiled \in [Sessions -> SUBSET {"evicted", "stale", "late"}]
  BY DEF IInvAll, IInvHandles, HandleTypes, IInvHistory, HistoryTypes
<1>5. order' \in Seq(Sessions) /\ Range(order') = Range(order)
  <2>1. CASE Cached(s)
    <3>1. Recent(order, s) \in Seq(Sessions) /\ Range(Recent(order, s)) = Range(order) \cup {s}
      BY <1>4, RecentIs
    <3>2. s \in Range(order) /\ order' = Recent(order, s)
      BY <1>3, <2>1 DEF Cached
    <3> QED
      BY <3>1, <3>2
  <2>2. CASE ~Cached(s)
    <3>1. order' = order
      BY <1>3, <2>2
    <3> QED
      BY <1>4, <3>1
  <2> QED
    BY <2>1, <2>2
<1>6. \A x : Cached(x)' = Cached(x)
  BY <1>5 DEF Cached
<1>7. base' \in [Runs -> Histories] /\ base'[r] = Mem(s) /\ \A q \in Runs \ {r} : base'[q] = base[q]
  <2>1. Mem(s) \in Histories
    BY <1>4 DEF Mem, HistoryTypes, Histories
  <2> QED
    BY <1>3, <1>4, <2>1
<1>8. ASSUME spoiled[s] = {}, r \notin aborted PROVE Mem(s) = Prune(saved[s])
  <2>1. InFlight(r) /\ s \in opened
    BY <1>1, <1>2, <1>4 DEF Known
  <2>2. InStep(s)
    BY <1>4, <1>8, <2>1 DEF SessionHolds, MemHolds
  <2>3. ASSUME NEW q \in Runs, sess[q] = s, pc[q] = "store" PROVE FALSE
    <3>1. TurnHolds(q, s)
      BY <1>4 DEF SessionHolds
    <3>2. q \notin aborted
      BY <1>8, <2>3, <3>1 DEF TurnHolds
    <3> QED
      BY <1>1, <1>2, <1>4, <1>8, <2>1, <2>3, <3>2, OnlyTurn
  <2>4. ASSUME ui.op = "retryStore", ui.session = s PROVE FALSE
    <3>1. handles[s] = None
      BY <1>4, <2>4 DEF Known, Idle
    <3>2. handles[s] = r
      BY <1>2, <1>4, <1>8, <2>1 DEF IInvHandles, HandlesTrackRuns
    <3> QED
      BY <3>1, <3>2
  <2> QED
    BY <2>2, <2>3, <2>4 DEF InStep
<1>9. ASSUME NEW t \in Sessions PROVE TurnHolds(r, t)'
  <2>1. pc'[r] = "llm"
    BY <1>3, <1>4
  <2> QED
    BY <1>1, <1>2, <1>7, <1>8, <2>1 DEF TurnHolds
<1> QED
  BY <1>1, <1>3, <1>4, <1>5, <1>6, <1>7, <1>9, OneMoves

LEMMA StreamEndsHolds ==
  ASSUME IInvAll, NEW r \in Runs, StreamEnds(r)
  PROVE  IInvHistory'
<1>1. pc[r] = "llm" /\ UNCHANGED <<saved, cached, order, opened, ui, fresh, sess, base, aborted, handles>>
  BY DEF StreamEnds, rowVars, memVars, winVars
<1>2. PICK s \in Sessions : s = sess[r]
  BY <1>1 DEF IInvAll, IInvHandles, Unborn
<1>3. PICK place \in {"persist", "snapshot"} : pc' = [pc EXCEPT ![r] = place]
  BY DEF StreamEnds, Goto
<1>4. /\ SessionHolds(s) /\ pc \in [Runs -> Places] /\ base \in [Runs -> Histories] /\ order \in Seq(Sessions)
      /\ spoiled \in [Sessions -> SUBSET {"evicted", "stale", "late"}]
  BY DEF IInvAll, IInvHandles, HandleTypes, IInvHistory, HistoryTypes
<1>5. spoiled' = [spoiled EXCEPT ![s] = @ \cup (IF r \in aborted THEN {"late"} ELSE {})]
  BY <1>2 DEF StreamEnds, Mark
<1>6. /\ spoiled' \in [Sessions -> SUBSET {"evicted", "stale", "late"}]
      /\ \A t \in Sessions : spoiled[t] \subseteq spoiled'[t]
      /\ spoiled'[s] = {} => r \notin aborted /\ spoiled[s] = {}
  BY <1>4, <1>5
<1>7. ASSUME NEW t \in Sessions PROVE TurnHolds(r, t)'
  <2>1. pc'[r] = place
    BY <1>3, <1>4
  <2>2. TurnHolds(r, s)
    BY <1>4 DEF SessionHolds
  <2> QED
    BY <1>1, <1>2, <1>6, <2>1, <2>2 DEF TurnHolds
<1>8. \A x : Cached(x)' = Cached(x)
  BY <1>1 DEF Cached
<1> QED
  BY <1>1, <1>3, <1>4, <1>6, <1>7, <1>8, OneMoves

LEMMA SnapshotHolds ==
  ASSUME IInvAll, NEW r \in Runs, Snapshot(r)
  PROVE  IInvHistory'
<1>1. /\ pc[r] = "snapshot"
      /\ UNCHANGED <<saved, cached, order, opened, ui, fresh, sess, spoiled, aborted, handles>>
  BY DEF Snapshot, rowVars, memVars, winVars
<1>2. PICK s \in Sessions : s = sess[r]
  BY <1>1 DEF IInvAll, IInvHandles, Unborn
<1>3. /\ SessionHolds(s) /\ pc \in [Runs -> Places] /\ base \in [Runs -> Histories] /\ order \in Seq(Sessions)
      /\ saved \in [Sessions -> Histories] /\ spoiled \in [Sessions -> SUBSET {"evicted", "stale", "late"}]
  BY DEF IInvAll, IInvHandles, HandleTypes, IInvHistory, HistoryTypes
<1>4. \A x : Cached(x)' = Cached(x)
  BY <1>1 DEF Cached
<1>5. TurnHolds(r, s)
  BY <1>3 DEF SessionHolds
<1>6. CASE pc' = [pc EXCEPT ![r] = "failPersist"] /\ base' = [base EXCEPT ![r] = saved[s]]
  <2>1. pc'[r] = "failPersist" /\ base'[r] = saved[s]
    BY <1>3, <1>6
  <2>2. base' \in [Runs -> Histories] /\ \A q \in Runs \ {r} : base'[q] = base[q]
    BY <1>3, <1>6
  <2>3. \A t \in Sessions : TurnHolds(r, t)'
    BY <1>1, <1>2, <1>5, <2>1 DEF TurnHolds
  <2> QED
    BY <1>1, <1>3, <1>4, <1>6, <2>2, <2>3, OneMoves
<1>7. CASE pc' = [pc EXCEPT ![r] = "error"] /\ UNCHANGED base
  <2>1. pc'[r] = "error"
    BY <1>3, <1>7
  <2>2. \A t \in Sessions : TurnHolds(r, t)'
    BY <2>1 DEF TurnHolds
  <2> QED
    BY <1>1, <1>3, <1>4, <1>7, <2>2, OneMoves
<1> QED
  BY <1>2, <1>6, <1>7 DEF Snapshot, Goto

\* A turn nobody aborted, of a session nothing has spoiled, has the session to itself: no other run
\* works on its history and no retry is about to store one.
LEMMA Alone ==
  ASSUME IInvAll, NEW r \in Runs, NEW s \in Sessions, sess[r] = s, spoiled[s] = {}, InFlight(r), r \notin aborted
  PROVE  /\ \A q \in Runs \ {r} : sess[q] = s => pc[q] \notin Writing /\ (pc[q] = "llm" => q \in aborted)
         /\ ~(ui.op = "retryStore" /\ ui.session = s)
<1>1. IInvHandles /\ Known /\ SessionHolds(s)
  BY DEF IInvAll, IInvHistory
<1>2. ASSUME NEW q \in Runs \ {r}, sess[q] = s
      PROVE  pc[q] \notin Writing /\ (pc[q] = "llm" => q \in aborted)
  <2>1. InFlight(q) => q \in aborted
    BY <1>1, <1>2, OnlyTurn
  <2>2. pc[q] \in Writing => q \notin aborted
    BY <1>1, <1>2 DEF SessionHolds, TurnHolds
  <2> QED
    BY <2>1, <2>2
<1>3. ASSUME ui.op = "retryStore", ui.session = s PROVE FALSE
  <2>1. handles[s] = None
    BY <1>1, <1>3 DEF Known, Idle
  <2>2. handles[s] = r
    BY <1>1 DEF IInvHandles, HandlesTrackRuns
  <2> QED
    BY <2>1, <2>2
<1> QED
  BY <1>2, <1>3

\* What becomes of a session whose row and whose runs a step leaves alone.
LEMMA SessionKept ==
  ASSUME NEW s \in Sessions, SessionHolds(s), UNCHANGED <<sess, base, aborted>>,
         spoiled'[s] = {} => spoiled[s] = {}, saved'[s] = saved[s], Mem(s)' = Mem(s),
         s \in opened' \/ Cached(s)' => s \in opened \/ Cached(s) \/ Mem(s) = Prune(saved[s]),
         \A r \in Runs : sess[r] = s => pc'[r] = pc[r],
         ui.op = "retryStore" /\ ui.session = s => ui' = ui,
         ui'.op = "retryStore" /\ ui'.session = s => ui' = ui
  PROVE  SessionHolds(s)'
<1>1. MemHolds(s)'
  <2>1. MemHolds(s)
    BY DEF SessionHolds
  <2>2. \A r \in Runs : sess[r] = s /\ pc[r] = "store" => sess'[r] = s /\ pc'[r] = "store"
    OBVIOUS
  <2> QED
    BY <2>1, <2>2, MemKept
<1>2. ASSUME NEW r \in Runs PROVE TurnHolds(r, s)'
  <2>1. TurnHolds(r, s)
    BY DEF SessionHolds
  <2> QED
    BY <2>1, TurnKept
<1> QED
  BY <1>1, <1>2 DEF SessionHolds

\* A turn of s saves h and moves on; the memory of the session is not touched.
LEMMA RowWritten ==
  ASSUME IInvAll, NEW r \in Runs, NEW s \in Sessions, sess[r] = s, InFlight(r), NEW h \in Histories,
         UNCHANGED <<cached, order, opened, ui, fresh, sess, base, aborted, handles, spoiled>>,
         saved' = [saved EXCEPT ![s] = h], NEW place, pc' = [pc EXCEPT ![r] = place],
         SessionHolds(s)'
  PROVE  IInvHistory'
<1>1. HistoryTypes /\ Known /\ s \in opened /\ pc \in [Runs -> Places]
  BY DEF IInvAll, IInvHistory, IInvHandles, HandleTypes, Known
<1>2. HistoryTypes'
  BY <1>1 DEF HistoryTypes
<1>3. \A t \in Sessions \ {s} : saved'[t] = saved[t]
  BY <1>1 DEF HistoryTypes
<1>4. pc'[r] = place /\ \A q \in Runs \ {r} : pc'[q] = pc[q]
  BY <1>1
<1>5. \A x : Cached(x)' = Cached(x) /\ Mem(x)' = Mem(x)
  BY DEF Cached, Mem
<1>6. Known'
  <2>1. \A q \in Runs : InFlight(q)' => sess'[q] \in opened'
    BY <1>1, <1>4 DEF Known
  <2>2. fresh \subseteq Sessions \ {s}
    BY <1>1 DEF IInvAll, IInvTables, TableTypes, Known
  <2>3. \A x \in fresh' : x \notin opened' /\ saved'[x] = <<>> /\ ~Cached(x)'
    BY <1>1, <1>3, <1>5, <2>2 DEF Known
  <2>4. \/ ui' = Idle
        \/ /\ ui' \in [op : {"hydrate", "retry", "retryStore"}, session : Sessions, history : Histories]
           /\ ui'.session \notin fresh'
           /\ ui'.op # "hydrate" => handles'[ui'.session] = None
    BY <1>1 DEF Known
  <2> QED
    BY <2>1, <2>3, <2>4 DEF Known
<1>7. ASSUME NEW t \in Sessions \ {s} PROVE SessionHolds(t)'
  <2>1. SessionHolds(t)
    BY DEF IInvAll, IInvHistory
  <2>2. \A q \in Runs : sess[q] = t => pc'[q] = pc[q]
    BY <1>4
  <2>3. Mem(t)' = Mem(t) /\ Cached(t)' = Cached(t)
    BY <1>5
  <2> QED
    BY <1>3, <2>1, <2>2, <2>3, SessionKept
<1> QED
  BY <1>2, <1>6, <1>7 DEF IInvHistory

LEMMA PersistHolds ==
  ASSUME IInvAll, NEW r \in Runs, Persist(r)
  PROVE  IInvHistory'
<1>1. /\ pc[r] = "persist"
      /\ UNCHANGED <<cached, order, opened, ui, fresh, sess, base, spoiled, aborted, handles>>
  BY DEF Persist, memVars, winVars
<1>2. PICK s \in Sessions : s = sess[r]
  BY <1>1 DEF IInvAll, IInvHandles, Unborn
<1>3. /\ HistoryTypes /\ SessionHolds(s) /\ pc \in [Runs -> Places] /\ base \in [Runs -> Histories]
      /\ saved \in [Sessions -> Histories] /\ order \in Seq(Sessions)
      /\ spoiled \in [Sessions -> SUBSET {"evicted", "stale", "late"}]
  BY DEF IInvAll, IInvHandles, HandleTypes, IInvHistory, HistoryTypes
<1>4. CASE saved' = [saved EXCEPT ![s] = Append(base[r], r)] /\ pc' = [pc EXCEPT ![r] = "store"]
  <2>1. /\ saved'[s] = Append(base[r], r) /\ Append(base[r], r) \in Histories
        /\ pc'[r] = "store" /\ \A q \in Runs \ {r} : pc'[q] = pc[q]
    BY <1>3, <1>4 DEF Histories
  <2>2. SessionHolds(s)'
    <3>1. CASE spoiled[s] # {}
      BY <1>1, <3>1 DEF SessionHolds, MemHolds, TurnHolds
    <3>2. CASE spoiled[s] = {}
      <4>1. r \notin aborted
        BY <1>1, <1>2, <1>3, <3>2 DEF SessionHolds, TurnHolds
      <4>2. /\ \A q \in Runs \ {r} : sess[q] = s => pc[q] \notin Writing /\ (pc[q] = "llm" => q \in aborted)
            /\ ~(ui.op = "retryStore" /\ ui.session = s)
        BY <1>1, <1>2, <3>2, <4>1, Alone
      <4>3. InStep(s)'
        BY <1>1, <1>2, <2>1 DEF InStep
      <4>4. MemHolds(s)'
        BY <1>1, <4>2, <4>3 DEF MemHolds
      <4>5. TurnHolds(r, s)'
        BY <1>1, <2>1, <4>1 DEF TurnHolds
      <4>6. ASSUME NEW q \in Runs \ {r} PROVE TurnHolds(q, s)'
        BY <1>1, <2>1, <4>2 DEF TurnHolds
      <4> QED
        BY <4>4, <4>5, <4>6 DEF SessionHolds
    <3> QED
      BY <3>1, <3>2
  <2> QED
    BY <1>1, <1>2, <1>4, <2>1, <2>2, RowWritten
<1>5. CASE pc' = [pc EXCEPT ![r] = "done"] /\ UNCHANGED saved
  <2>1. \A x : Cached(x)' = Cached(x)
    BY <1>1 DEF Cached
  <2>2. pc'[r] = "done"
    BY <1>3, <1>5
  <2>3. \A t \in Sessions : TurnHolds(r, t)'
    BY <2>2 DEF TurnHolds
  <2> QED
    BY <1>1, <1>3, <1>5, <2>1, <2>3, OneMoves
<1> QED
  BY <1>2, <1>4, <1>5 DEF Persist, Goto

LEMMA FailPersistHolds ==
  ASSUME IInvAll, NEW r \in Runs, FailPersist(r)
  PROVE  IInvHistory'
<1>1. /\ pc[r] = "failPersist"
      /\ UNCHANGED <<cached, order, opened, ui, fresh, sess, base, spoiled, aborted, handles>>
  BY DEF FailPersist, memVars, winVars
<1>2. PICK s \in Sessions : s = sess[r]
  BY <1>1 DEF IInvAll, IInvHandles, Unborn
<1>3. /\ HistoryTypes /\ SessionHolds(s) /\ pc \in [Runs -> Places] /\ base \in [Runs -> Histories]
      /\ saved \in [Sessions -> Histories]
  BY DEF IInvAll, IInvHandles, HandleTypes, IInvHistory, HistoryTypes
<1>4. pc' = [pc EXCEPT ![r] = "error"] /\ (saved' = saved \/ saved' = [saved EXCEPT ![s] = base[r]])
  BY <1>2 DEF FailPersist, Goto
<1>5. PICK h \in Histories : saved' = [saved EXCEPT ![s] = h] /\ h \in {saved[s], base[r]}
  BY <1>3, <1>4
<1>6. saved'[s] = h /\ pc'[r] = "error" /\ \A q \in Runs \ {r} : pc'[q] = pc[q]
  BY <1>3, <1>4, <1>5
<1>7. SessionHolds(s)'
  <2>1. CASE spoiled[s] # {}
    BY <1>1, <2>1 DEF SessionHolds, MemHolds, TurnHolds
  <2>2. CASE spoiled[s] = {}
    <3>1. saved'[s] = saved[s]
      BY <1>1, <1>2, <1>3, <1>5, <1>6, <2>2 DEF SessionHolds, TurnHolds
    <3>2. MemHolds(s)'
      <4>1. MemHolds(s) /\ Mem(s)' = Mem(s) /\ Cached(s)' = Cached(s)
        BY <1>1, <1>3 DEF SessionHolds, Mem, Cached
      <4>2. \A q \in Runs : sess[q] = s /\ pc[q] = "store" => sess'[q] = s /\ pc'[q] = "store"
        BY <1>1, <1>6
      <4> QED
        BY <1>1, <3>1, <4>1, <4>2, MemKept
    <3>3. TurnHolds(r, s)'
      BY <1>6 DEF TurnHolds
    <3>4. ASSUME NEW q \in Runs \ {r} PROVE TurnHolds(q, s)'
      <4>1. TurnHolds(q, s)
        BY <1>3 DEF SessionHolds
      <4> QED
        BY <1>1, <1>6, <3>1, <4>1, TurnKept
    <3> QED
      BY <3>2, <3>3, <3>4 DEF SessionHolds
  <2> QED
    BY <2>1, <2>2
<1> QED
  BY <1>1, <1>2, <1>4, <1>5, <1>7, RowWritten

\* A history is stored in memory for s: s is in step if what is stored is what is saved, and the
\* session evicted to make room is marked.
LEMMA Stored ==
  ASSUME IInvAll, NEW s \in Sessions, NEW h \in Histories, StoreHistory(s, h),
         NEW C \in SUBSET {"evicted", "stale", "late"}, spoiled' = SpoiledBy(s, C),
         UNCHANGED <<sess, base, aborted>>,
         opened' \subseteq opened \cup {s},
         saved' \in [Sessions -> Histories], \A t \in Sessions \ {s} : saved'[t] = saved[t],
         \A r \in Runs : sess[r] \in Sessions \ {s} => pc'[r] = pc[r],
         ui' = ui \/ ui' = Idle,
         ui' # ui => ui.session = s,
         C = {} /\ spoiled[s] = {} => h = saved'[s] /\ ~(ui'.op = "retryStore" /\ ui'.session = s),
         \A r \in Runs : TurnHolds(r, s)'
  PROVE  HistoryTypes' /\ \A t \in Sessions : SessionHolds(t)'
<1>1. /\ HistoryTypes /\ \A t \in Sessions : SessionHolds(t)
      /\ spoiled \in [Sessions -> SUBSET {"evicted", "stale", "late"}]
  BY DEF IInvAll, IInvHistory, HistoryTypes
<1>2. /\ order' \in Seq(Sessions) /\ cached' \in [Sessions -> Histories]
      /\ Mem(s)' = Prune(h)
      /\ \A t : Cached(t)' => Cached(t) \/ t = s
      /\ \A t \in Sessions \ (Evicted(s) \cup {s}) : Mem(t)' = Mem(t)
      /\ s \notin Evicted(s) /\ Evicted(s) \subseteq Sessions
  BY <1>1, StoreIs
<1>3. spoiled' = [t \in Sessions |-> spoiled[t] \cup (IF t \in Evicted(s) THEN {"evicted"} ELSE {})
                                               \cup (IF t = s THEN C ELSE {})]
  BY DEF SpoiledBy
<1>4. /\ spoiled' \in [Sessions -> SUBSET {"evicted", "stale", "late"}]
      /\ \A t \in Sessions : spoiled'[t] = {} => spoiled[t] = {} /\ t \notin Evicted(s) /\ (t = s => C = {})
  <2> DEFINE causes(t) == spoiled[t] \cup (IF t \in Evicted(s) THEN {"evicted"} ELSE {})
                                     \cup (IF t = s THEN C ELSE {})
  <2>1. ASSUME NEW t \in Sessions
        PROVE  /\ causes(t) \in SUBSET {"evicted", "stale", "late"}
               /\ causes(t) = {} => spoiled[t] = {} /\ t \notin Evicted(s) /\ (t = s => C = {})
    <3>1. spoiled[t] \in SUBSET {"evicted", "stale", "late"}
      BY <1>1
    <3> QED
      BY <3>1
  <2>2. spoiled' = [t \in Sessions |-> causes(t)]
    BY <1>3
  <2> HIDE DEF causes
  <2> QED
    BY <2>1, <2>2
<1>5. HistoryTypes'
  BY <1>1, <1>2, <1>4 DEF HistoryTypes
<1>6. SessionHolds(s)'
  <2>1. spoiled'[s] = {} => Mem(s)' = Prune(saved'[s]) /\ ~(ui'.op = "retryStore" /\ ui'.session = s)
    BY <1>2, <1>4
  <2>2. MemHolds(s)'
    BY <2>1 DEF MemHolds, InStep
  <2> QED
    BY <2>2 DEF SessionHolds
<1>7. ASSUME NEW t \in Sessions \ {s} PROVE SessionHolds(t)'
  <2>1. CASE spoiled'[t] # {}
    BY <2>1 DEF SessionHolds, MemHolds, TurnHolds
  <2>2. CASE spoiled'[t] = {}
    <3>1. SessionHolds(t) /\ spoiled[t] = {} /\ Mem(t)' = Mem(t) /\ saved'[t] = saved[t]
      BY <1>1, <1>2, <1>4, <2>2
    <3>2. s # t
      OBVIOUS
    <3>3. t \in opened' \/ Cached(t)' => t \in opened \/ Cached(t) \/ Mem(t) = Prune(saved[t])
      BY <1>2
    <3>4. \A r \in Runs : sess[r] = t => pc'[r] = pc[r]
      OBVIOUS
    <3>5. /\ ui.op = "retryStore" /\ ui.session = t => ui' = ui
          /\ ui'.op = "retryStore" /\ ui'.session = t => ui' = ui
      BY <3>2 DEF Idle
    <3> QED
      BY <3>1, <3>3, <3>4, <3>5, SessionKept
  <2> QED
    BY <2>1, <2>2
<1> QED
  BY <1>5, <1>6, <1>7

\* What Known asks of a step that stores a history for s.
LEMMA KnownKept ==
  ASSUME IInvAll, NEW s \in Sessions, s \notin fresh',
         fresh' \subseteq fresh, opened \subseteq opened', opened' \subseteq opened \cup {s},
         \A t \in Sessions \ {s} : saved'[t] = saved[t],
         \A t : Cached(t)' => Cached(t) \/ t = s,
         UNCHANGED sess, \A r \in Runs : InFlight(r)' => InFlight(r),
         \/ ui' = Idle
         \/ UNCHANGED <<ui, handles>>
  PROVE  Known'
<1>1. Known /\ fresh \subseteq Sessions
  BY DEF IInvAll, IInvHistory, IInvTables, TableTypes
<1>2. \A r \in Runs : InFlight(r)' => sess'[r] \in opened'
  BY <1>1 DEF Known
<1>3. \A x \in fresh' : x \notin opened' /\ saved'[x] = <<>> /\ ~Cached(x)'
  <2>1. \A x \in fresh' : x \in fresh /\ x \in Sessions \ {s}
    BY <1>1
  <2> QED
    BY <1>1, <2>1 DEF Known
<1>4. \/ ui' = Idle
      \/ /\ ui' \in [op : {"hydrate", "retry", "retryStore"}, session : Sessions, history : Histories]
         /\ ui'.session \notin fresh'
         /\ ui'.op # "hydrate" => handles'[ui'.session] = None
  BY <1>1 DEF Known
<1> QED
  BY <1>2, <1>3, <1>4 DEF Known

LEMMA StoreHolds ==
  ASSUME IInvAll, NEW r \in Runs, Store(r)
  PROVE  IInvHistory'
<1>1. pc[r] = "store" /\ UNCHANGED <<saved, opened, ui, fresh, sess, base, aborted, handles>>
  BY DEF Store, rowVars, winVars
<1>2. PICK s \in Sessions : s = sess[r]
  BY <1>1 DEF IInvAll, IInvHandles, Unborn
<1>3. PICK h : h = Append(base[r], r)
  OBVIOUS
<1>4. pc' = [pc EXCEPT ![r] = "done"] /\ StoreHistory(s, h) /\ spoiled' = SpoiledBy(s, {})
  BY <1>2, <1>3 DEF Store, Goto
<1>5. /\ HistoryTypes /\ Known /\ SessionHolds(s) /\ pc \in [Runs -> Places] /\ base \in [Runs -> Histories]
      /\ saved \in [Sessions -> Histories]
      /\ spoiled \in [Sessions -> SUBSET {"evicted", "stale", "late"}]
  BY DEF IInvAll, IInvHandles, HandleTypes, IInvHistory, HistoryTypes
<1>6. h \in Histories
  BY <1>3, <1>5 DEF Histories
<1>7. pc'[r] = "done" /\ \A q \in Runs \ {r} : pc'[q] = pc[q]
  BY <1>4, <1>5
<1>8. spoiled'[s] = {} => spoiled[s] = {}
  BY <1>4 DEF SpoiledBy
<1>9. ASSUME spoiled[s] = {} PROVE h = saved[s] /\ ~(ui.op = "retryStore" /\ ui.session = s)
  <2>1. r \notin aborted /\ saved[s] = h
    BY <1>1, <1>2, <1>3, <1>5, <1>9 DEF SessionHolds, TurnHolds
  <2> QED
    BY <1>1, <1>2, <1>9, <2>1, Alone
<1>10. ASSUME NEW q \in Runs PROVE TurnHolds(q, s)'
  <2>1. TurnHolds(q, s)
    BY <1>5 DEF SessionHolds
  <2>2. CASE q = r
    BY <1>7, <2>2 DEF TurnHolds
  <2>3. CASE q # r
    BY <1>1, <1>7, <1>8, <2>1, <2>3, TurnKept
  <2> QED
    BY <2>2, <2>3
<1>11. HistoryTypes' /\ \A t \in Sessions : SessionHolds(t)'
  BY <1>1, <1>2, <1>4, <1>5, <1>6, <1>7, <1>9, <1>10, Stored
<1>12. Known'
  <2>1. s \in opened /\ s \notin fresh
    BY <1>1, <1>2, <1>5 DEF Known
  <2>2. \A t : Cached(t)' => Cached(t) \/ t = s
    BY <1>4, <1>5, <1>6, StoreIs
  <2>3. \A q \in Runs : InFlight(q)' => InFlight(q)
    BY <1>1, <1>7
  <2> QED
    BY <1>1, <2>1, <2>2, <2>3, KnownKept
<1> QED
  BY <1>11, <1>12 DEF IInvHistory

\* Hydration and the end of a retry.
LEMMA WindowStores ==
  ASSUME IInvAll, Hydrate \/ RetryStore
  PROVE  IInvHistory'
<1>1. /\ UNCHANGED <<saved, fresh, sess, base, aborted, handles, pc>> /\ ui' = Idle
      /\ ui.op \in {"hydrate", "retryStore"}
  BY DEF Hydrate, RetryStore, rowVars, runVars
<1>2. HistoryTypes /\ Known /\ \A t \in Sessions : SessionHolds(t)
  BY DEF IInvAll, IInvHistory
<1>3. PICK s \in Sessions, h \in Histories : s = ui.session /\ h = ui.history /\ s \notin fresh
  BY <1>1, <1>2 DEF Known, Idle
<1>4. /\ StoreHistory(s, h) /\ spoiled' = SpoiledBy(s, Stale(s, h))
      /\ opened \subseteq opened' /\ opened' \subseteq opened \cup {s}
  BY <1>3 DEF Hydrate, RetryStore
<1>5. Stale(s, h) \in SUBSET {"evicted", "stale", "late"} /\ (Stale(s, h) = {} => h = saved[s])
  BY DEF Stale
<1>6. saved \in [Sessions -> Histories] /\ saved' \in [Sessions -> Histories]
  BY <1>1, <1>2 DEF HistoryTypes
<1>7. spoiled'[s] = {} => spoiled[s] = {}
  BY <1>4 DEF SpoiledBy
<1>8. ASSUME NEW q \in Runs PROVE TurnHolds(q, s)'
  <2>1. TurnHolds(q, s)
    BY <1>2 DEF SessionHolds
  <2> QED
    BY <1>1, <1>7, <2>1, TurnKept
<1>9. HistoryTypes' /\ \A t \in Sessions : SessionHolds(t)'
  <2>1. ui'.op # "retryStore"
    BY <1>1 DEF Idle
  <2> QED
    BY <1>1, <1>3, <1>4, <1>5, <1>6, <1>8, <2>1, Stored
<1>10. \A t : Cached(t)' => Cached(t) \/ t = s
  BY <1>2, <1>4, StoreIs
<1>11. Known'
  BY <1>1, <1>3, <1>4, <1>10, KnownKept
<1> QED
  BY <1>9, <1>11 DEF IInvHistory

\* Nobody else knows the id of a fork: no run works for it.
LEMMA ForkHolds ==
  ASSUME IInvAll, NEW s \in Sessions, NEW n \in Nat, NEW t \in Sessions, Fork(s, n, t)
  PROVE  IInvHistory'
<1>1. /\ ui = Idle /\ t \in fresh /\ n \in 1..Len(saved[s])
      /\ UNCHANGED <<sess, base, aborted, handles, pc, ui>>
      /\ fresh' = fresh \ {t} /\ opened' = opened \cup {t}
      /\ saved' = [saved EXCEPT ![t] = SubSeq(saved[s], 1, n)]
  BY DEF Fork, Unused, runVars
<1>2. HistoryTypes /\ Known /\ \A x \in Sessions : SessionHolds(x)
  BY DEF IInvAll, IInvHistory
<1>3. saved \in [Sessions -> Histories]
  BY <1>2 DEF HistoryTypes
<1>4. PICK h \in Histories : h = SubSeq(saved[s], 1, n)
  <2>1. saved[s] \in Seq(Runs)
    BY <1>3 DEF Histories
  <2>2. SubSeq(saved[s], 1, n) \in Seq(Runs)
    BY <1>1, <2>1
  <2> QED
    BY <2>2 DEF Histories
<1>5. saved' \in [Sessions -> Histories] /\ saved'[t] = h /\ \A x \in Sessions \ {t} : saved'[x] = saved[x]
  BY <1>1, <1>3, <1>4
<1>6. StoreHistory(t, h) /\ spoiled' = SpoiledBy(t, {})
  BY <1>5 DEF Fork
<1>7. ASSUME NEW q \in Runs PROVE TurnHolds(q, t)'
  <2>1. ASSUME sess[q] = t, InFlight(q) PROVE FALSE
    BY <1>1, <1>2, <2>1 DEF Known
  <2> QED
    BY <1>1, <2>1 DEF TurnHolds
<1>8. HistoryTypes' /\ \A x \in Sessions : SessionHolds(x)'
  <2>1. ui'.op # "retryStore"
    BY <1>1 DEF Idle
  <2> QED
    BY <1>1, <1>5, <1>6, <1>7, <2>1, Stored
<1>9. \A x : Cached(x)' => Cached(x) \/ x = t
  BY <1>2, <1>6, StoreIs
<1>10. Known'
  BY <1>1, <1>5, <1>9, KnownKept
<1> QED
  BY <1>8, <1>10 DEF IInvHistory

\* A command of the window that writes neither a row nor the memory of a session.
LEMMA WindowOnly ==
  ASSUME IInvAll, NEW s \in Sessions,
         UNCHANGED <<saved, cached, order, sess, base, aborted, handles, pc, spoiled>>,
         ui.op # "retryStore", ui'.op # "retryStore",
         fresh' \subseteq fresh, opened' = opened \/ (opened' = opened \cup {s} /\ s \notin fresh'),
         s \in opened' => s \in opened \/ Cached(s) \/ Mem(s) = Prune(saved[s]),
         \/ ui' = Idle
         \/ UNCHANGED ui
         \/ /\ ui' \in [op : {"hydrate", "retry"}, session : Sessions, history : Histories]
            /\ ui'.session \notin fresh'
            /\ ui'.op # "hydrate" => handles[ui'.session] = None
  PROVE  IInvHistory'
<1>1. HistoryTypes /\ Known /\ \A t \in Sessions : SessionHolds(t)
  BY DEF IInvAll, IInvHistory
<1>2. HistoryTypes'
  BY <1>1 DEF HistoryTypes
<1>3. \A x : Cached(x)' = Cached(x) /\ Mem(x)' = Mem(x)
  BY DEF Cached, Mem
<1>4. Known'
  <2>1. \A r \in Runs : InFlight(r)' => sess'[r] \in opened'
    BY <1>1 DEF Known
  <2>2. \A x \in fresh' : x \notin opened' /\ saved'[x] = <<>> /\ ~Cached(x)'
    BY <1>1, <1>3 DEF Known
  <2>3. \/ ui' = Idle
        \/ /\ ui' \in [op : {"hydrate", "retry", "retryStore"}, session : Sessions, history : Histories]
           /\ ui'.session \notin fresh'
           /\ ui'.op # "hydrate" => handles'[ui'.session] = None
    <3>1. CASE UNCHANGED ui
      BY <1>1, <3>1 DEF Known
    <3>2. CASE /\ ui' \in [op : {"hydrate", "retry"}, session : Sessions, history : Histories]
               /\ ui'.session \notin fresh'
               /\ ui'.op # "hydrate" => handles[ui'.session] = None
      BY <3>2
    <3> QED
      BY <3>1, <3>2
  <2> QED
    BY <2>1, <2>2, <2>3 DEF Known
<1>5. ASSUME NEW t \in Sessions PROVE SessionHolds(t)'
  <2>1. t \in opened' \/ Cached(t)' => t \in opened \/ Cached(t) \/ Mem(t) = Prune(saved[t])
    BY <1>3
  <2>2. SessionHolds(t) /\ Mem(t)' = Mem(t)
    BY <1>1, <1>3
  <2> QED
    BY <2>1, <2>2, SessionKept
<1> QED
  BY <1>2, <1>4, <1>5 DEF IInvHistory

LEMMA WindowHolds ==
  ASSUME IInvAll, NEW s \in Sessions,
         CreateSession(s) \/ GetSession(s) \/ \E n \in 0..Len(saved[s]) : Retry(s, n)
  PROVE  IInvHistory'
<1>1. ui = Idle /\ UNCHANGED <<saved, cached, order, sess, base, aborted, handles, pc, spoiled>>
  BY DEF CreateSession, GetSession, Retry, Unused, rowVars, memVars, runVars
<1>2. HistoryTypes /\ Known /\ SessionHolds(s) /\ saved[s] \in Seq(Runs)
  BY DEF IInvAll, IInvHistory, HistoryTypes, Histories
<1>3. ui.op # "retryStore"
  BY <1>1 DEF Idle
<1>4. CASE CreateSession(s)
  <2>1. s \in fresh /\ fresh' = fresh \ {s} /\ opened' = opened \cup {s} /\ ui' = ui
    BY <1>4 DEF CreateSession
  <2>2. Mem(s) = Prune(saved[s])
    BY <1>2, <2>1, PruneIs DEF Known, Mem
  <2> QED
    BY <1>1, <1>3, <2>1, <2>2, WindowOnly
<1>5. CASE GetSession(s)
  <2>1. s \notin fresh /\ fresh' = fresh
    BY <1>5 DEF GetSession, rowVars, IInvAll, IInvTables, OneHome
  <2>2. CASE saved[s] = <<>>
    <3>1. opened' = opened \cup {s} /\ ui' = ui
      BY <1>5, <2>2 DEF GetSession
    <3>2. s \in opened' => s \in opened \/ Cached(s) \/ Mem(s) = Prune(saved[s])
      BY <2>2, PruneIs DEF Mem
    <3> QED
      BY <1>1, <1>3, <2>1, <3>1, <3>2, WindowOnly
  <2>3. CASE saved[s] # <<>>
    <3>1. ui' = Busy("hydrate", s, saved[s]) /\ opened' = opened
      BY <1>5, <2>3 DEF GetSession
    <3>2. /\ ui' \in [op : {"hydrate", "retry"}, session : Sessions, history : Histories]
          /\ ui'.op = "hydrate" /\ ui'.session = s
      BY <1>2, <3>1 DEF Busy, Histories
    <3> QED
      BY <1>1, <1>3, <2>1, <3>1, <3>2, WindowOnly
  <2> QED
    BY <2>2, <2>3
<1>6. ASSUME NEW n \in 0..Len(saved[s]), Retry(s, n) PROVE IInvHistory'
  <2>1. /\ handles[s] = None /\ fresh' = fresh /\ opened' = opened
        /\ ui' = Busy("retry", s, SubSeq(saved[s], 1, n))
    BY <1>6 DEF Retry, rowVars
  <2>2. s \notin fresh
    BY <1>6 DEF Retry, IInvAll, IInvTables, OneHome
  <2>3. SubSeq(saved[s], 1, n) \in Histories
    <3>1. SubSeq(saved[s], 1, n) \in Seq(Runs)
      BY <1>2, <1>6
    <3> QED
      BY <3>1 DEF Histories
  <2>4. /\ ui' \in [op : {"hydrate", "retry"}, session : Sessions, history : Histories]
        /\ ui'.op = "retry" /\ ui'.session = s
    BY <2>1, <2>3 DEF Busy
  <2> QED
    BY <1>1, <1>3, <2>1, <2>2, <2>4, WindowOnly
<1> QED
  BY <1>4, <1>5, <1>6

\* A retry truncates the row of a session in which no run is left but aborted ones.
LEMMA RetryPersistHolds ==
  ASSUME IInvAll, RetryPersist
  PROVE  IInvHistory'
<1>1. UNCHANGED <<cached, order, fresh, sess, base, aborted, handles, pc, opened, spoiled>> /\ ui.op = "retry"
  BY DEF RetryPersist, memVars, runVars
<1>2. /\ HistoryTypes /\ Known /\ IInvHandles /\ \A t \in Sessions : SessionHolds(t)
      /\ saved \in [Sessions -> Histories]
  BY DEF IInvAll, IInvHistory, HistoryTypes
<1>3. PICK s \in Sessions, h \in Histories :
        s = ui.session /\ h = ui.history /\ s \notin fresh /\ handles[s] = None
  BY <1>1, <1>2 DEF Known, Idle
<1>4. CASE saved' = saved /\ ui' = Idle
  <2>1. ui.op # "retryStore" /\ ui'.op # "retryStore"
    BY <1>1, <1>4 DEF Idle
  <2> QED
    BY <1>1, <1>3, <1>4, <2>1, WindowOnly
<1>5. CASE saved' = [saved EXCEPT ![s] = h] /\ ui' = Busy("retryStore", s, h)
  <2>1. saved' \in [Sessions -> Histories] /\ saved'[s] = h /\ \A t \in Sessions \ {s} : saved'[t] = saved[t]
    BY <1>2, <1>5
  <2>2. HistoryTypes'
    BY <1>1, <1>2, <2>1 DEF HistoryTypes
  <2>3. \A x : Cached(x)' = Cached(x) /\ Mem(x)' = Mem(x)
    BY <1>1 DEF Cached, Mem
  <2>4. ui'.op = "retryStore" /\ ui'.session = s /\ ui'.history = h
    BY <1>5 DEF Busy
  <2>5. Known'
    <3>1. \A r \in Runs : InFlight(r)' => sess'[r] \in opened'
      BY <1>1, <1>2 DEF Known
    <3>2. fresh \subseteq Sessions \ {s}
      BY <1>3 DEF IInvAll, IInvTables, TableTypes
    <3>3. \A x \in fresh' : x \notin opened' /\ saved'[x] = <<>> /\ ~Cached(x)'
      BY <1>1, <1>2, <2>1, <2>3, <3>2 DEF Known
    <3>4. /\ ui' \in [op : {"hydrate", "retry", "retryStore"}, session : Sessions, history : Histories]
          /\ ui'.session \notin fresh'
          /\ ui'.op # "hydrate" => handles'[ui'.session] = None
      BY <1>1, <1>3, <1>5 DEF Busy
    <3> QED
      BY <3>1, <3>3, <3>4 DEF Known
  <2>6. SessionHolds(s)'
    <3>1. MemHolds(s)'
      BY <2>1, <2>4 DEF MemHolds, InStep
    <3>2. ASSUME NEW r \in Runs PROVE TurnHolds(r, s)'
      <4>1. sess[r] = s /\ InFlight(r) => r \in aborted
        BY <1>2, <1>3 DEF IInvHandles, HandlesTrackRuns
      <4>2. TurnHolds(r, s)
        BY <1>2 DEF SessionHolds
      <4> QED
        BY <1>1, <4>1, <4>2 DEF TurnHolds
    <3> QED
      BY <3>1, <3>2 DEF SessionHolds
  <2>7. ASSUME NEW t \in Sessions \ {s} PROVE SessionHolds(t)'
    <3>1. /\ ui.op = "retryStore" /\ ui.session = t => ui' = ui
          /\ ui'.op = "retryStore" /\ ui'.session = t => ui' = ui
      BY <1>1, <2>4
    <3>2. SessionHolds(t) /\ Mem(t)' = Mem(t) /\ Cached(t)' = Cached(t)
      BY <1>2, <2>3
    <3> QED
      BY <1>1, <2>1, <3>1, <3>2, SessionKept
  <2> QED
    BY <2>2, <2>5, <2>6, <2>7 DEF IInvHistory
<1> QED
  BY <1>3, <1>4, <1>5 DEF RetryPersist

LEMMA RestartHistory ==
  ASSUME IInvAll, Restart
  PROVE  IInvHistory'
<1>1. /\ UNCHANGED <<saved, fresh>> /\ order' = <<>> /\ ui' = Idle /\ opened' = {}
      /\ cached' = [s \in Sessions |-> <<>>] /\ base' = [r \in Runs |-> <<>>]
      /\ spoiled' = [s \in Sessions |-> {}]
      /\ pc' = [r \in Runs |-> IF InFlight(r) THEN "lost" ELSE pc[r]]
  BY DEF Restart, rowVars
<1>2. HistoryTypes /\ Known /\ pc \in [Runs -> Places]
  BY DEF IInvAll, IInvHistory, IInvHandles, HandleTypes
<1>3. <<>> \in Histories /\ <<>> \in Seq(Sessions)
  BY DEF Histories
<1>4. HistoryTypes'
  BY <1>1, <1>2, <1>3 DEF HistoryTypes
<1>5. \A x : ~Cached(x)'
  <2>1. Range(<<>>) = {}
    BY DEF Range
  <2> QED
    BY <1>1, <2>1 DEF Cached
<1>6. \A r \in Runs : pc'[r] \notin Live
  BY <1>1, <1>2
<1>7. Known'
  BY <1>1, <1>2, <1>5, <1>6 DEF Known
<1>8. ASSUME NEW s \in Sessions PROVE SessionHolds(s)'
  <2>1. ui'.op # "retryStore"
    BY <1>1 DEF Idle
  <2> QED
    BY <1>1, <1>5, <1>6, <2>1 DEF SessionHolds, MemHolds, TurnHolds
<1> QED
  BY <1>4, <1>7, <1>8 DEF IInvHistory

LEMMA HistoryInit == Init => IInvHistory
<1> SUFFICES ASSUME Init PROVE IInvHistory
  OBVIOUS
<1>1. <<>> \in Histories /\ <<>> \in Seq(Sessions) /\ Range(<<>>) = {}
  BY DEF Histories, Range
<1>2. HistoryTypes
  BY <1>1 DEF Init, HistoryTypes
<1>3. Known
  BY <1>1 DEF Init, Known, Cached
<1>4. ASSUME NEW s \in Sessions PROVE SessionHolds(s)
  BY <1>1 DEF Init, SessionHolds, MemHolds, TurnHolds, Cached, Idle
<1> QED
  BY <1>2, <1>3, <1>4 DEF IInvHistory

LEMMA HistoryStep == IInvAll /\ [Next]_vars => IInvHistory'
<1> SUFFICES ASSUME IInvAll, [Next]_vars PROVE IInvHistory'
  OBVIOUS
<1>1. ASSUME NEW r \in Runs, NEW s \in Sessions, Invoke(r, s) PROVE IInvHistory'
  BY <1>1, InvokeHistory
<1>2. ASSUME NEW r \in Runs, Work(r) PROVE IInvHistory'
  <2>1. CASE Begin(r) \/ Select(r) \/ AbortNoticed(r) \/ Emit(r)
    BY <2>1, QuietMoves
  <2>2. CASE ReadHistory(r)
    BY <2>2, ReadHistoryHolds
  <2>3. CASE Persist(r)
    BY <2>3, PersistHolds
  <2>4. CASE Store(r)
    BY <2>4, StoreHolds
  <2>5. CASE Snapshot(r)
    BY <2>5, SnapshotHolds
  <2>6. CASE FailPersist(r)
    BY <2>6, FailPersistHolds
  <2> QED
    BY <1>2, <2>1, <2>2, <2>3, <2>4, <2>5, <2>6 DEF Work
<1>3. ASSUME NEW r \in Runs, StreamEnds(r) PROVE IInvHistory'
  BY <1>3, StreamEndsHolds
<1>4. ASSUME NEW r \in Runs, Return(r) PROVE IInvHistory'
  BY <1>4, QuietMoves
<1>5. ASSUME NEW s \in Sessions, Command(s) PROVE IInvHistory'
  <2>1. CASE Cancel(s) \/ Archive(s) \/ Restore(s) \/ Delete(s) \/ DeleteArchived(s)
    BY <2>1, PlainCommands
  <2>2. CASE CreateSession(s) \/ GetSession(s) \/ \E n \in 0..Len(saved[s]) : Retry(s, n)
    BY <2>2, WindowHolds
  <2>3. ASSUME NEW n \in 0..Len(saved[s]), NEW t \in Sessions, Fork(s, n, t) PROVE IInvHistory'
    BY <2>3, ForkHolds
  <2> QED
    BY <1>5, <2>1, <2>2, <2>3 DEF Command
<1>6. CASE CommandEnds
  BY <1>6, WindowStores, RetryPersistHolds DEF CommandEnds
<1>7. CASE Restart
  BY <1>7, RestartHistory
<1>8. CASE UNCHANGED vars
  <2>1. UNCHANGED <<saved, cached, opened, ui, fresh, order, base, spoiled, aborted, handles, pc, sess>>
    BY <1>8 DEF vars, rowVars, memVars, runVars, winVars
  <2>2. /\ HistoryTypes /\ Known /\ base \in [Runs -> Histories] /\ order \in Seq(Sessions)
        /\ spoiled \in [Sessions -> SUBSET {"evicted", "stale", "late"}]
    BY DEF IInvAll, IInvHistory, HistoryTypes
  <2>3. \A q \in Runs : InFlight(q)' => sess'[q] \in opened
    BY <2>1, <2>2 DEF Known
  <2>4. ui.op \in {"retry", "retryStore"} => handles'[ui.session] = None
    BY <2>1, <2>2 DEF Known, Idle
  <2>5. \A x : Cached(x)' = Cached(x)
    BY <2>1 DEF Cached
  <2> QED
    BY <2>1, <2>2, <2>3, <2>4, <2>5, RunsOnly
<1> QED
  BY <1>1, <1>2, <1>3, <1>4, <1>5, <1>6, <1>7, <1>8 DEF Next

LEMMA AllInvariant == Spec => []IInvAll
<1>1. Init => IInvAll
  BY HandlesInit, TablesInit, HistoryInit DEF IInvAll
<1>2. IInvAll /\ [Next]_vars => IInvAll'
  <2> SUFFICES ASSUME IInvAll, [Next]_vars PROVE IInvAll'
    OBVIOUS
  <2>1. IInvHandles'
    BY HandlesStep DEF IInvAll
  <2>2. IInvTables'
    BY TablesStep DEF IInvAll
  <2>3. IInvHistory'
    BY HistoryStep
  <2> QED
    BY <2>1, <2>2, <2>3 DEF IInvAll
<1> QED
  BY <1>1, <1>2, PTL DEF Spec

\* Only its own writes move a run on from where it writes a row.
LEMMA RowWriters ==
  ASSUME IInvHandles, Next, NEW r \in Runs,
         pc[r] \in {"persist", "failPersist"}, pc'[r] \in {"store", "error"}
  PROVE  (pc[r] = "persist" /\ Persist(r)) \/ (pc[r] = "failPersist" /\ FailPersist(r))
<1>1. pc \in [Runs -> Places]
  BY DEF IInvHandles, HandleTypes
<1>2. ASSUME NEW q \in Runs, NEW place, q # r \/ place \notin {"store", "error"},
             pc' = [pc EXCEPT ![q] = place]
      PROVE  FALSE
  BY <1>1, <1>2
<1>3. ASSUME NEW q \in Runs, NEW s \in Sessions, Invoke(q, s) PROVE FALSE
  BY <1>2, <1>3 DEF Invoke, Goto
<1>4. ASSUME NEW q \in Runs, StreamEnds(q) \/ Return(q) PROVE FALSE
  BY <1>2, <1>4 DEF StreamEnds, Return, Goto
<1>5. ASSUME NEW q \in Runs, Work(q) PROVE q = r /\ (Persist(q) \/ FailPersist(q))
  <2>1. PICK place : pc' = [pc EXCEPT ![q] = place]
    BY <1>5 DEF Work, Begin, Select, ReadHistory, AbortNoticed, Persist, Store, Snapshot, FailPersist, Emit, Goto
  <2>2. q = r
    BY <1>2, <2>1
  <2> QED
    BY <1>5, <2>2 DEF Work, Begin, Select, ReadHistory, AbortNoticed, Store, Snapshot, Emit
<1>6. ASSUME NEW s \in Sessions, Command(s) PROVE pc' = pc
  BY <1>6 DEF Command, Cancel, CreateSession, GetSession, Archive, Restore, Delete, DeleteArchived, Retry, Fork,
              runVars
<1>7. CommandEnds => pc' = pc
  BY DEF CommandEnds, Hydrate, RetryPersist, RetryStore, runVars
<1>8. Restart => pc'[r] = "lost"
  BY <1>1 DEF Restart
<1>9. PICK q \in Runs : Work(q)
  BY <1>3, <1>4, <1>6, <1>7, <1>8 DEF Next
<1> QED
  BY <1>5, <1>9 DEF Persist, FailPersist

\* Turns are serial, for any number of sessions and runs, any pruning and any size of the
\* conversation store: what a turn was started from is still what its session has saved, pruned,
\* when it saves.
THEOREM TurnsSerial == Spec => TurnsAreSerial
<1>1. IInvAll /\ [Next]_vars =>
        [\A r \in Runs :
           LET s == sess[r] IN
             pc[r] = "persist" /\ pc'[r] = "store" /\ spoiled'[s] = {}
               => saved'[s] = Append(Prune(saved[s]), r)]_vars
  <2> SUFFICES ASSUME IInvAll, Next, NEW r \in Runs,
                      pc[r] = "persist", pc'[r] = "store", spoiled'[sess[r]] = {}
               PROVE  saved'[sess[r]] = Append(Prune(saved[sess[r]]), r)
    OBVIOUS
  <2>1. Persist(r)
    BY RowWriters DEF IInvAll
  <2>2. PICK s \in Sessions : s = sess[r]
    BY DEF IInvAll, IInvHandles, Unborn
  <2>3. TurnHolds(r, s) /\ saved \in [Sessions -> Histories] /\ pc \in [Runs -> Places]
    BY DEF IInvAll, IInvHistory, HistoryTypes, SessionHolds, IInvHandles, HandleTypes
  <2>4. spoiled' = spoiled
    BY <2>1 DEF Persist
  <2>5. base[r] = Prune(saved[s])
    BY <2>2, <2>3, <2>4 DEF TurnHolds
  <2>6. saved' = [saved EXCEPT ![s] = Append(base[r], r)]
    BY <2>1, <2>2, <2>3 DEF Persist, Goto
  <2> QED
    BY <2>2, <2>3, <2>5, <2>6
<1> QED
  BY <1>1, AllInvariant, PTL DEF Spec, TurnsAreSerial

\* A failed turn puts back what its session had saved, for any number of sessions and runs.
THEOREM FailureKeeps == Spec => FailureKeepsHistory
<1>1. IInvAll /\ [Next]_vars =>
        [\A r \in Runs :
           LET s == sess[r] IN
             pc[r] = "failPersist" /\ pc'[r] = "error" /\ spoiled'[s] = {}
               => saved'[s] = saved[s]]_vars
  <2> SUFFICES ASSUME IInvAll, Next, NEW r \in Runs,
                      pc[r] = "failPersist", pc'[r] = "error", spoiled'[sess[r]] = {}
               PROVE  saved'[sess[r]] = saved[sess[r]]
    OBVIOUS
  <2>1. FailPersist(r)
    BY RowWriters DEF IInvAll
  <2>2. PICK s \in Sessions : s = sess[r]
    BY DEF IInvAll, IInvHandles, Unborn
  <2>3. TurnHolds(r, s) /\ saved \in [Sessions -> Histories]
    BY DEF IInvAll, IInvHistory, HistoryTypes, SessionHolds
  <2>4. spoiled' = spoiled
    BY <2>1 DEF FailPersist
  <2>5. base[r] = saved[s]
    BY <2>2, <2>3, <2>4 DEF TurnHolds
  <2>6. saved' = saved \/ saved' = [saved EXCEPT ![s] = base[r]]
    BY <2>1, <2>2 DEF FailPersist
  <2> QED
    BY <2>2, <2>3, <2>5, <2>6
<1> QED
  BY <1>1, AllInvariant, PTL DEF Spec, FailureKeepsHistory
=============================================================================
