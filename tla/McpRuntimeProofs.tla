-------------------------- MODULE McpRuntimeProofs --------------------------
(***************************************************************************)
(* What holds of an MCP server for any number of overlapping commands: one *)
(* service at a time, nothing left of a deleted server, and no connection  *)
(* that a revoked or changed approval leaves behind.                       *)
(***************************************************************************)
EXTENDS McpRuntime, TLAPS

\* What a task has in hand in each place.
Reports ==
  \A k \in Tasks :
    /\ pc[k] = "persist" => seen[k] # None
    /\ pc[k] \in {"dialing", "persist"} => goal[k] = "connect"
    /\ pc[k] = "forget" => goal[k] = "delete"
    /\ pc[k] = "dialing" => srv[k].trusted /\ srv[k].enabled

LockHeld ==
  \A j, k \in Tasks : pc[j] \in Holding /\ pc[k] \in Holding => j = k

\* The old connection is gone from its removal until a new one is made, and the
\* row stays while a connecting task has the lock.
Replacing ==
  \A k \in Tasks :
    /\ pc[k] \in {"cancel", "stopped", "dialing", "forget"} => conn = None
    /\ pc[k] \in Holding /\ goal[k] = "connect" => row # None

\* The row with which a task connects is the current one, or a command that has
\* changed it since is waiting for the lock.
Current ==
  \A k \in Tasks :
    pc[k] \in {"disconnect", "cancel", "stopped", "dialing"} /\ goal[k] = "connect"
      /\ "behind" \notin gaps
    => srv[k] = row \/ \E j \in Tasks : pc[j] \in {"secrets", "enqueue"}

IInvType == TypeOK /\ Reports
IInvRows == Replacing /\ DeletedIsGone
IInvCurrent == Current /\ UnapprovedGoes
-----------------------------------------------------------------------------
(* Types *)

LEMMA TypeStarts == Init => IInvType
<1> SUFFICES ASSUME Init PROVE IInvType
  OBVIOUS
<1>1. row \in Rows /\ health \in Healths
  BY DEF Init, Rows, Healths
<1>2. \A k \in Tasks : pc[k] \in {"idle", "done"}
  BY DEF Init
<1>3. pc \in [Tasks -> Places]
  BY DEF Init, Places
<1>4. secrets \in SUBSET {"values", "oauth"}
  BY DEF Init
<1>5. srv \in [Tasks -> Rows \cup {None}] /\ seen \in [Tasks -> Healths \cup {None}]
  BY DEF Init
<1>6. goal \in [Tasks -> {"connect", "delete"}] /\ conn = None /\ gaps = {}
  BY DEF Init
<1>7. \A k \in Tasks : pc[k] \notin Holding
  BY <1>2 DEF Holding
<1>8. health # None
  BY <1>1, McpAssumption
<1>9. TypeOK
  BY <1>1, <1>3, <1>4, <1>5, <1>6, <1>7, <1>8 DEF TypeOK
<1> QED
  BY <1>2, <1>9 DEF IInvType, Reports

\* Every edit of a row leaves a row.
LEMMA RowRedefined ==
  ASSUME row \in Rows, NEW d \in Defs
  PROVE  /\ Redefined(d) \in Rows /\ Redefined(d) # None
         /\ \A half \in HalfRedefined(d) : half \in Rows /\ half # None
<1>1. Redefined(d) \in Rows /\ [row EXCEPT !.def = d] \in Rows
  BY DEF Redefined, Rows
<1> QED
  BY <1>1, McpAssumption DEF HalfRedefined

LEMMA RowSwitched ==
  ASSUME row \in Rows, NEW b \in BOOLEAN
  PROVE  /\ [row EXCEPT !.enabled = b] \in Rows /\ [row EXCEPT !.enabled = b] # None
         /\ [row EXCEPT !.trusted = b] \in Rows /\ [row EXCEPT !.trusted = b] # None
<1>1. [row EXCEPT !.enabled = b] \in Rows /\ [row EXCEPT !.trusted = b] \in Rows
  BY DEF Rows
<1> QED
  BY <1>1, McpAssumption

LEMMA TypeStep ==
  ASSUME IInvType, [Next]_vars PROVE IInvType'
<1> USE McpAssumption DEF IInvType, TypeOK, Reports, Rows, Healths, Tasks, Coming,
          Holding, Places, store, Goto, InFlight
<1>1. ASSUME NEW k \in Commands, NEW d \in Defs, Update(k, d) PROVE IInvType'
  <2>1. row' \in Rows /\ row' # None
    BY <1>1, RowRedefined DEF Update, Edit
  <2>2. health' \in Healths
    BY <1>1 DEF Update, Edit, Rediagnosed
  <2>3. PICK place \in {"secrets", "done"} : Goto(k, place)
    BY <1>1 DEF Update, Edit
  <2>4. UNCHANGED <<secrets, conn, goal, srv, seen>> /\ gaps' \in {gaps, gaps \cup {"behind"}}
    BY <1>1 DEF Update, Edit
  <2> QED
    BY <2>1, <2>2, <2>3, <2>4
<1>2. ASSUME NEW k \in Tasks, StoreSecrets(k) PROVE IInvType'
  BY <1>2 DEF StoreSecrets
<1>3. ASSUME NEW k \in Commands, NEW b \in BOOLEAN, SetEnabled(k, b)
  PROVE  IInvType'
  BY <1>3 DEF SetEnabled, Edit
<1>4. ASSUME NEW k \in Commands, NEW b \in BOOLEAN, SetTrusted(k, b)
  PROVE  IInvType'
  BY <1>4 DEF SetTrusted, Edit
<1>5. ASSUME NEW k \in Commands, NEW g \in {"connect", "delete"}, Ask(k, g)
  PROVE  IInvType'
  BY <1>5 DEF Ask
<1>6. ASSUME NEW k \in Commands, Logout(k) PROVE IInvType'
  BY <1>6 DEF Logout
<1>7. ASSUME NEW k \in Commands, SignIn(k) PROVE IInvType'
  BY <1>7 DEF SignIn, Edit
<1>8. ASSUME NEW k \in Tasks, SignInEnds(k) PROVE IInvType'
  <2>1. CASE \E place \in {"enqueue", "done"} : Goto(k, place) /\ UNCHANGED <<secrets, gaps>>
    BY <1>8, <2>1 DEF SignInEnds
  <2>2. CASE secrets' = secrets \cup {"oauth"} /\ Goto(k, "enqueue")
             /\ gaps' = IF row = None THEN gaps \cup {"late"} ELSE gaps
    BY <1>8, <2>2 DEF SignInEnds
  <2> QED
    BY <1>8, <2>1, <2>2 DEF SignInEnds
<1>9. ASSUME NEW d \in Defs, Import(d) PROVE IInvType'
  <2>1. row' \in Rows /\ row' # None
    BY <1>9, RowRedefined DEF Import
  <2>2. health' \in Healths
    BY <1>9 DEF Import, Rediagnosed
  <2> QED
    BY <1>9, <2>1, <2>2 DEF Import
<1>10. CASE Startup
  BY <1>10 DEF Startup
<1>11. ASSUME NEW k \in Tasks, Begin(k) PROVE IInvType'
  <2>1. UNCHANGED <<store, conn, goal, seen>> /\ gaps' \in SUBSET gaps
    BY <1>11 DEF Begin
  <2>2. CASE goal[k] = "connect" /\ row = None
    <3>1. Goto(k, "done") /\ srv' = srv
      BY <1>11, <2>2 DEF Begin
    <3> QED
      BY <2>1, <3>1
  <2>3. CASE ~(goal[k] = "connect" /\ row = None)
    <3>1. Goto(k, "disconnect")
      BY <1>11, <2>3 DEF Begin
    <3>2. PICK s \in Rows \cup {None} :
            srv' = [srv EXCEPT ![k] = s] /\ (goal[k] = "connect" => s # None)
      BY <1>11, <2>3 DEF Begin
    <3> QED
      BY <2>1, <3>1, <3>2
  <2> QED
    BY <2>2, <2>3
<1>12. ASSUME NEW k \in Tasks, Remove(k) PROVE IInvType'
  BY <1>12 DEF Remove
<1>13. ASSUME NEW k \in Tasks, Cancelled(k) PROVE IInvType'
  BY <1>13 DEF Cancelled
<1>14. ASSUME NEW k \in Tasks, Skip(k) PROVE IInvType'
  BY <1>14 DEF Skip, Report
<1>15. ASSUME NEW k \in Tasks, Dial(k) PROVE IInvType'
  BY <1>15 DEF Dial
<1>16. ASSUME NEW k \in Tasks, Connects(k) PROVE IInvType'
  BY <1>16 DEF Connects, Report
<1>17. ASSUME NEW k \in Tasks, Fails(k) PROVE IInvType'
  BY <1>17 DEF Fails, Report
<1>18. ASSUME NEW k \in Tasks, Persist(k) PROVE IInvType'
  BY <1>18 DEF Persist, End
<1>19. ASSUME NEW k \in Tasks, DeleteRows(k) PROVE IInvType'
  <2>1. row' \in {row, None} /\ UNCHANGED <<secrets, conn>>
    BY <1>19 DEF DeleteRows
  <2>2. /\ health' = health \/ (row' = None /\ health' = None)
        /\ gaps' \in {gaps, gaps \cup {"cut"}, gaps \cup {"torn"}}
    BY <1>19 DEF DeleteRows
  <2>3. CASE End(k)
    BY <2>1, <2>2, <2>3 DEF End
  <2>4. CASE Goto(k, "forget") /\ UNCHANGED <<goal, srv, seen>>
    BY <1>19, <2>1, <2>2, <2>4 DEF DeleteRows
  <2> QED
    BY <1>19, <2>3, <2>4 DEF DeleteRows
<1>20. ASSUME NEW k \in Tasks, DeleteSecrets(k) PROVE IInvType'
  BY <1>20 DEF DeleteSecrets, End
<1>21. CASE Restart
  BY <1>21 DEF Restart
<1>22. CASE UNCHANGED vars
  BY <1>22 DEF vars
<1> HIDE DEF IInvType, TypeOK
<1> QED
  BY <1>1, <1>2, <1>3, <1>4, <1>5, <1>6, <1>7, <1>8, <1>9, <1>10, <1>11,
     <1>12, <1>13, <1>14, <1>15, <1>16, <1>17, <1>18, <1>19, <1>20, <1>21, <1>22
  DEF Next, Command, Work

\* The whole state is typed; a server with a row has diagnostics, and a task that
\* connects has read a row (connect_and_report).
THEOREM TypeCorrect == Spec => []TypeOK
<1>1. IInvType /\ [Next]_vars => IInvType'
  BY TypeStep
<1>2. IInvType => TypeOK
  BY DEF IInvType
<1> QED
  BY TypeStarts, <1>1, <1>2, PTL DEF Spec

LEMMA ReportsHold == Spec => [](TypeOK /\ Reports)
<1>1. IInvType /\ [Next]_vars => IInvType'
  BY TypeStep
<1>2. IInvType => TypeOK /\ Reports
  BY DEF IInvType
<1> QED
  BY TypeStarts, <1>1, <1>2, PTL DEF Spec
-----------------------------------------------------------------------------
(* The transition lock *)

\* A task enters the places that hold the lock only when it is free.
LEMMA Moves ==
  ASSUME TypeOK, LockHeld, NEW k \in Tasks, NEW place, Goto(k, place),
         place \in Holding => pc[k] \in Holding \/ Free
  PROVE  LockHeld'
  BY DEF TypeOK, LockHeld, Goto, Free

LEMMA LockStep ==
  ASSUME TypeOK, LockHeld, [Next]_vars PROVE LockHeld'
<1> USE McpAssumption DEF LockHeld, Tasks, Coming, Holding, Places, store, Goto, InFlight
<1>1. ASSUME NEW k \in Commands, NEW d \in Defs, Update(k, d) PROVE LockHeld'
  <2>1. PICK place \in {"secrets", "done"} : Goto(k, place)
    BY <1>1 DEF Update, Edit
  <2> QED
    BY <2>1, Moves
<1>2. ASSUME NEW k \in Tasks, StoreSecrets(k) PROVE LockHeld'
  BY <1>2 DEF StoreSecrets
<1>3. ASSUME NEW k \in Commands, NEW b \in BOOLEAN, SetEnabled(k, b)
  PROVE  LockHeld'
  BY <1>3 DEF SetEnabled, Edit
<1>4. ASSUME NEW k \in Commands, NEW b \in BOOLEAN, SetTrusted(k, b)
  PROVE  LockHeld'
  BY <1>4 DEF SetTrusted, Edit
<1>5. ASSUME NEW k \in Commands, NEW g \in {"connect", "delete"}, Ask(k, g)
  PROVE  LockHeld'
  BY <1>5 DEF Ask
<1>6. ASSUME NEW k \in Commands, Logout(k) PROVE LockHeld'
  BY <1>6 DEF Logout
<1>7. ASSUME NEW k \in Commands, SignIn(k) PROVE LockHeld'
  BY <1>7 DEF SignIn, Edit
<1>8. ASSUME NEW k \in Tasks, SignInEnds(k) PROVE LockHeld'
  <2>1. PICK place \in {"enqueue", "done"} : Goto(k, place)
    BY <1>8 DEF SignInEnds
  <2> QED
    BY <2>1, Moves
<1>9. ASSUME NEW d \in Defs, Import(d) PROVE LockHeld'
  BY <1>9 DEF Import, Redefined, HalfRedefined, Rediagnosed
<1>10. CASE Startup
  BY <1>10 DEF Startup
<1>11. ASSUME NEW k \in Tasks, Begin(k) PROVE LockHeld'
  <2>1. PICK place \in {"disconnect", "done"} : Goto(k, place)
    BY <1>11 DEF Begin
  <2> QED
    BY <1>11, <2>1, Moves DEF Begin
<1>12. ASSUME NEW k \in Tasks, Remove(k) PROVE LockHeld'
  BY <1>12 DEF Remove
<1>13. ASSUME NEW k \in Tasks, Cancelled(k) PROVE LockHeld'
  BY <1>13 DEF Cancelled
<1>14. ASSUME NEW k \in Tasks, Skip(k) PROVE LockHeld'
  BY <1>14 DEF Skip, Report
<1>15. ASSUME NEW k \in Tasks, Dial(k) PROVE LockHeld'
  BY <1>15 DEF Dial
<1>16. ASSUME NEW k \in Tasks, Connects(k) PROVE LockHeld'
  BY <1>16 DEF Connects, Report
<1>17. ASSUME NEW k \in Tasks, Fails(k) PROVE LockHeld'
  BY <1>17 DEF Fails, Report
<1>18. ASSUME NEW k \in Tasks, Persist(k) PROVE LockHeld'
  BY <1>18 DEF Persist, End
<1>19. ASSUME NEW k \in Tasks, DeleteRows(k) PROVE LockHeld'
  <2>1. PICK place \in {"forget", "done"} : Goto(k, place)
    BY <1>19 DEF DeleteRows, End
  <2> QED
    BY <1>19, <2>1, Moves DEF DeleteRows
<1>20. ASSUME NEW k \in Tasks, DeleteSecrets(k) PROVE LockHeld'
  BY <1>20 DEF DeleteSecrets, End
<1>21. CASE Restart
  BY <1>21 DEF Restart
<1>22. CASE UNCHANGED vars
  BY <1>22 DEF vars
<1> QED
  BY <1>1, <1>2, <1>3, <1>4, <1>5, <1>6, <1>7, <1>8, <1>9, <1>10, <1>11,
     <1>12, <1>13, <1>14, <1>15, <1>16, <1>17, <1>18, <1>19, <1>20, <1>21, <1>22
  DEF Next, Command, Work

LEMMA LockHolds == Spec => []LockHeld
<1>1. Init => LockHeld
  BY DEF Init, LockHeld, Holding
<1>2. TypeOK /\ LockHeld /\ [Next]_vars => LockHeld'
  BY LockStep
<1> QED
  BY TypeCorrect, <1>1, <1>2, PTL DEF Spec
-----------------------------------------------------------------------------
(* Rows and connection *)

LEMMA RowsStep ==
  ASSUME TypeOK, Reports, LockHeld, IInvRows, [Next]_vars PROVE IInvRows'
<1> USE McpAssumption DEF IInvRows, Replacing, DeletedIsGone, TypeOK, Reports, LockHeld,
          Tasks, Coming, Holding, Places, store, Goto, InFlight
<1>1. ASSUME NEW k \in Commands, NEW d \in Defs, Update(k, d) PROVE IInvRows'
  <2>1. row' # None
    BY <1>1, RowRedefined DEF Update, Edit
  <2> QED
    BY <1>1, <2>1 DEF Update, Edit
<1>2. ASSUME NEW k \in Tasks, StoreSecrets(k) PROVE IInvRows'
  BY <1>2 DEF StoreSecrets
<1>3. ASSUME NEW k \in Commands, NEW b \in BOOLEAN, SetEnabled(k, b)
  PROVE  IInvRows'
  <2>1. row' # None
    BY <1>3, RowSwitched DEF SetEnabled, Edit
  <2> QED
    BY <1>3, <2>1 DEF SetEnabled, Edit
<1>4. ASSUME NEW k \in Commands, NEW b \in BOOLEAN, SetTrusted(k, b)
  PROVE  IInvRows'
  <2>1. row' # None
    BY <1>4, RowSwitched DEF SetTrusted, Edit
  <2> QED
    BY <1>4, <2>1 DEF SetTrusted, Edit
<1>5. ASSUME NEW k \in Commands, NEW g \in {"connect", "delete"}, Ask(k, g)
  PROVE  IInvRows'
  BY <1>5 DEF Ask
<1>6. ASSUME NEW k \in Commands, Logout(k) PROVE IInvRows'
  BY <1>6 DEF Logout
<1>7. ASSUME NEW k \in Commands, SignIn(k) PROVE IInvRows'
  BY <1>7 DEF SignIn, Edit
<1>8. ASSUME NEW k \in Tasks, SignInEnds(k) PROVE IInvRows'
  BY <1>8 DEF SignInEnds
<1>9. ASSUME NEW d \in Defs, Import(d) PROVE IInvRows'
  <2>1. row' # None
    BY <1>9, RowRedefined DEF Import, Rows
  <2> QED
    BY <1>9, <2>1 DEF Import
<1>10. CASE Startup
  BY <1>10 DEF Startup
<1>11. ASSUME NEW k \in Tasks, Begin(k) PROVE IInvRows'
  BY <1>11 DEF Begin, Free
<1>12. ASSUME NEW k \in Tasks, Remove(k) PROVE IInvRows'
  BY <1>12 DEF Remove
<1>13. ASSUME NEW k \in Tasks, Cancelled(k) PROVE IInvRows'
  BY <1>13 DEF Cancelled
<1>14. ASSUME NEW k \in Tasks, Skip(k) PROVE IInvRows'
  BY <1>14 DEF Skip, Report
<1>15. ASSUME NEW k \in Tasks, Dial(k) PROVE IInvRows'
  BY <1>15 DEF Dial
<1>16. ASSUME NEW k \in Tasks, Connects(k) PROVE IInvRows'
  BY <1>16 DEF Connects, Report
<1>17. ASSUME NEW k \in Tasks, Fails(k) PROVE IInvRows'
  BY <1>17 DEF Fails, Report
<1>18. ASSUME NEW k \in Tasks, Persist(k) PROVE IInvRows'
  BY <1>18 DEF Persist, End
<1>19. ASSUME NEW k \in Tasks, DeleteRows(k) PROVE IInvRows'
  BY <1>19 DEF DeleteRows, End
<1>20. ASSUME NEW k \in Tasks, DeleteSecrets(k) PROVE IInvRows'
  BY <1>20 DEF DeleteSecrets, End
<1>21. CASE Restart
  BY <1>21 DEF Restart
<1>22. CASE UNCHANGED vars
  BY <1>22 DEF vars
<1> QED
  BY <1>1, <1>2, <1>3, <1>4, <1>5, <1>6, <1>7, <1>8, <1>9, <1>10, <1>11,
     <1>12, <1>13, <1>14, <1>15, <1>16, <1>17, <1>18, <1>19, <1>20, <1>21, <1>22
  DEF Next, Command, Work

LEMMA RowsHold == Spec => []IInvRows
<1>1. Init => IInvRows
  <2> SUFFICES ASSUME Init PROVE IInvRows
    OBVIOUS
  <2>1. row # None
    BY McpAssumption DEF Init, Rows
  <2> QED
    BY <2>1 DEF Init, IInvRows, Replacing, DeletedIsGone, Holding
<1>2. TypeOK /\ Reports /\ LockHeld /\ IInvRows /\ [Next]_vars => IInvRows'
  BY RowsStep
<1> QED
  BY ReportsHold, LockHolds, <1>1, <1>2, PTL DEF Spec

\* However many commands overlap, a server never has two services alive: the lock
\* keeps the tasks apart, and each cancels the old service before it dials.
THEOREM SingleService == Spec => []OneService
<1>1. LockHeld /\ IInvRows => OneService
  BY DEF LockHeld, IInvRows, Replacing, OneService, Holding
<1> QED
  BY LockHolds, RowsHold, <1>1, PTL

\* Nothing of a deleted server comes back with a connect that overlapped its
\* deletion, neither a connection nor a diagnostics row (delete_server).
THEOREM DeletionHolds == Spec => []DeletedIsGone
<1>1. IInvRows => DeletedIsGone
  BY DEF IInvRows
<1> QED
  BY RowsHold, <1>1, PTL
-----------------------------------------------------------------------------
(* Approval *)

LEMMA CurrentStep ==
  ASSUME TypeOK, Reports, LockHeld, IInvRows, IInvCurrent, [Next]_vars
  PROVE  IInvCurrent'
<1> USE McpAssumption DEF IInvCurrent, Current, UnapprovedGoes, Approved, ToReplace, IInvRows,
          Replacing, DeletedIsGone, TypeOK, Reports, LockHeld, Rows, Tasks, Coming, Holding,
          Places, store, Goto, InFlight
<1>1. ASSUME NEW k \in Commands, NEW d \in Defs, Update(k, d) PROVE IInvCurrent'
  BY <1>1 DEF Update, Edit, Redefined, HalfRedefined, Rediagnosed
<1>2. ASSUME NEW k \in Tasks, StoreSecrets(k) PROVE IInvCurrent'
  BY <1>2 DEF StoreSecrets
<1>3. ASSUME NEW k \in Commands, NEW b \in BOOLEAN, SetEnabled(k, b)
  PROVE  IInvCurrent'
  BY <1>3 DEF SetEnabled, Edit
<1>4. ASSUME NEW k \in Commands, NEW b \in BOOLEAN, SetTrusted(k, b)
  PROVE  IInvCurrent'
  BY <1>4 DEF SetTrusted, Edit
<1>5. ASSUME NEW k \in Commands, NEW g \in {"connect", "delete"}, Ask(k, g)
  PROVE  IInvCurrent'
  BY <1>5 DEF Ask
<1>6. ASSUME NEW k \in Commands, Logout(k) PROVE IInvCurrent'
  BY <1>6 DEF Logout
<1>7. ASSUME NEW k \in Commands, SignIn(k) PROVE IInvCurrent'
  BY <1>7 DEF SignIn, Edit
<1>8. ASSUME NEW k \in Tasks, SignInEnds(k) PROVE IInvCurrent'
  BY <1>8 DEF SignInEnds
<1>9. ASSUME NEW d \in Defs, Import(d) PROVE IInvCurrent'
  BY <1>9 DEF Import, Redefined, HalfRedefined, Rediagnosed
<1>10. CASE Startup
  BY <1>10 DEF Startup
<1>11. ASSUME NEW k \in Tasks, Begin(k) PROVE IInvCurrent'
  BY <1>11 DEF Begin, Free
<1>12. ASSUME NEW k \in Tasks, Remove(k) PROVE IInvCurrent'
  BY <1>12 DEF Remove
<1>13. ASSUME NEW k \in Tasks, Cancelled(k) PROVE IInvCurrent'
  BY <1>13 DEF Cancelled
<1>14. ASSUME NEW k \in Tasks, Skip(k) PROVE IInvCurrent'
  BY <1>14 DEF Skip, Report
<1>15. ASSUME NEW k \in Tasks, Dial(k) PROVE IInvCurrent'
  BY <1>15 DEF Dial
<1>16. ASSUME NEW k \in Tasks, Connects(k) PROVE IInvCurrent'
  BY <1>16 DEF Connects, Report
<1>17. ASSUME NEW k \in Tasks, Fails(k) PROVE IInvCurrent'
  BY <1>17 DEF Fails, Report
<1>18. ASSUME NEW k \in Tasks, Persist(k) PROVE IInvCurrent'
  BY <1>18 DEF Persist, End
<1>19. ASSUME NEW k \in Tasks, DeleteRows(k) PROVE IInvCurrent'
  BY <1>19 DEF DeleteRows, End
<1>20. ASSUME NEW k \in Tasks, DeleteSecrets(k) PROVE IInvCurrent'
  BY <1>20 DEF DeleteSecrets, End
<1>21. CASE Restart
  BY <1>21 DEF Restart
<1>22. CASE UNCHANGED vars
  BY <1>22 DEF vars
<1> QED
  BY <1>1, <1>2, <1>3, <1>4, <1>5, <1>6, <1>7, <1>8, <1>9, <1>10, <1>11,
     <1>12, <1>13, <1>14, <1>15, <1>16, <1>17, <1>18, <1>19, <1>20, <1>21, <1>22
  DEF Next, Command, Work

LEMMA CurrentHolds == Spec => []IInvCurrent
<1>1. Init => IInvCurrent
  BY McpAssumption DEF Init, IInvCurrent, Current, UnapprovedGoes
<1>2. TypeOK /\ Reports /\ LockHeld /\ IInvRows /\ IInvCurrent /\ [Next]_vars
      => IInvCurrent'
  BY CurrentStep
<1> QED
  BY ReportsHold, LockHolds, RowsHold, <1>1, <1>2, PTL DEF Spec

\* A connection that is no longer approved, enabled or current is about to be
\* replaced by a command that is under way, unless the row was changed behind its back.
THEOREM ApprovalIsFollowed == Spec => []UnapprovedGoes
<1>1. IInvCurrent => UnapprovedGoes
  BY DEF IInvCurrent
<1> QED
  BY CurrentHolds, <1>1, PTL
-----------------------------------------------------------------------------
(* What is left at rest *)

\* Tasks that will report on the connection, or delete the rows, before they end.
ToSettle == {k \in Tasks : pc[k] \in {"secrets", "enqueue", "disconnect", "cancel",
                                      "stopped", "dialing", "persist"}}

\* A task reports what it has done to the connection.
SeenIsTrue ==
  \A k \in Tasks : pc[k] = "persist" => (seen[k] = "connected" <=> conn # None)

\* The diagnostics are right, or a task that will set them right is under way or
\* about to be started: a restart drops the connection, and the startup task makes it
\* again because the server is still approved.
Diagnosed ==
  row # None /\ gaps \cap {"behind", "cut"} = {} =>
    \/ health = "connected" <=> conn # None
    \/ ToSettle # {}
    \/ pc[Boot] = "idle" /\ row.enabled /\ row.trusted

\* The startup task deletes nothing, and who has deleted the rows goes on to the secrets.
Forgotten ==
  /\ goal[Boot] = "connect"
  /\ row = None /\ gaps \cap {"late", "torn"} = {} =>
       secrets = {} \/ \E k \in Tasks : pc[k] = "forget"

IInvLeft == SeenIsTrue /\ Diagnosed /\ Forgotten

LEMMA SeenStep ==
  ASSUME TypeOK, Reports, LockHeld, Replacing, SeenIsTrue, [Next]_vars
  PROVE  SeenIsTrue'
<1> USE McpAssumption DEF TypeOK, Reports, LockHeld, Replacing, Tasks, Coming, Holding, Places,
          store, Goto, InFlight, SeenIsTrue
<1>1. ASSUME NEW k \in Commands, NEW d \in Defs, Update(k, d)
      PROVE  SeenIsTrue'
  BY <1>1 DEF Update, Edit, Redefined, HalfRedefined, Rediagnosed
<1>2. ASSUME NEW k \in Tasks, StoreSecrets(k)
      PROVE  SeenIsTrue'
  BY <1>2 DEF StoreSecrets
<1>3. ASSUME NEW k \in Commands, NEW b \in BOOLEAN, SetEnabled(k, b)
      PROVE  SeenIsTrue'
  BY <1>3 DEF SetEnabled, Edit
<1>4. ASSUME NEW k \in Commands, NEW b \in BOOLEAN, SetTrusted(k, b)
      PROVE  SeenIsTrue'
  BY <1>4 DEF SetTrusted, Edit
<1>5. ASSUME NEW k \in Commands, NEW g \in {"connect", "delete"}, Ask(k, g)
      PROVE  SeenIsTrue'
  BY <1>5 DEF Ask
<1>6. ASSUME NEW k \in Commands, Logout(k)
      PROVE  SeenIsTrue'
  BY <1>6 DEF Logout
<1>7. ASSUME NEW k \in Commands, SignIn(k)
      PROVE  SeenIsTrue'
  BY <1>7 DEF SignIn, Edit
<1>8. ASSUME NEW k \in Tasks, SignInEnds(k)
      PROVE  SeenIsTrue'
  BY <1>8 DEF SignInEnds
<1>9. ASSUME NEW d \in Defs, Import(d)
      PROVE  SeenIsTrue'
  BY <1>9 DEF Import, Redefined, HalfRedefined, Rediagnosed
<1>10. CASE Startup
  BY <1>10 DEF Startup
<1>11. ASSUME NEW k \in Tasks, Begin(k)
      PROVE  SeenIsTrue'
  BY <1>11 DEF Begin, Free
<1>12. ASSUME NEW k \in Tasks, Remove(k)
      PROVE  SeenIsTrue'
  BY <1>12 DEF Remove
<1>13. ASSUME NEW k \in Tasks, Cancelled(k)
      PROVE  SeenIsTrue'
  BY <1>13 DEF Cancelled
<1>14. ASSUME NEW k \in Tasks, Skip(k)
      PROVE  SeenIsTrue'
  BY <1>14 DEF Skip, Report
<1>15. ASSUME NEW k \in Tasks, Dial(k)
      PROVE  SeenIsTrue'
  BY <1>15 DEF Dial
<1>16. ASSUME NEW k \in Tasks, Connects(k)
      PROVE  SeenIsTrue'
  <2>1. srv[k] \in Rows
    BY <1>16 DEF Connects
  <2>2. srv[k].def # None
    BY <2>1 DEF Rows
  <2> QED
    BY <1>16, <2>2 DEF Connects, Report
<1>17. ASSUME NEW k \in Tasks, Fails(k)
      PROVE  SeenIsTrue'
  BY <1>17 DEF Fails, Report
<1>18. ASSUME NEW k \in Tasks, Persist(k)
      PROVE  SeenIsTrue'
  BY <1>18 DEF Persist, End
<1>19. ASSUME NEW k \in Tasks, DeleteRows(k)
      PROVE  SeenIsTrue'
  BY <1>19 DEF DeleteRows, End
<1>20. ASSUME NEW k \in Tasks, DeleteSecrets(k)
      PROVE  SeenIsTrue'
  BY <1>20 DEF DeleteSecrets, End
<1>21. CASE Restart
  BY <1>21 DEF Restart
<1>22. CASE UNCHANGED vars
  BY <1>22 DEF vars
<1> QED
  BY <1>1, <1>2, <1>3, <1>4, <1>5, <1>6, <1>7, <1>8, <1>9, <1>10, <1>11,
     <1>12, <1>13, <1>14, <1>15, <1>16, <1>17, <1>18, <1>19, <1>20, <1>21, <1>22
  DEF Next, Command, Work

LEMMA DiagnosedStep ==
  ASSUME TypeOK, Reports, Replacing, SeenIsTrue, UnapprovedGoes, Diagnosed, [Next]_vars
  PROVE  Diagnosed'
<1> USE McpAssumption DEF TypeOK, Reports, LockHeld, Replacing, Tasks, Coming, Holding, Places,
          store, Goto, InFlight, SeenIsTrue, Diagnosed, ToSettle
<1>1. ASSUME NEW k \in Commands, NEW d \in Defs, Update(k, d)
      PROVE  Diagnosed'
  BY <1>1 DEF Update, Edit, Redefined, HalfRedefined, Rediagnosed
<1>2. ASSUME NEW k \in Tasks, StoreSecrets(k)
      PROVE  Diagnosed'
  BY <1>2 DEF StoreSecrets
<1>3. ASSUME NEW k \in Commands, NEW b \in BOOLEAN, SetEnabled(k, b)
      PROVE  Diagnosed'
  BY <1>3 DEF SetEnabled, Edit
<1>4. ASSUME NEW k \in Commands, NEW b \in BOOLEAN, SetTrusted(k, b)
      PROVE  Diagnosed'
  BY <1>4 DEF SetTrusted, Edit
<1>5. ASSUME NEW k \in Commands, NEW g \in {"connect", "delete"}, Ask(k, g)
      PROVE  Diagnosed'
  BY <1>5 DEF Ask
<1>6. ASSUME NEW k \in Commands, Logout(k)
      PROVE  Diagnosed'
  BY <1>6 DEF Logout
<1>7. ASSUME NEW k \in Commands, SignIn(k)
      PROVE  Diagnosed'
  BY <1>7 DEF SignIn, Edit
<1>8. ASSUME NEW k \in Tasks, SignInEnds(k)
      PROVE  Diagnosed'
  BY <1>8 DEF SignInEnds
<1>9. ASSUME NEW d \in Defs, Import(d)
      PROVE  Diagnosed'
  BY <1>9 DEF Import, Redefined, HalfRedefined, Rediagnosed
<1>10. CASE Startup
  BY <1>10 DEF Startup
<1>11. ASSUME NEW k \in Tasks, Begin(k)
      PROVE  Diagnosed'
  BY <1>11 DEF Begin, Free
<1>12. ASSUME NEW k \in Tasks, Remove(k)
      PROVE  Diagnosed'
  BY <1>12 DEF Remove
<1>13. ASSUME NEW k \in Tasks, Cancelled(k)
      PROVE  Diagnosed'
  BY <1>13 DEF Cancelled
<1>14. ASSUME NEW k \in Tasks, Skip(k)
      PROVE  Diagnosed'
  BY <1>14 DEF Skip, Report
<1>15. ASSUME NEW k \in Tasks, Dial(k)
      PROVE  Diagnosed'
  BY <1>15 DEF Dial
<1>16. ASSUME NEW k \in Tasks, Connects(k)
      PROVE  Diagnosed'
  BY <1>16 DEF Connects, Report
<1>17. ASSUME NEW k \in Tasks, Fails(k)
      PROVE  Diagnosed'
  BY <1>17 DEF Fails, Report
<1>18. ASSUME NEW k \in Tasks, Persist(k)
      PROVE  Diagnosed'
  BY <1>18 DEF Persist, End
<1>19. ASSUME NEW k \in Tasks, DeleteRows(k)
      PROVE  Diagnosed'
  BY <1>19 DEF DeleteRows, End
<1>20. ASSUME NEW k \in Tasks, DeleteSecrets(k)
      PROVE  Diagnosed'
  BY <1>20 DEF DeleteSecrets, End
<1>21. CASE Restart
  <2> SUFFICES ASSUME row # None, gaps' \cap {"behind", "cut"} = {}, health = "connected"
               PROVE  row.enabled /\ row.trusted
    BY <1>21 DEF Restart
  <2>1. gaps \cap {"behind", "cut"} = {} /\ \A k \in Tasks : pc[k] \in {"idle", "done"}
    BY <1>21 DEF Restart
  <2>2. ToSettle = {} /\ ToReplace = {}
    BY <2>1 DEF ToReplace
  <2>3. CASE conn # None
    BY <2>1, <2>2, <2>3 DEF UnapprovedGoes, Approved
  <2>4. CASE conn = None
    BY <2>1, <2>2, <2>4
  <2> QED
    BY <2>3, <2>4
<1>22. CASE UNCHANGED vars
  BY <1>22 DEF vars
<1> QED
  BY <1>1, <1>2, <1>3, <1>4, <1>5, <1>6, <1>7, <1>8, <1>9, <1>10, <1>11,
     <1>12, <1>13, <1>14, <1>15, <1>16, <1>17, <1>18, <1>19, <1>20, <1>21, <1>22
  DEF Next, Command, Work

LEMMA ForgottenStep ==
  ASSUME TypeOK, Reports, Forgotten, [Next]_vars
  PROVE  Forgotten'
<1> USE McpAssumption DEF TypeOK, Reports, LockHeld, Replacing, Tasks, Coming, Holding, Places,
          store, Goto, InFlight, Forgotten
<1>1. ASSUME NEW k \in Commands, NEW d \in Defs, Update(k, d)
      PROVE  Forgotten'
  <2>1. row' # None
    BY <1>1, RowRedefined DEF Update, Edit
  <2>2. row # None
    BY <1>1 DEF Update, Edit
  <2> QED
    BY <1>1, <2>1, <2>2 DEF Update, Edit
<1>2. ASSUME NEW k \in Tasks, StoreSecrets(k)
      PROVE  Forgotten'
  BY <1>2 DEF StoreSecrets
<1>3. ASSUME NEW k \in Commands, NEW b \in BOOLEAN, SetEnabled(k, b)
      PROVE  Forgotten'
  <2>1. row' # None
    BY <1>3, RowSwitched DEF SetEnabled, Edit
  <2>2. row # None
    BY <1>3 DEF SetEnabled, Edit
  <2> QED
    BY <1>3, <2>1, <2>2 DEF SetEnabled, Edit
<1>4. ASSUME NEW k \in Commands, NEW b \in BOOLEAN, SetTrusted(k, b)
      PROVE  Forgotten'
  <2>1. row' # None
    BY <1>4, RowSwitched DEF SetTrusted, Edit
  <2>2. row # None
    BY <1>4 DEF SetTrusted, Edit
  <2> QED
    BY <1>4, <2>1, <2>2 DEF SetTrusted, Edit
<1>5. ASSUME NEW k \in Commands, NEW g \in {"connect", "delete"}, Ask(k, g)
      PROVE  Forgotten'
  BY <1>5 DEF Ask
<1>6. ASSUME NEW k \in Commands, Logout(k)
      PROVE  Forgotten'
  BY <1>6 DEF Logout
<1>7. ASSUME NEW k \in Commands, SignIn(k)
      PROVE  Forgotten'
  BY <1>7 DEF SignIn, Edit
<1>8. ASSUME NEW k \in Tasks, SignInEnds(k)
      PROVE  Forgotten'
  BY <1>8 DEF SignInEnds
<1>9. ASSUME NEW d \in Defs, Import(d)
      PROVE  Forgotten'
  <2>1. row' # None
    BY <1>9, RowRedefined DEF Import, Rows
  <2>2. row # None
    BY <1>9 DEF Import, Rows
  <2> QED
    BY <1>9, <2>1, <2>2 DEF Import
<1>10. CASE Startup
  BY <1>10 DEF Startup
<1>11. ASSUME NEW k \in Tasks, Begin(k)
      PROVE  Forgotten'
  BY <1>11 DEF Begin, Free
<1>12. ASSUME NEW k \in Tasks, Remove(k)
      PROVE  Forgotten'
  BY <1>12 DEF Remove
<1>13. ASSUME NEW k \in Tasks, Cancelled(k)
      PROVE  Forgotten'
  BY <1>13 DEF Cancelled
<1>14. ASSUME NEW k \in Tasks, Skip(k)
      PROVE  Forgotten'
  BY <1>14 DEF Skip, Report
<1>15. ASSUME NEW k \in Tasks, Dial(k)
      PROVE  Forgotten'
  BY <1>15 DEF Dial
<1>16. ASSUME NEW k \in Tasks, Connects(k)
      PROVE  Forgotten'
  BY <1>16 DEF Connects, Report
<1>17. ASSUME NEW k \in Tasks, Fails(k)
      PROVE  Forgotten'
  BY <1>17 DEF Fails, Report
<1>18. ASSUME NEW k \in Tasks, Persist(k)
      PROVE  Forgotten'
  BY <1>18 DEF Persist, End
<1>19. ASSUME NEW k \in Tasks, DeleteRows(k)
      PROVE  Forgotten'
  BY <1>19 DEF DeleteRows, End
<1>20. ASSUME NEW k \in Tasks, DeleteSecrets(k)
      PROVE  Forgotten'
  BY <1>20 DEF DeleteSecrets, End
<1>21. CASE Restart
  BY <1>21 DEF Restart
<1>22. CASE UNCHANGED vars
  BY <1>22 DEF vars
<1> QED
  BY <1>1, <1>2, <1>3, <1>4, <1>5, <1>6, <1>7, <1>8, <1>9, <1>10, <1>11,
     <1>12, <1>13, <1>14, <1>15, <1>16, <1>17, <1>18, <1>19, <1>20, <1>21, <1>22
  DEF Next, Command, Work

LEMMA LeftHolds == Spec => []IInvLeft
<1>1. Init => IInvLeft
  BY McpAssumption DEF Init, IInvLeft, SeenIsTrue, Diagnosed, Forgotten, Tasks, Rows
<1>2. TypeOK /\ Reports /\ LockHeld /\ IInvRows /\ IInvCurrent /\ IInvLeft /\ [Next]_vars
      => IInvLeft'
  BY SeenStep, DiagnosedStep, ForgottenStep DEF IInvLeft, IInvRows, IInvCurrent
<1> QED
  BY ReportsHold, LockHolds, RowsHold, CurrentHolds, <1>1, <1>2, PTL DEF Spec

\* Once every command has ended and the startup task with them, the diagnostics tell
\* whether there is a connection, and a deleted server has left no secrets, but for the
\* gaps that are recorded: an import, a failed statement, the process ending.
THEOREM RestIsClean == Spec => []NothingIsLeft
<1>1. IInvLeft => NothingIsLeft
  <2> SUFFICES ASSUME IInvLeft, AtRest PROVE NothingIsLeft
    BY DEF NothingIsLeft
  <2>1. \A k \in Tasks : pc[k] \in {"idle", "done"}
    BY DEF AtRest, InFlight, Tasks
  <2>2. ToSettle = {} /\ pc[Boot] # "idle" /\ \A k \in Tasks : pc[k] # "forget"
    BY <2>1 DEF ToSettle, AtRest
  <2> QED
    BY <2>2 DEF IInvLeft, Diagnosed, Forgotten, NothingIsLeft
<1> QED
  BY LeftHolds, <1>1, PTL
=============================================================================
