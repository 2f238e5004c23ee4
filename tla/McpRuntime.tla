----------------------------- MODULE McpRuntime -----------------------------
(***************************************************************************)
(* One custom MCP server: its rows in the configuration store              *)
(* (app_config.rs), its secrets (mcp_credentials.rs), its live connection  *)
(* and the transition lock (mcp_runtime.rs), and the commands of lib.rs    *)
(* that edit the rows first and then bring the connection in line.         *)
(*                                                                         *)
(* Commands are tokio tasks; an action is what one does under one lock or  *)
(* up to an await.  Servers share only the connection map, which nobody    *)
(* holds across an await, so there is one server; ids are never used again.*)
(* A definition is what the server is (transport, command, URL), to which  *)
(* approval belongs, and its options (arguments, environment, headers).    *)
(***************************************************************************)
CONSTANTS
  Commands,   \* calls of the window's commands
  Boot,       \* the task that reconnects at startup
  Defs,       \* definitions of a server
  Endpoint,   \* what of a definition an approval is about
  None

Tasks == Commands \cup {Boot}

Rows == [def : Defs, enabled : BOOLEAN, trusted : BOOLEAN]
\* The reasons for not being connected (approval, sign-in, errors) are left out.
Healths == {"connected", "not_connected"}

ASSUME McpAssumption ==
  /\ Boot \notin Commands
  /\ None \notin Defs
  /\ None \notin Rows
  /\ None \notin Healths

VARIABLES
  row,      \* the definition and the state of the server in SQLite
  health,   \* its diagnostics row
  secrets,  \* what mcp-credentials.json holds for it
  conn,     \* McpRuntime::connections: the definition it was made with
  pc,
  goal,     \* whether a task is to connect or to delete
  srv,      \* the row a task works with
  seen,     \* the health a task is going to report
  gaps      \* history: how rows, connection and secrets may have come apart

store == <<row, health, secrets>>
vars == <<store, conn, pc, goal, srv, seen, gaps>>

\* Places of a task: before the transition lock, and while it holds it.
Coming == {"secrets", "signing", "enqueue"}
Holding == {"disconnect", "cancel", "stopped", "dialing", "persist", "forget"}
Places == {"idle", "done"} \cup Coming \cup Holding

Goto(k, place) == pc' = [pc EXCEPT ![k] = place]
Free == \A k \in Tasks : pc[k] \notin Holding
InFlight(k) == pc[k] \notin {"idle", "done"}

\* A task ends, and what it had in hand is gone.
End(k) ==
  /\ Goto(k, "done")
  /\ goal' = [goal EXCEPT ![k] = "connect"]
  /\ srv' = [srv EXCEPT ![k] = None]
  /\ seen' = [seen EXCEPT ![k] = None]
-----------------------------------------------------------------------------
(* The window's commands: first they edit the rows *)

\* A command on the row of a server that exists; no other row is touched.
Edit(k, edited, place) ==
  /\ pc[k] = "idle"
  /\ row # None
  /\ row' = edited
  /\ Goto(k, place)
  /\ UNCHANGED <<secrets, conn, goal, srv, seen>>

\* A new definition: one for another endpoint takes the approval away.
Redefined(d) ==
  [row EXCEPT !.def = d, !.trusted = row.trusted /\ Endpoint[row.def] = Endpoint[d]]
Rediagnosed(d) == IF Endpoint[row.def] = Endpoint[d] THEN health ELSE "not_connected"

\* The statements are no transaction: after the definition, the one that takes the
\* approval away may fail, or the one that resets the diagnostics.
HalfRedefined(d) == {[row EXCEPT !.def = d], Redefined(d)}

Update(k, d) ==
  /\ row # None
  /\ \/ /\ Edit(k, Redefined(d), "secrets")
        /\ health' = Rediagnosed(d)
        /\ UNCHANGED gaps
     \/ /\ \E half \in HalfRedefined(d) : Edit(k, half, "done")
        /\ Endpoint[row.def] # Endpoint[d]
        /\ gaps' = gaps \cup {"behind"}
        /\ UNCHANGED health

\* The values in the form are stored after the rows are unlocked; a failure is
\* logged.
StoreSecrets(k) ==
  /\ pc[k] = "secrets"
  /\ secrets' \in {secrets, secrets \cup {"values"}, secrets \ {"values"}}
  /\ gaps' = IF row = None /\ secrets' # {} THEN gaps \cup {"late"} ELSE gaps
  /\ Goto(k, "enqueue")
  /\ UNCHANGED <<row, health, conn, goal, srv, seen>>

\* Mutant: a server that is switched off is left to itself.
SetEnabledQuietly(k, b) ==
  /\ Edit(k, [row EXCEPT !.enabled = b], IF b THEN "enqueue" ELSE "done")
  /\ UNCHANGED <<health, gaps>>

SetEnabled(k, b) ==
  /\ Edit(k, [row EXCEPT !.enabled = b], "enqueue")
  /\ UNCHANGED <<health, gaps>>

SetTrusted(k, b) ==
  /\ Edit(k, [row EXCEPT !.trusted = b], "enqueue")
  /\ UNCHANGED <<health, gaps>>

\* refresh_mcp_server and the deletion edit nothing before they have the lock.
Ask(k, g) ==
  /\ pc[k] = "idle"
  /\ goal' = [goal EXCEPT ![k] = g]
  /\ Goto(k, "enqueue")
  /\ UNCHANGED <<store, conn, srv, seen, gaps>>

Logout(k) ==
  /\ pc[k] = "idle"
  /\ secrets' = secrets \ {"oauth"}
  /\ Goto(k, "enqueue")
  /\ UNCHANGED <<row, health, conn, goal, srv, seen, gaps>>

SignIn(k) ==
  /\ row # None
  /\ row.trusted
  /\ Edit(k, row, "signing")
  /\ UNCHANGED <<health, gaps>>

\* The callback arrives or the wait for it fails; if sign-in never got as far as
\* the browser, the command ends.
SignInEnds(k) ==
  /\ pc[k] = "signing"
  /\ \/ /\ secrets' = secrets \cup {"oauth"}
        /\ gaps' = IF row = None THEN gaps \cup {"late"} ELSE gaps
        /\ Goto(k, "enqueue")
     \/ \E place \in {"enqueue", "done"} : Goto(k, place) /\ UNCHANGED <<secrets, gaps>>
  /\ UNCHANGED <<row, health, conn, goal, srv, seen>>

\* An import that overwrites: the edit of Update, and nothing after it.
Import(d) ==
  /\ row # None
  /\ row.def # d
  /\ \/ /\ row' = Redefined(d)
        /\ health' = Rediagnosed(d)
     \/ /\ row' \in HalfRedefined(d)
        /\ UNCHANGED health
  /\ gaps' = gaps \cup {"behind"}
  /\ UNCHANGED <<secrets, conn, pc, goal, srv, seen>>

\* The startup task lists the servers and reconnects those that are approved.
Startup ==
  /\ pc[Boot] = "idle"
  /\ Goto(Boot, IF row # None /\ row.enabled /\ row.trusted THEN "enqueue" ELSE "done")
  /\ UNCHANGED <<store, conn, goal, srv, seen, gaps>>
-----------------------------------------------------------------------------
(* Under the transition lock *)

\* Mutant: the row is read, and the connection replaced, without the lock.
BeginUnlocked(k) ==
  /\ pc[k] = "enqueue"
  /\ IF goal[k] = "connect" /\ row = None
     THEN Goto(k, "done") /\ UNCHANGED <<srv, gaps>>
     ELSE /\ srv' = [srv EXCEPT ![k] = IF goal[k] = "connect" THEN row ELSE None]
          /\ gaps' = gaps \ {"behind"}
          /\ Goto(k, "disconnect")
  /\ UNCHANGED <<store, conn, goal, seen>>

\* The lock is taken and the row read; whoever waits may be next.
Begin(k) ==
  /\ pc[k] = "enqueue"
  /\ Free
  /\ IF goal[k] = "connect" /\ row = None
     THEN Goto(k, "done") /\ UNCHANGED <<srv, gaps>>
     ELSE /\ srv' = [srv EXCEPT ![k] = IF goal[k] = "connect" THEN row ELSE None]
          /\ gaps' = gaps \ {"behind"}
          /\ Goto(k, "disconnect")
  /\ UNCHANGED <<store, conn, goal, seen>>

\* disconnect: the entry is removed, and the service cancelled after that.
Remove(k) ==
  /\ pc[k] = "disconnect"
  /\ conn' = None
  /\ Goto(k, IF conn = None THEN "stopped" ELSE "cancel")
  /\ UNCHANGED <<store, goal, srv, seen, gaps>>

Cancelled(k) ==
  /\ pc[k] = "cancel"
  /\ Goto(k, "stopped")
  /\ UNCHANGED <<store, conn, goal, srv, seen, gaps>>

Report(k, h, place) ==
  /\ seen' = [seen EXCEPT ![k] = h]
  /\ Goto(k, place)
  /\ UNCHANGED <<store, goal, srv, gaps>>

\* Mutant: a server that may not be contacted is not reported on.
SkipUnreported(k) ==
  /\ pc[k] = "stopped"
  /\ goal[k] = "connect"
  /\ ~(srv[k].trusted /\ srv[k].enabled)
  /\ Goto(k, "persist")
  /\ UNCHANGED <<store, conn, goal, srv, seen, gaps>>

\* Mutant: it is reported on only if it is not approved.
SkipSilently(k) ==
  /\ pc[k] = "stopped"
  /\ goal[k] = "connect"
  /\ ~(srv[k].trusted /\ srv[k].enabled)
  /\ Report(k, "not_connected", IF srv[k].trusted THEN "done" ELSE "persist")
  /\ UNCHANGED conn

\* A server that is not approved or not enabled is not contacted.
Skip(k) ==
  /\ pc[k] = "stopped"
  /\ goal[k] = "connect"
  /\ ~(srv[k].trusted /\ srv[k].enabled)
  /\ Report(k, "not_connected", "persist")
  /\ UNCHANGED conn

Dial(k) ==
  /\ pc[k] = "stopped"
  /\ goal[k] = "connect"
  /\ srv[k].trusted /\ srv[k].enabled
  /\ Goto(k, "dialing")
  /\ UNCHANGED <<store, conn, goal, srv, seen, gaps>>

Connects(k) ==
  /\ pc[k] = "dialing"
  /\ conn' = srv[k].def
  /\ Report(k, "connected", "persist")

\* An error, or CONNECT_TIMEOUT.
Fails(k) ==
  /\ pc[k] = "dialing"
  /\ Report(k, "not_connected", "persist")
  /\ UNCHANGED conn

\* persist_mcp_refresh inserts or updates, whether or not the server has a row,
\* or fails.
Persist(k) ==
  /\ pc[k] = "persist"
  /\ \/ health' = seen[k] /\ gaps' = gaps \ {"cut"}
     \/ health' = health /\ gaps' = gaps \cup {"cut"}
  /\ End(k)
  /\ UNCHANGED <<row, secrets, conn>>

\* Mutant: the secrets of a deleted server stay.
DeleteRowsOnly(k) ==
  /\ pc[k] = "stopped"
  /\ goal[k] = "delete"
  /\ row' = None
  /\ health' = None
  /\ End(k)
  /\ UNCHANGED <<secrets, conn, gaps>>

\* AppConfigStore::delete_mcp_server, the rows: an error if there are none, or if the
\* first statement fails or a later one.
DeleteRows(k) ==
  /\ pc[k] = "stopped"
  /\ goal[k] = "delete"
  /\ \/ /\ row = None
        /\ End(k)
        /\ UNCHANGED <<row, health, gaps>>
     \/ /\ row # None
        /\ End(k)
        /\ \/ row' = row /\ gaps' = gaps \cup {"cut"}
           \/ row' = None /\ gaps' = gaps \cup {"torn"}
        /\ UNCHANGED health
     \/ /\ row # None
        /\ row' = None
        /\ health' = None
        /\ Goto(k, "forget")
        /\ UNCHANGED <<goal, srv, seen, gaps>>
  /\ UNCHANGED <<secrets, conn>>

\* The secrets go when the rows have been unlocked; a failure is logged.
DeleteSecrets(k) ==
  /\ pc[k] = "forget"
  /\ \/ secrets' = {} /\ UNCHANGED gaps
     \/ secrets' = secrets /\ gaps' = gaps \cup {"late"}
  /\ End(k)
  /\ UNCHANGED <<row, health, conn>>

\* The process ends, wherever its tasks are, and starts again.
Restart ==
  /\ conn' = None
  /\ pc' = [k \in Tasks |-> IF k = Boot \/ pc[k] = "idle" THEN "idle" ELSE "done"]
  /\ gaps' = gaps
       \cup (IF \E k \in Tasks : InFlight(k) THEN {"cut"} ELSE {})
       \cup (IF \E k \in Commands : pc[k] = "forget" THEN {"late"} ELSE {})
  /\ goal' = [k \in Tasks |-> "connect"]
  /\ srv' = [k \in Tasks |-> None]
  /\ seen' = [k \in Tasks |-> None]
  /\ UNCHANGED store
-----------------------------------------------------------------------------
\* The application starts with a server that was created, and perhaps approved and
\* enabled, before.
Init ==
  /\ row \in Rows
  /\ health = "not_connected"
  /\ secrets \in SUBSET {"values"}
  /\ conn = None
  /\ pc = [k \in Tasks |-> "idle"]
  /\ goal = [k \in Tasks |-> "connect"]
  /\ srv = [k \in Tasks |-> None]
  /\ seen = [k \in Tasks |-> None]
  /\ gaps = {}

\* What a task does unasked.
Work(k) ==
  \/ StoreSecrets(k) \/ SignInEnds(k) \/ Begin(k)
  \/ Remove(k) \/ Cancelled(k) \/ Skip(k) \/ Dial(k) \/ Connects(k) \/ Fails(k)
  \/ Persist(k) \/ DeleteRows(k) \/ DeleteSecrets(k)

Command(k) ==
  \/ \E d \in Defs : Update(k, d)
  \/ \E b \in BOOLEAN : SetEnabled(k, b) \/ SetTrusted(k, b)
  \/ \E g \in {"connect", "delete"} : Ask(k, g)
  \/ Logout(k) \/ SignIn(k)

Next ==
  \/ \E k \in Commands : Command(k)
  \/ \E k \in Tasks : Work(k)
  \/ \E d \in Defs : Import(d)
  \/ Startup
  \/ Restart

Spec == Init /\ [][Next]_vars
-----------------------------------------------------------------------------
(* Properties *)

\* Type invariant: every variable keeps to its range, the diagnostics of a server
\* say something, and a task that connects works with a row.
TypeOK ==
  /\ row \in Rows \cup {None}
  /\ health \in Healths \cup {None}
  /\ row # None => health # None
  /\ secrets \in SUBSET {"values", "oauth"}
  /\ conn \in Defs \cup {None}
  /\ pc \in [Tasks -> Places]
  /\ goal \in [Tasks -> {"connect", "delete"}]
  /\ srv \in [Tasks -> Rows \cup {None}]
  /\ seen \in [Tasks -> Healths \cup {None}]
  /\ gaps \in SUBSET {"behind", "late", "cut", "torn"}
  /\ \A k \in Tasks : pc[k] \in Holding /\ goal[k] = "connect" => srv[k] # None

\* The child process or HTTP session of a server is alive from the call that
\* makes it until it has been cancelled: there is never more than one, whatever
\* commands overlap (lock_server, and the disconnect that connect begins with).
OneService ==
  \A k \in Tasks :
    pc[k] \in {"cancel", "dialing"} =>
      /\ conn = None
      /\ \A j \in Tasks : pc[j] \in {"cancel", "dialing"} => j = k

Approved == row # None /\ row.enabled /\ row.trusted /\ row.def = conn

\* Tasks that have yet to replace the connection.
ToReplace == {k \in Tasks : pc[k] \in {"secrets", "enqueue", "disconnect"}}

\* A connection belongs to a server that is approved, enabled and still defined
\* that way, or a command is about to replace it, unless the row was changed by an
\* import or a statement failed (connect_and_report reads the row under the lock,
\* after every edit).
UnapprovedGoes ==
  conn # None /\ "behind" \notin gaps => Approved \/ ToReplace # {}

\* A deleted server has no connection, and no diagnostics that a connect which
\* overlapped the deletion wrote (delete_server takes the transition lock).
DeletedIsGone ==
  row = None => conn = None /\ (health = None \/ "torn" \in gaps)

AtRest == pc[Boot] = "done" /\ \A k \in Commands : ~ InFlight(k)

\* At rest nothing is left of what went before.  The diagnostics say "connected" exactly when
\* there is a connection, unless the process ended while a task was at work, an import has gone
\* by or a statement failed.  A deleted server has left no secrets, unless they came after its
\* rows were gone, the deletion failed half-way, or the process ended in the midst of it.
NothingIsLeft ==
  AtRest =>
    /\ row # None /\ gaps \cap {"behind", "cut"} = {} => (health = "connected" <=> conn # None)
    /\ row = None /\ gaps \cap {"late", "torn"} = {} => secrets = {}
=============================================================================
