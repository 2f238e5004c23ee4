----------------------------- MODULE ModelFetch -----------------------------
(***************************************************************************)
(* The shared fetch of a provider's model list                             *)
(* (ModelRegistry::get_or_fetch in models.rs): a cache with a lifetime, a  *)
(* map of fetches in flight with one tokio Notify each, and the callers    *)
(* that lead a fetch, wait for one or, when they must have new data, fetch *)
(* again after they waited.                                                *)
(*                                                                         *)
(* Callers are tasks of different availability snapshots; the two maps are *)
(* behind async locks, and one action is one critical section.  Keys do    *)
(* not meet, so there is one.  A model list is represented by the caller   *)
(* whose fetch produced it.                                                *)
(***************************************************************************)
CONSTANTS
  Callers,  \* calls of get_or_fetch for one cache key
  None

ASSUME FetchAssumption == None \notin Callers

VARIABLES
  cache,    \* MODEL_CACHE: whose list it holds and whether it is within its TTL
  pending,  \* PENDING_REQUESTS: the caller whose Notify is in the map
  pc,
  force,    \* callers with force_refresh
  waits,    \* the caller on whose Notify one waits
  enabled,  \* callers whose Notified future is registered
  woken,    \* callers whose Notified future has fired
  result,   \* what each caller was given
  begun,    \* history: callers whose own fetch has begun
  before    \* history: the fetches begun before a caller came

flight == <<pending, waits, enabled, woken>>
vars == <<cache, flight, pc, force, result, begun, before>>

NoModels == [by |-> None, fresh |-> FALSE]
Places == {"idle", "lookup", "join", "lead", "clear", "notify",
           "joined", "wait", "refetch", "done"}
Leading == {"lead", "clear"}
Waiting == {"joined", "wait"}

Goto(c, place) == pc' = [pc EXCEPT ![c] = place]
Give(c, models) == result' = [result EXCEPT ![c] = models]
-----------------------------------------------------------------------------
Call(c, f) ==
  /\ pc[c] = "idle"
  /\ force' = IF f THEN force \cup {c} ELSE force
  /\ before' = [before EXCEPT ![c] = begun]
  /\ Goto(c, IF f THEN "join" ELSE "lookup")
  /\ UNCHANGED <<cache, flight, result, begun>>

\* The fast path: a list within its TTL is returned at once.
Lookup(c) ==
  /\ pc[c] = "lookup"
  /\ IF cache.fresh
     THEN Give(c, cache) /\ Goto(c, "done")
     ELSE Goto(c, "join") /\ UNCHANGED result
  /\ UNCHANGED <<cache, flight, force, begun, before>>

\* Mutant: the map is read before it is locked for writing.
LeadUnchecked(c) ==
  /\ pc[c] = "join"
  /\ pending' = c
  /\ begun' = begun \cup {c}
  /\ Goto(c, "lead")
  /\ UNCHANGED <<cache, waits, enabled, woken, force, result, before>>

\* Nobody fetches: the caller leaves its Notify in the map and does.
Lead(c) ==
  /\ pc[c] = "join"
  /\ pending = None
  /\ pending' = c
  /\ begun' = begun \cup {c}
  /\ Goto(c, "lead")
  /\ UNCHANGED <<cache, waits, enabled, woken, force, result, before>>

\* Mutant: the Notified future is only created, as it was before plan 034.
JoinUnregistered(c) ==
  /\ pc[c] = "join"
  /\ pending # None
  /\ waits' = [waits EXCEPT ![c] = pending]
  /\ Goto(c, "joined")
  /\ UNCHANGED <<cache, pending, enabled, woken, force, result, begun, before>>

\* Somebody fetches: the Notified future is registered under the lock.
Join(c) ==
  /\ pc[c] = "join"
  /\ pending # None
  /\ waits' = [waits EXCEPT ![c] = pending]
  /\ enabled' = enabled \cup {c}
  /\ Goto(c, "joined")
  /\ UNCHANGED <<cache, pending, woken, force, result, begun, before>>

\* The first poll of the future registers it if nothing has yet.
Poll(c) ==
  /\ pc[c] = "joined"
  /\ enabled' = enabled \cup {c}
  /\ Goto(c, "wait")
  /\ UNCHANGED <<cache, pending, waits, woken, force, result, begun, before>>

\* Mutant: a caller that must have new data takes what it waited for.
ResumeWithoutRejoin(c) ==
  /\ pc[c] = "wait"
  /\ c \in woken
  /\ Give(c, cache)
  /\ Goto(c, "done")
  /\ UNCHANGED <<cache, flight, force, begun, before>>

\* After the wait: a forced caller fetches by itself, the others read the cache.
Resume(c) ==
  /\ pc[c] = "wait"
  /\ c \in woken
  /\ IF c \in force
     THEN Goto(c, "refetch") /\ begun' = begun \cup {c} /\ UNCHANGED result
     ELSE Give(c, cache) /\ Goto(c, "done") /\ UNCHANGED begun
  /\ UNCHANGED <<cache, flight, force, before>>

AfterFetch(c) == Goto(c, IF pc[c] = "lead" THEN "clear" ELSE "done")

\* fetch_and_cache_impl after a success.
FetchSucceeds(c) ==
  /\ pc[c] \in {"lead", "refetch"}
  /\ cache' = [by |-> c, fresh |-> TRUE]
  /\ Give(c, cache')
  /\ AfterFetch(c)
  /\ UNCHANGED <<flight, force, begun, before>>

\* fetch_and_cache_impl after an error: the cached list, marked stale, or none.
FetchFails(c) ==
  /\ pc[c] \in {"lead", "refetch"}
  /\ Give(c, [by |-> cache.by, fresh |-> FALSE])
  /\ AfterFetch(c)
  /\ UNCHANGED <<cache, flight, force, begun, before>>

Clear(c) ==
  /\ pc[c] = "clear"
  /\ pending' = None
  /\ Goto(c, "notify")
  /\ UNCHANGED <<cache, waits, enabled, woken, force, result, begun, before>>

\* notify_waiters wakes the futures that are registered and leaves no permit.
NotifyWaiters(c) ==
  /\ pc[c] = "notify"
  /\ woken' = woken \cup {w \in enabled : waits[w] = c}
  /\ Goto(c, "done")
  /\ UNCHANGED <<cache, pending, waits, enabled, force, result, begun, before>>

\* The TTL of the cached list runs out.
Expire ==
  /\ cache.fresh
  /\ cache' = [cache EXCEPT !.fresh = FALSE]
  /\ UNCHANGED <<flight, pc, force, result, begun, before>>
-----------------------------------------------------------------------------
Init ==
  /\ cache = NoModels
  /\ pending = None
  /\ pc = [c \in Callers |-> "idle"]
  /\ force = {}
  /\ waits = [c \in Callers |-> None]
  /\ enabled = {}
  /\ woken = {}
  /\ result = [c \in Callers |-> NoModels]
  /\ begun = {}
  /\ before = [c \in Callers |-> {}]

\* What a caller does without waiting for the provider.
Work(c) ==
  \/ Lookup(c) \/ Lead(c) \/ Join(c) \/ Poll(c) \/ Resume(c)
  \/ Clear(c) \/ NotifyWaiters(c)

Next ==
  \/ \E c \in Callers :
       \/ \E f \in BOOLEAN : Call(c, f)
       \/ Work(c)
       \/ FetchSucceeds(c)
       \/ FetchFails(c)
  \/ Expire

Spec == Init /\ [][Next]_vars

\* Tokio polls a runnable task again; the provider may never answer.
FairSpec == Spec /\ \A c \in Callers : WF_vars(Work(c))
-----------------------------------------------------------------------------
(* Properties *)

\* Type invariant: places, lists and the two maps keep to their ranges, and
\* whoever waits holds somebody's Notify.
TypeOK ==
  /\ cache \in [by : Callers \cup {None}, fresh : BOOLEAN]
  /\ pending \in Callers \cup {None}
  /\ pc \in [Callers -> Places]
  /\ force \in SUBSET Callers
  /\ waits \in [Callers -> Callers \cup {None}]
  /\ enabled \in SUBSET Callers
  /\ woken \in SUBSET Callers
  /\ result \in [Callers -> [by : Callers \cup {None}, fresh : BOOLEAN]]
  /\ begun \in SUBSET Callers
  /\ before \in [Callers -> SUBSET Callers]
  /\ \A c \in Callers : pc[c] \in Waiting => waits[c] \in Callers

\* No lost wake-up: whoever waits has been woken, or is registered with a caller
\* that is still to notify (get_or_fetch, the registration under the lock).
NoLostWakeup ==
  \A c \in Callers :
    pc[c] \in Waiting /\ c \notin woken =>
      /\ c \in enabled
      /\ pc[waits[c]] \in Leading \cup {"notify"}

\* One leader at a time, and it is the one in the map: so a leader that ends
\* removes its own entry and nobody else's.
SingleLeader ==
  \A c \in Callers : pc[c] \in Leading <=> pending = c

\* One fetch is shared: there is one leader, and everyone who waits is sure to be woken by it,
\* although notify_waiters leaves no permit for those who come late.
OneFlight == SingleLeader /\ NoLostWakeup

\* A caller is told that a list is fresh only if it was fetched and then
\* current; one that forced a refresh, only if it was fetched after its call.
FreshMeansFresh ==
  \A c \in Callers :
    result[c].fresh =>
      /\ result[c].by \in begun
      /\ c \in force => result[c].by \notin before[c]

\* A waiter goes on once its leader has its answer, whatever became of it.
WaitersGoOn ==
  \A c \in Callers :
    (pc[c] \in Waiting /\ pc[waits[c]] # "lead") ~> pc[c] \in {"refetch", "done"}
=============================================================================
