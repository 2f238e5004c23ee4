-------------------------- MODULE ModelFetchProofs --------------------------
(***************************************************************************)
(* What holds of the shared fetch for any number of callers: one leader at *)
(* a time, no lost wake-up, and no list passed off as fresh.               *)
(***************************************************************************)
EXTENDS ModelFetch, TLAPS

\* A caller that must have new data and was given a list fetched it itself.
OwnLists ==
  \A c \in Callers :
    /\ pc[c] \notin {"clear", "notify", "done"} => result[c] = NoModels
    /\ pc[c] \in {"lead", "refetch", "clear", "notify"} => c \in begun
    /\ result[c].fresh => result[c].by \in begun
    /\ c \in force /\ result[c].fresh => result[c].by = c
    /\ c \notin before[c]
    /\ pc[c] = "idle" => c \notin begun
    /\ pc[c] \in {"idle", "lookup"} => c \notin force

CacheIsFetched == cache.fresh => cache.by \in begun

IInvFresh == TypeOK /\ OwnLists /\ CacheIsFetched
-----------------------------------------------------------------------------
(* Types *)

\* The whole state is typed, and whoever waits holds somebody's Notify
\* (get_or_fetch: a Notify is joined only when the map holds one).
THEOREM TypeCorrect == Spec => []TypeOK
<1>1. Init => TypeOK
  BY DEF Init, TypeOK, NoModels, Places, Waiting
<1>2. TypeOK /\ [Next]_vars => TypeOK'
  <2> SUFFICES ASSUME TypeOK, [Next]_vars PROVE TypeOK'
    OBVIOUS
  <2> USE DEF TypeOK, Places, Waiting, flight, Goto, Give
  <2>1. ASSUME NEW c \in Callers, NEW f \in BOOLEAN, Call(c, f) PROVE TypeOK'
    BY <2>1 DEF Call
  <2>2. ASSUME NEW c \in Callers, Lookup(c) PROVE TypeOK'
    BY <2>2 DEF Lookup
  <2>3. ASSUME NEW c \in Callers, Lead(c) PROVE TypeOK'
    BY <2>3 DEF Lead
  <2>4. ASSUME NEW c \in Callers, Join(c) PROVE TypeOK'
    BY <2>4 DEF Join
  <2>5. ASSUME NEW c \in Callers, Poll(c) PROVE TypeOK'
    BY <2>5 DEF Poll
  <2>6. ASSUME NEW c \in Callers, Resume(c) PROVE TypeOK'
    BY <2>6 DEF Resume
  <2>7. ASSUME NEW c \in Callers, FetchSucceeds(c) PROVE TypeOK'
    BY <2>7 DEF FetchSucceeds, AfterFetch
  <2>8. ASSUME NEW c \in Callers, FetchFails(c) PROVE TypeOK'
    BY <2>8 DEF FetchFails, AfterFetch
  <2>9. ASSUME NEW c \in Callers, Clear(c) PROVE TypeOK'
    BY <2>9 DEF Clear
  <2>10. ASSUME NEW c \in Callers, NotifyWaiters(c) PROVE TypeOK'
    BY <2>10 DEF NotifyWaiters
  <2>11. CASE Expire
    BY <2>11 DEF Expire
  <2>12. CASE UNCHANGED vars
    BY <2>12 DEF vars
  <2> QED
    BY <2>1, <2>2, <2>3, <2>4, <2>5, <2>6, <2>7, <2>8, <2>9, <2>10, <2>11, <2>12
    DEF Next, Work
<1> QED
  BY <1>1, <1>2, PTL DEF Spec
-----------------------------------------------------------------------------
(* One leader, and nobody left asleep *)

LEMMA FlightStarts == Init => SingleLeader /\ NoLostWakeup
  BY FetchAssumption DEF Init, SingleLeader, NoLostWakeup, Leading, Waiting

\* The map is written under its lock by the caller that found it empty and by
\* the one whose entry it is.
LEMMA LeaderStep ==
  ASSUME TypeOK, SingleLeader, [Next]_vars PROVE SingleLeader'
<1> USE FetchAssumption DEF TypeOK, SingleLeader, Leading, flight, Goto, Give
<1>1. ASSUME NEW c \in Callers, NEW f \in BOOLEAN, Call(c, f)
  PROVE SingleLeader'
  BY <1>1 DEF Call
<1>2. ASSUME NEW c \in Callers, Lookup(c) PROVE SingleLeader'
  BY <1>2 DEF Lookup
<1>3. ASSUME NEW c \in Callers, Lead(c) PROVE SingleLeader'
  BY <1>3 DEF Lead
<1>4. ASSUME NEW c \in Callers, Join(c) PROVE SingleLeader'
  BY <1>4 DEF Join
<1>5. ASSUME NEW c \in Callers, Poll(c) PROVE SingleLeader'
  BY <1>5 DEF Poll
<1>6. ASSUME NEW c \in Callers, Resume(c) PROVE SingleLeader'
  BY <1>6 DEF Resume
<1>7. ASSUME NEW c \in Callers, FetchSucceeds(c) PROVE SingleLeader'
  BY <1>7 DEF FetchSucceeds, AfterFetch
<1>8. ASSUME NEW c \in Callers, FetchFails(c) PROVE SingleLeader'
  BY <1>8 DEF FetchFails, AfterFetch
<1>9. ASSUME NEW c \in Callers, Clear(c) PROVE SingleLeader'
  BY <1>9 DEF Clear
<1>10. ASSUME NEW c \in Callers, NotifyWaiters(c) PROVE SingleLeader'
  BY <1>10 DEF NotifyWaiters
<1>11. CASE Expire
  BY <1>11 DEF Expire
<1>12. CASE UNCHANGED vars
  BY <1>12 DEF vars
<1> QED
  BY <1>1, <1>2, <1>3, <1>4, <1>5, <1>6, <1>7, <1>8, <1>9, <1>10, <1>11, <1>12
  DEF Next, Work

\* Whoever is waited for leaves its two duties only by fulfilling them: it
\* clears the map, and then it wakes everyone that registered with it.
LEMMA WakeupStep ==
  ASSUME TypeOK, SingleLeader, NoLostWakeup, [Next]_vars PROVE NoLostWakeup'
<1> USE DEF TypeOK, NoLostWakeup, Leading, Waiting, flight, Goto, Give
<1>1. ASSUME NEW c \in Callers, NEW f \in BOOLEAN, Call(c, f)
  PROVE NoLostWakeup'
  BY <1>1 DEF Call
<1>2. ASSUME NEW c \in Callers, Lookup(c) PROVE NoLostWakeup'
  BY <1>2 DEF Lookup
<1>3. ASSUME NEW c \in Callers, Lead(c) PROVE NoLostWakeup'
  BY <1>3 DEF Lead
<1>4. ASSUME NEW c \in Callers, Join(c) PROVE NoLostWakeup'
  BY <1>4 DEF Join, SingleLeader
<1>5. ASSUME NEW c \in Callers, Poll(c) PROVE NoLostWakeup'
  BY <1>5 DEF Poll
<1>6. ASSUME NEW c \in Callers, Resume(c) PROVE NoLostWakeup'
  BY <1>6 DEF Resume
<1>7. ASSUME NEW c \in Callers, FetchSucceeds(c) PROVE NoLostWakeup'
  BY <1>7 DEF FetchSucceeds, AfterFetch
<1>8. ASSUME NEW c \in Callers, FetchFails(c) PROVE NoLostWakeup'
  BY <1>8 DEF FetchFails, AfterFetch
<1>9. ASSUME NEW c \in Callers, Clear(c) PROVE NoLostWakeup'
  BY <1>9 DEF Clear
<1>10. ASSUME NEW c \in Callers, NotifyWaiters(c) PROVE NoLostWakeup'
  BY <1>10 DEF NotifyWaiters
<1>11. CASE Expire
  BY <1>11 DEF Expire
<1>12. CASE UNCHANGED vars
  BY <1>12 DEF vars
<1> QED
  BY <1>1, <1>2, <1>3, <1>4, <1>5, <1>6, <1>7, <1>8, <1>9, <1>10, <1>11, <1>12
  DEF Next, Work

\* At most one caller leads a fetch, and the entry in the map is its own, so the
\* unconditional remove of get_or_fetch takes away no other caller's entry.
THEOREM OneLeader == Spec => []SingleLeader
<1>1. TypeOK /\ TypeOK' /\ SingleLeader /\ [Next]_vars => SingleLeader'
  BY LeaderStep
<1> QED
  BY FlightStarts, TypeCorrect, <1>1, PTL DEF Spec

\* A caller that waits is registered with one that is still to notify: the
\* registration under the lock (get_or_fetch) closes the window for a lost wake-up.
THEOREM NobodySleeps == Spec => []NoLostWakeup
<1>1. TypeOK /\ SingleLeader /\ NoLostWakeup /\ [Next]_vars => NoLostWakeup'
  BY WakeupStep
<1> QED
  BY FlightStarts, TypeCorrect, OneLeader, <1>1, PTL DEF Spec

\* For any number of callers one fetch is shared, and it wakes everyone who waits for it.
THEOREM FlightIsShared == Spec => []OneFlight
<1>1. SingleLeader /\ NoLostWakeup => OneFlight
  BY DEF OneFlight
<1> QED
  BY <1>1, OneLeader, NobodySleeps, PTL
-----------------------------------------------------------------------------
(* Fresh lists *)

LEMMA FreshStarts == Init => OwnLists /\ CacheIsFetched
  BY DEF Init, OwnLists, CacheIsFetched, NoModels

LEMMA FreshStep ==
  ASSUME IInvFresh, [Next]_vars PROVE OwnLists' /\ CacheIsFetched'
<1> USE DEF IInvFresh, TypeOK, OwnLists, CacheIsFetched, NoModels, flight, Goto, Give
<1>1. ASSUME NEW c \in Callers, NEW f \in BOOLEAN, Call(c, f)
  PROVE OwnLists' /\ CacheIsFetched'
  <2>1. \A d \in Callers : d # c =>
          pc'[d] = pc[d] /\ before'[d] = before[d] /\ (d \in force' <=> d \in force)
    BY <1>1 DEF Call
  <2>2. pc'[c] = IF f THEN "join" ELSE "lookup"
    BY <1>1 DEF Call
  <2>3. result'[c] = [by |-> None, fresh |-> FALSE] /\ ~ result'[c].fresh
    BY <1>1 DEF Call
  <2>4. pc'[c] = "lookup" => c \notin force'
    <3>1. CASE f
      BY <1>1, <2>2, <3>1 DEF Call
    <3>2. CASE ~ f
      BY <1>1, <3>2 DEF Call
    <3> QED
      BY <3>1, <3>2
  <2>5. OwnLists'
    BY <1>1, <2>1, <2>2, <2>3, <2>4 DEF Call
  <2> QED
    BY <1>1, <2>5 DEF Call
<1>2. ASSUME NEW c \in Callers, Lookup(c) PROVE OwnLists' /\ CacheIsFetched'
  <2>1. CASE cache.fresh
    BY <1>2, <2>1 DEF Lookup
  <2>2. CASE ~ cache.fresh
    BY <1>2, <2>2 DEF Lookup
  <2> QED
    BY <2>1, <2>2
<1>3. ASSUME NEW c \in Callers, Lead(c) PROVE OwnLists' /\ CacheIsFetched'
  BY <1>3 DEF Lead
<1>4. ASSUME NEW c \in Callers, Join(c) PROVE OwnLists' /\ CacheIsFetched'
  BY <1>4 DEF Join
<1>5. ASSUME NEW c \in Callers, Poll(c) PROVE OwnLists' /\ CacheIsFetched'
  BY <1>5 DEF Poll
<1>6. ASSUME NEW c \in Callers, Resume(c) PROVE OwnLists' /\ CacheIsFetched'
  <2>1. CASE c \in force
    BY <1>6, <2>1 DEF Resume
  <2>2. CASE c \notin force
    BY <1>6, <2>2 DEF Resume
  <2> QED
    BY <2>1, <2>2
<1>7. ASSUME NEW c \in Callers, FetchSucceeds(c)
  PROVE OwnLists' /\ CacheIsFetched'
  BY <1>7 DEF FetchSucceeds, AfterFetch
<1>8. ASSUME NEW c \in Callers, FetchFails(c) PROVE OwnLists' /\ CacheIsFetched'
  BY <1>8 DEF FetchFails, AfterFetch
<1>9. ASSUME NEW c \in Callers, Clear(c) PROVE OwnLists' /\ CacheIsFetched'
  BY <1>9 DEF Clear
<1>10. ASSUME NEW c \in Callers, NotifyWaiters(c)
  PROVE OwnLists' /\ CacheIsFetched'
  BY <1>10 DEF NotifyWaiters
<1>11. CASE Expire
  BY <1>11 DEF Expire
<1>12. CASE UNCHANGED vars
  BY <1>12 DEF vars
<1> QED
  BY <1>1, <1>2, <1>3, <1>4, <1>5, <1>6, <1>7, <1>8, <1>9, <1>10, <1>11, <1>12
  DEF Next, Work

\* A list is called fresh only if somebody fetched it, and to a caller that forced
\* a refresh only if that fetch had not begun before its call (get_or_fetch's rejoin).
THEOREM FreshIsFresh == Spec => []FreshMeansFresh
<1>1. OwnLists => FreshMeansFresh
  BY DEF OwnLists, FreshMeansFresh
<1>2. TypeOK /\ OwnLists /\ CacheIsFetched /\ [Next]_vars
      => OwnLists' /\ CacheIsFetched'
  BY FreshStep DEF IInvFresh
<1> QED
  BY FreshStarts, TypeCorrect, <1>1, <1>2, PTL DEF Spec
=============================================================================
