------------------------- MODULE ReviewSweepProofs -------------------------
(***************************************************************************)
(* Proofs about ReviewSweep, for any focuses, anchors, diffs, commands and *)
(* contents of the store.                                                  *)
(*                                                                         *)
(* That a rejected finding stays away rests on three facts about a task    *)
(* that has loaded the store: a rejection that stood ever since the start  *)
(* is among the anchors it holds as barred, no candidate is barred, and a  *)
(* task that has not finished has no result.  That an outcome is kept      *)
(* rests on the lock: what its holder has read is what the file holds.     *)
(***************************************************************************)
EXTENDS ReviewSweep, FiniteSetTheorems, SequenceTheorems, WellFoundedInduction, TLAPS

-----------------------------------------------------------------------------
(***************************************************************************)
(* The folds                                                               *)
(*                                                                         *)
(* FoldLeft computes a function on the sets of places of a list, of which  *)
(* it returns the last value.  What the chunks are made of is shown from   *)
(* the values for 1..m, and an error would have a smallest m.              *)
(***************************************************************************)

LEMMA UpTo == ASSUME NEW n \in Nat PROVE IsFiniteSet(1..n) /\ Cardinality(1..n) = n
  <1>1. IsFiniteSet(1..n) /\ Cardinality(1..n) = IF 1 > n THEN 0 ELSE n - 1 + 1
    BY FS_Interval, SMTT(30)
  <1> QED BY <1>1

\* A property of a set that is finite, for which one looks at the smallest subsets that lack it.
LEMMA SmallestSubset ==
  ASSUME NEW S, IsFiniteSet(S), NEW T \in SUBSET (SUBSET S), T # {}
  PROVE  \E s \in T : \A r \in T : r \subseteq s => r = s
  <1>1. IsWellFoundedOn(StrictSubsetOrdering(S), SUBSET S)
    BY FS_StrictSubsetOrderingWellFounded, FS_FiniteSubsetsOfFinite
  <1>2. PICK s \in T : \A r \in T : ~(<<r, s>> \in StrictSubsetOrdering(S))
    BY <1>1, WFMin
  <1>3. \A r \in T : r \subseteq s => r = s
    BY <1>2 DEF StrictSubsetOrdering
  <1> QED BY <1>3

LEMMA SmallestNumber ==
  ASSUME NEW s \in SUBSET Nat, s # {}
  PROVE  \E m \in s : \A x \in s : m <= x
  <1>1. PICK m \in s : \A x \in s : ~(<<x, m>> \in OpToRel(<, Nat))
    BY WFMin, NatLessThanWellFounded
  <1>2. \A x \in s : ~(x < m)
    BY <1>1 DEF OpToRel
  <1> QED BY <1>2

LEMMA MaxIs ==
  ASSUME NEW n \in Nat, NEW s \in SUBSET (1..n), s # {}
  PROVE  Max(s) \in s /\ \A x \in s : x <= Max(s)
  <1> DEFINE T == {n - x : x \in s}
  <1>1. T \in SUBSET Nat /\ T # {}
    <2>1. PICK x \in s : TRUE
      OBVIOUS
    <2>2. n - x \in T
      BY <2>1
    <2>3. ASSUME NEW y \in s PROVE n - y \in Nat
      BY <2>3
    <2> QED BY <2>2, <2>3
  <1>2. PICK m \in T : \A x \in T : m <= x
    <2> HIDE DEF T
    <2> QED BY <1>1, SmallestNumber
  <1>3. PICK x \in s : m = n - x
    BY <1>2
  <1>4. \A y \in s : n - x <= n - y /\ n - y \in T
    BY <1>2, <1>3
  <1>5. \A y \in s : x >= y
    BY <1>4
  <1>6. Max(s) \in s /\ \A y \in s : Max(s) >= y
    BY <1>5 DEF Max
  <1> QED BY <1>6

\* The last of the first m places, and the places before it.
LEMMA LastOfFirst ==
  ASSUME NEW m \in Nat \ {0}
  PROVE  Max(1..m) = m /\ 1..m # {} /\ (1..m) \ {m} = 1..(m - 1)
  <1>1. m \in 1..m /\ 1..m \in SUBSET (1..m) /\ m \in Nat
    OBVIOUS
  <1>2. Max(1..m) \in 1..m /\ \A x \in 1..m : x <= Max(1..m)
    BY <1>1, MaxIs
  <1>3. Max(1..m) = m
    BY <1>1, <1>2
  <1>4. (1..m) \ {m} = 1..(m - 1)
    OBVIOUS
  <1> QED BY <1>1, <1>3, <1>4

\* The function of a fold: what a move makes of the set without its last place.
Folded(g, move, start, s) == IF s = {} THEN start ELSE move[<<g[s \ {Max(s)}], Max(s)>>]

IsFold(g, move, start, S) ==
  /\ g = [s \in SUBSET S |-> g[s]]
  /\ \A s \in SUBSET S : g[s] = Folded(g, move, start, s)

LEMMA FoldsAgree ==
  ASSUME NEW n \in Nat, NEW move, NEW start, NEW p \in SUBSET (1..n), NEW q \in SUBSET (1..n),
         NEW g, IsFold(g, move, start, p), NEW h, IsFold(h, move, start, q), NEW s \in SUBSET (p \cap q)
  PROVE  g[s] = h[s]
  <1> DEFINE T == {r \in SUBSET (p \cap q) : g[r] # h[r]}
  <1>1. T = {}
    <2> SUFFICES ASSUME T # {} PROVE FALSE
      OBVIOUS
    <2>1. PICK r \in T : \A t \in T : t \subseteq r => t = r
      <3>1. PICK S : S = 1..n
        OBVIOUS
      <3>2. IsFiniteSet(S)
        BY <3>1, UpTo
      <3>3. T \in SUBSET (SUBSET S)
        BY <3>1
      <3> HIDE DEF T
      <3> QED BY <3>2, <3>3, SmallestSubset
    <2>2. g[r] = Folded(g, move, start, r) /\ h[r] = Folded(h, move, start, r)
      BY DEF IsFold
    <2>3. r # {}
      BY <2>2 DEF Folded
    <2>4. Max(r) \in r
      <3>1. r \in SUBSET (1..n)
        OBVIOUS
      <3> HIDE DEF T
      <3> QED BY <2>3, <3>1, MaxIs
    <2>5. r \ {Max(r)} \in SUBSET (p \cap q) /\ r \ {Max(r)} \notin T
      BY <2>1, <2>4
    <2>6. g[r \ {Max(r)}] = h[r \ {Max(r)}]
      BY <2>5
    <2>7. g[r] = h[r]
      BY <2>2, <2>6 DEF Folded
    <2> QED BY <2>7
  <1> QED BY <1>1

LEMMA FoldExists ==
  ASSUME NEW n \in Nat, NEW move, NEW start
  PROVE  \E g : IsFold(g, move, start, 1..n)
  <1> DEFINE T == {r \in SUBSET (1..n) : ~\E g : IsFold(g, move, start, r)}
  <1>1. T = {}
    <2> SUFFICES ASSUME T # {} PROVE FALSE
      OBVIOUS
    <2>1. PICK r \in T : \A t \in T : t \subseteq r => t = r
      <3>1. PICK S : S = 1..n
        OBVIOUS
      <3>2. IsFiniteSet(S)
        BY <3>1, UpTo
      <3>3. T \in SUBSET (SUBSET S)
        BY <3>1
      <3> HIDE DEF T
      <3> QED BY <3>2, <3>3, SmallestSubset
    <2>2. r \in SUBSET (1..n) /\ \A t \in SUBSET r : t # r => \E g : IsFold(g, move, start, t)
      BY <2>1
    <2> DEFINE fold(t) == CHOOSE g : IsFold(g, move, start, t)
               value(t) == fold(t)[t]
    <2>3. \A t \in SUBSET r : t # r => IsFold(fold(t), move, start, t)
      BY <2>2
    <2> HIDE DEF fold
    <2> DEFINE g == [t \in SUBSET r |-> IF t # r THEN value(t)
                                       ELSE IF t = {} THEN start
                                       ELSE move[<<value(t \ {Max(t)}), Max(t)>>]]
    <2>4. ASSUME NEW t \in SUBSET r PROVE g[t] = Folded(g, move, start, t)
      <3>1. t # {} => Max(t) \in t /\ t \ {Max(t)} \in SUBSET r /\ t \ {Max(t)} # r
        <4>1. t \in SUBSET (1..n)
          BY <2>2
        <4>2. t # {} => Max(t) \in t
          BY <4>1, MaxIs
        <4> QED BY <4>2
      <3>2. t # {} => g[t \ {Max(t)}] = value(t \ {Max(t)})
        BY <3>1
      <3>3. CASE t = r
        BY <3>2, <3>3 DEF Folded
      <3>4. CASE t # r
        <4>1. g[t] = value(t) /\ IsFold(fold(t), move, start, t)
          BY <2>3, <3>4
        <4>2. value(t) = Folded(fold(t), move, start, t)
          BY <4>1 DEF IsFold
        <4>3. CASE t = {}
          BY <4>1, <4>2, <4>3 DEF Folded
        <4>4. CASE t # {}
          <5>1. PICK u : u = t \ {Max(t)}
            OBVIOUS
          <5>2. u \in SUBSET (t \cap u) /\ IsFold(fold(u), move, start, u)
            BY <2>3, <3>1, <4>4, <5>1
          <5>3. t \in SUBSET (1..n) /\ u \in SUBSET (1..n)
            BY <2>2, <5>1
          <5>4. IsFold(fold(t), move, start, t)
            BY <4>1
          <5>5. PICK ft, fu : ft = fold(t) /\ fu = fold(u) /\ IsFold(ft, move, start, t)
                              /\ IsFold(fu, move, start, u)
            BY <5>2, <5>4
          <5>6. ft[u] = fu[u]
            BY <5>2, <5>3, <5>5, FoldsAgree
          <5>7. fold(t)[u] = fold(u)[u]
            BY <5>5, <5>6
          <5> HIDE DEF g
          <5> QED BY <3>2, <4>1, <4>2, <4>4, <5>1, <5>7 DEF Folded
        <4> QED BY <4>3, <4>4
      <3> QED BY <3>3, <3>4
    <2>5. g = [t \in SUBSET r |-> g[t]]
      OBVIOUS
    <2> HIDE DEF g
    <2>6. IsFold(g, move, start, r)
      BY <2>4, <2>5 DEF IsFold
    <2> QED BY <2>6
  <1> QED BY <1>1

\* A function on the sets of places that makes such a move from a value in V.
Steps(g, move, start, V, n) ==
  /\ g[{}] = start
  /\ \A s \in SUBSET (1..n) : s # {} /\ g[s \ {Max(s)}] \in V
                                => g[s] = move[<<g[s \ {Max(s)}], Max(s)>>]

\* If the move leads from V to V, it stays there.
LEMMA FoldValues ==
  ASSUME NEW n \in Nat, NEW V, NEW start \in V, NEW move \in [V \X (1..n) -> V],
         NEW g, Steps(g, move, start, V, n), NEW s \in SUBSET (1..n)
  PROVE  g[s] \in V
  <1> DEFINE T == {r \in SUBSET (1..n) : g[r] \notin V}
  <1>1. T = {}
    <2> SUFFICES ASSUME T # {} PROVE FALSE
      OBVIOUS
    <2>1. PICK r \in T : \A t \in T : t \subseteq r => t = r
      <3>1. PICK S : S = 1..n
        OBVIOUS
      <3>2. IsFiniteSet(S)
        BY <3>1, UpTo
      <3>3. T \in SUBSET (SUBSET S)
        BY <3>1
      <3> HIDE DEF T
      <3> QED BY <3>2, <3>3, SmallestSubset
    <2>2. r \in SUBSET (1..n) /\ r # {} /\ g[r] \notin V
      BY <2>1 DEF Steps
    <2>3. Max(r) \in r
      BY <2>2, MaxIs
    <2>4. g[r \ {Max(r)}] \in V
      BY <2>1, <2>3
    <2>5. g[r] = move[<<g[r \ {Max(r)}], Max(r)>>] /\ <<g[r \ {Max(r)}], Max(r)>> \in V \X (1..n)
      BY <2>2, <2>3, <2>4 DEF Steps
    <2> QED BY <2>2, <2>5
  <1> QED BY <1>1
\* The values of a fold for the first m places, one after the other.
Runs(h, move, start, V, n) ==
  /\ h \in [0..n -> V]
  /\ h[0] = start
  /\ \A m \in 1..n : h[m] = move[<<h[m - 1], m>>]

RunsTo(end, move, start, V, n) == \E h : Runs(h, move, start, V, n) /\ h[n] = end

LEMMA FoldRuns ==
  ASSUME NEW n \in Nat, NEW V, NEW start \in V, NEW move \in [V \X (1..n) -> V],
         NEW g, Steps(g, move, start, V, n)
  PROVE  RunsTo(g[1..n], move, start, V, n)
  <1> DEFINE h == [m \in 0..n |-> g[1..m]]
  <1>1. ASSUME NEW m \in 0..n PROVE 1..m \in SUBSET (1..n) /\ g[1..m] \in V
    <2>1. 1..m \in SUBSET (1..n)
      OBVIOUS
    <2> QED BY <2>1, FoldValues
  <1>2. h \in [0..n -> V]
    BY <1>1
  <1>3. h[0] = start
    <2>1. 1..0 = {}
      OBVIOUS
    <2> QED BY <2>1 DEF Steps
  <1>4. ASSUME NEW m \in 1..n PROVE h[m] = move[<<h[m - 1], m>>]
    <2>1. m \in Nat \ {0} /\ m - 1 \in 0..n /\ m \in 0..n
      OBVIOUS
    <2>2. Max(1..m) = m /\ 1..m # {} /\ (1..m) \ {m} = 1..(m - 1)
      BY <2>1, LastOfFirst
    <2>3. g[1..(m - 1)] \in V /\ 1..m \in SUBSET (1..n)
      BY <1>1, <2>1
    <2>4. g[1..m] = move[<<g[1..(m - 1)], m>>]
      BY <2>2, <2>3 DEF Steps
    <2>5. h[m] = g[1..m] /\ h[m - 1] = g[1..(m - 1)]
      BY <2>1
    <2> HIDE DEF h
    <2> QED BY <2>4, <2>5
  <1>5. h[n] = g[1..n]
    OBVIOUS
  <1> HIDE DEF h
  <1>6. Runs(h, move, start, V, n)
    BY <1>2, <1>3, <1>4 DEF Runs
  <1> QED BY <1>5, <1>6 DEF RunsTo

\* What a fold with this move returns: it exists, and FoldLeft has chosen it.
LEMMA FoldMeets ==
  ASSUME NEW n \in Nat, NEW V, NEW start \in V, NEW move \in [V \X (1..n) -> V]
  PROVE  \E g : /\ IsFold(g, move, start, 1..n)
                /\ \A s \in SUBSET (1..n) : g[s] \in V
  <1>1. PICK g : IsFold(g, move, start, 1..n)
    BY FoldExists
  <1>2. Steps(g, move, start, V, n)
    BY <1>1 DEF IsFold, Folded, Steps
  <1>3. \A s \in SUBSET (1..n) : g[s] \in V
    BY <1>2, FoldValues
  <1> QED BY <1>1, <1>3

-----------------------------------------------------------------------------
(* Chunks *)

\* The lines of a chunk are added up file by file.
Adds(h, chunk) ==
  /\ h \in [0..Len(chunk) -> Nat]
  /\ h[0] = 0
  /\ \A m \in 1..Len(chunk) : h[m] = h[m - 1] + chunk[m]

LEMMA LinesAdd ==
  ASSUME NEW chunk \in Seq(Nat)
  PROVE  \E h : Adds(h, chunk) /\ Lines(chunk) = h[Len(chunk)]
  <1> DEFINE n == Len(chunk)
             D == DOMAIN chunk
             Sum(g) == [s \in SUBSET D |-> IF s = {} THEN 0
                                           ELSE LET x == Max(s) IN g[s \ {x}] + chunk[x]]
             g0 == CHOOSE g : g = Sum(g)
             move == [p \in Nat \X (1..n) |-> p[1] + chunk[p[2]]]
  <1>1. Lines(chunk) = g0[D]
    BY DEF Lines, FoldLeft, MapThenFoldSet
  <1>2. n \in Nat /\ D = 1..n /\ 0 \in Nat /\ move \in [Nat \X (1..n) -> Nat]
    OBVIOUS
  <1>3. \A v \in Nat, i \in 1..n : move[<<v, i>>] = v + chunk[i]
    OBVIOUS
  <1>4. \A s \in SUBSET (1..n) : s # {} => Max(s) \in 1..n
    BY <1>2, MaxIs
  <1> HIDE DEF move, n, D
  <1>5. \E g : g = Sum(g)
    <2>1. PICK g : IsFold(g, move, 0, 1..n) /\ \A s \in SUBSET (1..n) : g[s] \in Nat
      BY <1>2, FoldMeets
    <2>2. \A s \in SUBSET D : g[s] = Sum(g)[s]
      BY <1>2, <1>3, <1>4, <2>1 DEF IsFold, Folded
    <2>3. g = [s \in SUBSET D |-> g[s]]
      BY <1>2, <2>1 DEF IsFold
    <2> QED BY <2>2, <2>3
  <1>6. g0 = Sum(g0)
    <2> HIDE DEF Sum
    <2> QED BY <1>5
  <1> HIDE DEF g0
  <1>7. ASSUME NEW s \in SUBSET (1..n), s # {}, g0[s \ {Max(s)}] \in Nat
        PROVE  g0[s] = move[<<g0[s \ {Max(s)}], Max(s)>>]
    <2>1. g0[s] = g0[s \ {Max(s)}] + chunk[Max(s)]
      BY <1>2, <1>6, <1>7
    <2> QED BY <1>3, <1>4, <1>7, <2>1
  <1>8. Steps(g0, move, 0, Nat, n)
    BY <1>6, <1>7 DEF Steps
  <1>9. PICK h : Runs(h, move, 0, Nat, n) /\ h[n] = g0[1..n]
    <2>1. RunsTo(g0[1..n], move, 0, Nat, n)
      BY <1>2, <1>8, FoldRuns
    <2> QED BY <2>1 DEF RunsTo
  <1>10. ASSUME NEW m \in 1..n PROVE h[m] = h[m - 1] + chunk[m]
    <2>1. m - 1 \in 0..n
      BY <1>2
    <2> QED BY <1>3, <1>9, <2>1 DEF Runs
  <1>11. Adds(h, chunk)
    BY <1>9, <1>10 DEF Adds, Runs, n
  <1> QED BY <1>1, <1>2, <1>9, <1>11 DEF n

\* Two ways of adding up the files two chunks share come to the same.
LEMMA SameSums ==
  ASSUME NEW a \in Seq(Nat), NEW b \in Seq(Nat), NEW g, Adds(g, a), NEW h, Adds(h, b),
         NEW n \in 0..Len(a), n <= Len(b), \A i \in 1..n : a[i] = b[i]
  PROVE  g[n] = h[n]
  <1> DEFINE T == {m \in 0..n : g[m] # h[m]}
  <1>1. T = {}
    <2> SUFFICES ASSUME T # {} PROVE FALSE
      OBVIOUS
    <2>1. PICK m \in T : \A k \in T : m <= k
      <3>1. T \in SUBSET Nat
        OBVIOUS
      <3> HIDE DEF T
      <3> QED BY <3>1, SmallestNumber
    <2>2. m \in 1..n /\ m - 1 \in 0..n
      <3>1. m \in 0..n /\ g[m] # h[m]
        BY <2>1
      <3>2. m # 0
        BY <3>1 DEF Adds
      <3> QED BY <3>1, <3>2
    <2>3. m - 1 \notin T
      <3> HIDE DEF T
      <3> QED BY <2>1, <2>2
    <2>4. g[m - 1] = h[m - 1]
      BY <2>2, <2>3
    <2>5. m \in 1..Len(a) /\ m \in 1..Len(b)
      BY <2>2
    <2>6. g[m] = g[m - 1] + a[m] /\ h[m] = h[m - 1] + b[m] /\ a[m] = b[m]
      BY <2>2, <2>5 DEF Adds
    <2>7. g[m] = h[m]
      BY <2>4, <2>6
    <2> QED BY <2>1, <2>7
  <1> QED BY <1>1

LEMMA LinesType == ASSUME NEW chunk \in Seq(Nat) PROVE Lines(chunk) \in Nat
  <1>1. PICK n \in Nat : n = Len(chunk)
    BY LenProperties
  <1>2. PICK g : Adds(g, chunk) /\ Lines(chunk) = g[n]
    BY <1>1, LinesAdd
  <1> QED BY <1>1, <1>2 DEF Adds

LEMMA LinesOfMore ==
  ASSUME NEW chunk \in Seq(Nat), NEW file \in Nat
  PROVE  Lines(chunk) \in Nat /\ Lines(Append(chunk, file)) = Lines(chunk) + file
  <1>1. PICK n : n = Len(chunk) /\ n \in Nat
    OBVIOUS
  <1>2. PICK more \in Seq(Nat) :
          /\ more = Append(chunk, file) /\ Len(more) = n + 1 /\ more[n + 1] = file
          /\ \A i \in 1..n : chunk[i] = more[i]
    <2>1. /\ Append(chunk, file) \in Seq(Nat) /\ Len(Append(chunk, file)) = n + 1
          /\ Append(chunk, file)[n + 1] = file
          /\ \A i \in 1..n : chunk[i] = Append(chunk, file)[i]
      BY <1>1
    <2> QED BY <2>1
  <1>3. PICK g : Adds(g, chunk) /\ Lines(chunk) = g[n]
    BY <1>1, LinesAdd
  <1>4. PICK h : Adds(h, more) /\ Lines(more) = h[n + 1]
    BY <1>2, LinesAdd
  <1>5. g[n] = h[n]
    <2>1. n \in 0..Len(chunk) /\ n <= Len(more)
      BY <1>1, <1>2
    <2>2. Adds(g, chunk) /\ Adds(h, more) /\ \A i \in 1..n : chunk[i] = more[i]
      BY <1>2, <1>3, <1>4
    <2> QED BY <2>1, <2>2, SameSums
  <1>6. h[n + 1] = h[n] + file
    <2>1. n + 1 \in 1..Len(more) /\ (n + 1) - 1 = n
      BY <1>1, <1>2
    <2> QED BY <1>2, <1>4, <2>1 DEF Adds
  <1>7. g[n] \in Nat
    BY <1>1, <1>3 DEF Adds
  <1> QED BY <1>2, <1>3, <1>4, <1>5, <1>6, <1>7

\* A chunk holds a file at least.
Chunkings == Seq(Seq(Nat) \ {<<>>})

LEMMA FrontIs ==
  ASSUME NEW C, NEW q \in Seq(C), q # <<>>
  PROVE  /\ SubSeq(q, 1, Len(q) - 1) \in Seq(C) /\ Len(SubSeq(q, 1, Len(q) - 1)) = Len(q) - 1
         /\ \A i \in 1..(Len(q) - 1) : SubSeq(q, 1, Len(q) - 1)[i] = q[i]
  <1>1. PICK m \in Nat : m = Len(q) - 1 /\ Len(q) = m + 1
    <2>1. Len(q) \in Nat /\ Len(q) # 0
      OBVIOUS
    <2> QED BY <2>1
  <1>2. PICK front : front = SubSeq(q, 1, m)
    OBVIOUS
  <1>3. front = [i \in 1..m |-> q[i]]
    BY <1>1, <1>2
  <1>4. \A i \in 1..m : q[i] \in C
    BY <1>1
  <1>5. front \in Seq(C) /\ Len(front) = m /\ \A i \in 1..m : front[i] = q[i]
    BY <1>1, <1>3, <1>4
  <1> QED BY <1>1, <1>2, <1>5

\* A list with one element more.
LEMMA OneMore ==
  ASSUME NEW C, NEW q \in Seq(C), NEW x \in C, NEW n \in Nat, n = Len(q),
         NEW more, more = Append(q, x)
  PROVE  /\ more \in Seq(C) /\ Len(more) = n + 1 /\ more[n + 1] = x
         /\ \A i \in 1..n : more[i] = q[i]
  <1>1. /\ Append(q, x) \in Seq(C) /\ Len(Append(q, x)) = Len(q) + 1
        /\ Append(q, x)[Len(q) + 1] = x
        /\ \A i \in 1..Len(q) : Append(q, x)[i] = q[i]
    BY AppendProperties
  <1> QED BY <1>1

\* A file goes into a chunk of its own ...
IsNewChunk(after, chunks, file) ==
  /\ after \in Chunkings /\ Len(after) = Len(chunks) + 1 /\ after[Len(chunks) + 1] = <<file>>
  /\ \A i \in 1..Len(chunks) : after[i] = chunks[i]

LEMMA PutNew ==
  ASSUME NEW chunks \in Chunkings, NEW file \in Nat, NEW k \in Nat, k = Len(chunks),
         chunks = <<>> \/ Full(chunks[k], file),
         NEW after, after = Put(chunks, file)
  PROVE  IsNewChunk(after, chunks, file)
  <1>1. PICK C : C = Seq(Nat) \ {<<>>}
    OBVIOUS
  <1>2. PICK unit : unit = <<file>>
    OBVIOUS
  <1>3. unit \in C
    BY <1>1, <1>2
  <1>4. chunks \in Seq(C)
    BY <1>1 DEF Chunkings
  <1>5. after = Append(chunks, unit)
    BY <1>2 DEF Put, Last
  <1>6. /\ after \in Seq(C) /\ Len(after) = k + 1 /\ after[k + 1] = unit
        /\ \A i \in 1..k : after[i] = chunks[i]
    BY <1>3, <1>4, <1>5, OneMore
  <1> QED BY <1>1, <1>2, <1>6 DEF Chunkings, IsNewChunk

\* ... or into the last chunk.
IsLongerChunk(after, chunks, file) ==
  LET k == Len(chunks)
  IN /\ k > 0 /\ after \in Chunkings /\ Len(after) = k
     /\ after[k] = Append(chunks[k], file)
     /\ \A i \in 1..(k - 1) : after[i] = chunks[i]

LEMMA PutMore ==
  ASSUME NEW chunks \in Chunkings, NEW file \in Nat, NEW k \in Nat, k = Len(chunks),
         chunks # <<>>, ~Full(chunks[k], file),
         NEW after, after = Put(chunks, file)
  PROVE  IsLongerChunk(after, chunks, file)
  <1>1. PICK C : C = Seq(Nat) \ {<<>>}
    OBVIOUS
  <1>2. chunks \in Seq(C)
    BY <1>1 DEF Chunkings
  <1>3. k > 0 /\ chunks[k] \in C
    <2>1. k # 0
      BY <1>2, EmptySeq
    <2>2. k \in 1..Len(chunks)
      BY <2>1
    <2> QED BY <1>2, <2>1, <2>2, ElementOfSeq
  <1>4. PICK j \in Nat : j = k - 1 /\ k = j + 1
    BY <1>3
  <1>5. PICK front, last : front = SubSeq(chunks, 1, j) /\ last = Append(chunks[k], file)
    OBVIOUS
  <1>6. after = Append(front, last)
    BY <1>4, <1>5 DEF Put, Front, Last
  <1>7. last \in C
    <2>1. Append(chunks[k], file) \in Seq(Nat) /\ Append(chunks[k], file) # <<>>
      BY <1>1, <1>3, AppendProperties
    <2> QED BY <1>1, <1>5, <2>1
  <1>8. front \in Seq(C) /\ Len(front) = j /\ \A i \in 1..j : front[i] = chunks[i]
    BY <1>2, <1>4, <1>5, FrontIs
  <1>9. /\ after \in Seq(C) /\ Len(after) = j + 1 /\ after[j + 1] = last
        /\ \A i \in 1..j : after[i] = front[i]
    BY <1>6, <1>7, <1>8, OneMore
  <1>10. after \in Chunkings /\ Len(after) = k /\ after[k] = Append(chunks[k], file)
    BY <1>1, <1>4, <1>5, <1>9 DEF Chunkings
  <1>11. \A i \in 1..(k - 1) : after[i] = chunks[i]
    BY <1>4, <1>8, <1>9
  <1> QED BY <1>3, <1>10, <1>11 DEF IsLongerChunk

\* The chunks of the first files, one file after the other.
Packs(h, files) ==
  /\ h \in [0..Len(files) -> Chunkings]
  /\ h[0] = <<>>
  /\ \A m \in 1..Len(files) : h[m] = Put(h[m - 1], files[m])

PackedTo(chunks, files) == \E h : Packs(h, files) /\ h[Len(files)] = chunks

LEMMA ChunksPack ==
  ASSUME NEW files \in Seq(Nat)
  PROVE  PackedTo(Chunks(files), files)
  <1> DEFINE n == Len(files)
             D == DOMAIN files
             Packed(g) == [s \in SUBSET D |-> IF s = {} THEN <<>>
                                              ELSE LET x == Max(s) IN Put(g[s \ {x}], files[x])]
             g0 == CHOOSE g : g = Packed(g)
             move == [p \in Chunkings \X (1..n) |-> Put(p[1], files[p[2]])]
  <1>1. Chunks(files) = g0[D]
    BY DEF Chunks, FoldLeft, MapThenFoldSet
  <1>2. n \in Nat /\ D = 1..n /\ \A i \in 1..n : files[i] \in Nat
    OBVIOUS
  <1>3. <<>> \in Chunkings
    BY DEF Chunkings
  <1>4. /\ move \in [Chunkings \X (1..n) -> Chunkings]
        /\ \A chunks \in Chunkings, i \in 1..n : move[<<chunks, i>>] = Put(chunks, files[i])
    <2>1. ASSUME NEW chunks \in Chunkings, NEW i \in 1..n PROVE Put(chunks, files[i]) \in Chunkings
      <3>1. PICK k, file, after :
              /\ k = Len(chunks) /\ file = files[i] /\ after = Put(chunks, file)
              /\ k \in Nat /\ file \in Nat
        <4>1. Len(chunks) \in Nat
          BY LenProperties DEF Chunkings
        <4>2. files[i] \in Nat
          BY <1>2
        <4> QED BY <4>1, <4>2
      <3>2. CASE chunks = <<>> \/ Full(chunks[k], file)
        BY <3>1, <3>2, PutNew DEF IsNewChunk
      <3>3. CASE chunks # <<>> /\ ~Full(chunks[k], file)
        BY <3>1, <3>3, PutMore DEF IsLongerChunk
      <3> QED BY <3>2, <3>3
    <2> QED BY <2>1
  <1>5. \A s \in SUBSET (1..n) : s # {} => Max(s) \in 1..n
    BY <1>2, MaxIs
  <1> HIDE DEF move, n, D
  <1>6. \E g : g = Packed(g)
    <2>1. PICK g : IsFold(g, move, <<>>, 1..n) /\ \A s \in SUBSET (1..n) : g[s] \in Chunkings
      BY <1>2, <1>3, <1>4, FoldMeets
    <2>2. \A s \in SUBSET D : g[s] = Packed(g)[s]
      BY <1>2, <1>4, <1>5, <2>1 DEF IsFold, Folded
    <2>3. g = [s \in SUBSET D |-> g[s]]
      BY <1>2, <2>1 DEF IsFold
    <2> QED BY <2>2, <2>3
  <1>7. g0 = Packed(g0)
    <2> HIDE DEF Packed
    <2> QED BY <1>6
  <1> HIDE DEF g0
  <1>8. ASSUME NEW s \in SUBSET (1..n), s # {}, g0[s \ {Max(s)}] \in Chunkings
        PROVE  g0[s] = move[<<g0[s \ {Max(s)}], Max(s)>>]
    <2>1. g0[s] = Put(g0[s \ {Max(s)}], files[Max(s)])
      BY <1>2, <1>7, <1>8
    <2> QED BY <1>4, <1>5, <1>8, <2>1
  <1>9. Steps(g0, move, <<>>, Chunkings, n)
    BY <1>7, <1>8 DEF Steps
  <1>10. PICK h : Runs(h, move, <<>>, Chunkings, n) /\ h[n] = g0[1..n]
    <2>1. RunsTo(g0[1..n], move, <<>>, Chunkings, n)
      BY <1>2, <1>3, <1>4, <1>9, FoldRuns
    <2> QED BY <2>1 DEF RunsTo
  <1>11. ASSUME NEW m \in 1..n PROVE h[m] = Put(h[m - 1], files[m])
    <2>1. m - 1 \in 0..n
      BY <1>2
    <2> QED BY <1>4, <1>10, <2>1 DEF Runs
  <1>12. Packs(h, files)
    BY <1>10, <1>11 DEF Packs, Runs, n
  <1> QED BY <1>1, <1>2, <1>10, <1>12 DEF PackedTo, n

\* The chunks are the first m files, cut into pieces.
IsCutAt(cut, chunks, files, m) ==
  /\ cut \in [0..Len(chunks) -> 0..m]
  /\ cut[0] = 0 /\ cut[Len(chunks)] = m
  /\ \A i \in 1..Len(chunks) :
       cut[i - 1] < cut[i] /\ chunks[i] = SubSeq(files, cut[i - 1] + 1, cut[i])

IsCut(chunks, files, m) == \E cut : IsCutAt(cut, chunks, files, m)

\* A chunk is within the limits, unless it is a single file that is too long, and it was closed
\* because the next file would have left them.
WithinLimits(chunks) ==
  /\ \A i \in 1..Len(chunks) :
       Len(chunks[i]) <= MaxFiles /\ (Len(chunks[i]) = 1 \/ Lines(chunks[i]) <= MaxLines)
  /\ \A i \in 1..(Len(chunks) - 1) : Full(chunks[i], chunks[i + 1][1])

\* A part of a list.
IsPart(part, q, b, n) ==
  part \in Seq(Nat) /\ Len(part) = n /\ \A i \in 1..n : part[i] = q[b + i - 1]

LEMMA PartIs ==
  ASSUME NEW q \in Seq(Nat), NEW b \in Nat, b > 0, NEW n \in Nat, NEW m \in Int,
         m = b + n - 1, m <= Len(q), NEW part, part = SubSeq(q, b, m)
  PROVE  IsPart(part, q, b, n)
  <1>1. ASSUME NEW i \in b..m PROVE q[i] \in Nat
    <2>1. i \in 1..Len(q)
      BY LenProperties
    <2> QED BY <2>1, ElementOfSeq
  <1>2. b \in Int /\ m - b + 1 = n /\ (b <= m <=> n > 0)
    OBVIOUS
  <1>3. /\ part \in Seq(Nat) /\ Len(part) = IF b <= m THEN m - b + 1 ELSE 0
        /\ \A i \in 1..(m - b + 1) : part[i] = q[b + i - 1]
    BY <1>1, <1>2, SubSeqProperties
  <1>4. (IF b <= m THEN m - b + 1 ELSE 0) = n
    BY <1>2
  <1> QED BY <1>2, <1>3, <1>4 DEF IsPart

\* A part of a list that is one file longer.
LEMMA MoreOfSeq ==
  ASSUME NEW q \in Seq(Nat), NEW m \in 1..Len(q), NEW b \in 1..m
  PROVE  SubSeq(q, b, m) = Append(SubSeq(q, b, m - 1), q[m])
  <1>1. m \in Nat /\ b \in Nat /\ q[m] \in Nat
    OBVIOUS
  <1>2. PICK n \in Nat : n = m - b /\ m = n + b
    BY <1>1
  <1>3. PICK less, more : less = SubSeq(q, b, m - 1) /\ more = SubSeq(q, b, m)
    OBVIOUS
  <1>4. less \in Seq(Nat) /\ Len(less) = n /\ \A i \in 1..n : less[i] = q[b + i - 1]
    <2>1. PICK j \in Int : j = m - 1 /\ j = b + n - 1 /\ j <= Len(q) /\ b > 0
      BY <1>1, <1>2, LenProperties
    <2>2. less = SubSeq(q, b, j)
      BY <1>3, <2>1
    <2>3. IsPart(less, q, b, n)
      BY <1>1, <2>1, <2>2, PartIs
    <2> QED BY <2>3 DEF IsPart
  <1>5. /\ more \in Seq(Nat) /\ Len(more) = n + 1
        /\ \A i \in 1..(n + 1) : more[i] = q[b + i - 1]
    <2>1. PICK l \in Nat : l = n + 1 /\ m = b + l - 1 /\ m \in Int /\ m <= Len(q) /\ b > 0
      BY <1>1, <1>2, LenProperties
    <2>2. IsPart(more, q, b, l)
      BY <1>1, <1>3, <2>1, PartIs
    <2> QED BY <2>1, <2>2 DEF IsPart
  <1>6. PICK longer : longer = Append(less, q[m])
    OBVIOUS
  <1>7. /\ longer \in Seq(Nat) /\ Len(longer) = n + 1 /\ longer[n + 1] = q[m]
        /\ \A i \in 1..n : longer[i] = less[i]
    BY <1>1, <1>4, <1>6, OneMore
  <1>8. ASSUME NEW i \in 1..(n + 1) PROVE longer[i] = more[i]
    <2>1. CASE i = n + 1
      <3>1. b + i - 1 = m
        BY <1>1, <1>2, <2>1
      <3> QED BY <1>5, <1>7, <2>1, <3>1
    <2>2. CASE i # n + 1
      <3>1. i \in 1..n
        BY <1>2, <2>2
      <3> QED BY <1>4, <1>5, <1>7, <3>1
    <2> QED BY <2>1, <2>2
  <1>9. longer = more
    <2>1. Len(longer) = Len(more) /\ \A i \in 1..Len(longer) : longer[i] = more[i]
      BY <1>5, <1>7, <1>8
    <2> QED BY <1>5, <1>7, <2>1, SeqEqual
  <1> QED BY <1>3, <1>6, <1>9

LEMMA OneOfSeq ==
  ASSUME NEW q \in Seq(Nat), NEW m \in 1..Len(q)
  PROVE  SubSeq(q, m, m) = <<q[m]>>
  <1>1. m \in Nat /\ q[m] \in Nat
    OBVIOUS
  <1>2. PICK one : one = SubSeq(q, m, m)
    OBVIOUS
  <1>3. one \in Seq(Nat) /\ Len(one) = 1 /\ one[1] = q[m]
    <2>1. PICK z \in Nat : z = m - m + 1 /\ z = 1
      BY <1>1
    <2>2. one \in Seq(Nat) /\ Len(one) = z /\ \A i \in 1..z : one[i] = q[m + i - 1]
      BY <1>1, <1>2, <2>1
    <2>3. z \in 1..z /\ m + z - 1 = m
      BY <1>1, <2>1
    <2>4. one[z] = q[m]
      BY <2>2, <2>3
    <2> QED BY <2>1, <2>2, <2>4
  <1>4. PICK x \in Nat : x = q[m]
    BY <1>1
  <1>5. PICK unit \in Seq(Nat) : unit = <<x>> /\ Len(unit) = 1 /\ unit[1] = x
    <2>1. <<x>> \in Seq(Nat) /\ Len(<<x>>) = 1 /\ <<x>>[1] = x
      OBVIOUS
    <2> QED BY <2>1
  <1>6. Len(one) = Len(unit) /\ \A i \in 1..Len(one) : one[i] = unit[i]
    BY <1>3, <1>4, <1>5
  <1>7. one = unit
    BY <1>3, <1>6
  <1> QED BY <1>2, <1>4, <1>5, <1>7

\* The next file in a chunk of its own.
LEMMA CutAfter ==
  ASSUME NEW files \in Seq(Nat), NEW m \in 1..Len(files), NEW k \in Nat,
         NEW chunks, Len(chunks) = k, IsCut(chunks, files, m - 1),
         NEW after, Len(after) = k + 1, \A i \in 1..k : after[i] = chunks[i],
         after[k + 1] = <<files[m]>>
  PROVE  IsCut(after, files, m)
  <1>1. PICK cut : IsCutAt(cut, chunks, files, m - 1)
    BY DEF IsCut
  <1>2. m \in Nat \ {0} /\ files[m] \in Nat /\ \A i \in 0..k : cut[i] \in 0..(m - 1)
    BY <1>1 DEF IsCutAt
  <1> DEFINE next == [i \in 0..(k + 1) |-> IF i = k + 1 THEN m ELSE cut[i]]
  <1>3. next \in [0..(k + 1) -> 0..m]
    BY <1>2
  <1>4. next[k + 1] = m /\ \A i \in 0..k : next[i] = cut[i]
    OBVIOUS
  <1> HIDE DEF next
  <1>5. next[0] = 0 /\ next[k] = m - 1
    BY <1>1, <1>4 DEF IsCutAt
  <1>6. ASSUME NEW i \in 1..(k + 1)
        PROVE  next[i - 1] < next[i] /\ after[i] = SubSeq(files, next[i - 1] + 1, next[i])
    <2>1. CASE i = k + 1
      <3>1. SubSeq(files, m, m) = <<files[m]>>
        BY OneOfSeq
      <3>2. next[i - 1] = m - 1 /\ next[i] = m /\ (m - 1) + 1 = m /\ m - 1 < m
        BY <1>2, <1>4, <1>5, <2>1
      <3> QED BY <2>1, <3>1, <3>2
    <2>2. CASE i # k + 1
      <3>1. i \in 1..k /\ i \in 0..k /\ i - 1 \in 0..k
        BY <2>2
      <3> QED BY <1>1, <1>4, <3>1 DEF IsCutAt
    <2> QED BY <2>1, <2>2
  <1>7. IsCutAt(next, after, files, m)
    BY <1>3, <1>4, <1>5, <1>6 DEF IsCutAt
  <1> QED BY <1>7 DEF IsCut

\* The next file in the last chunk.
LEMMA CutLonger ==
  ASSUME NEW files \in Seq(Nat), NEW m \in 1..Len(files), NEW k \in Nat, k > 0,
         NEW chunks, Len(chunks) = k, IsCut(chunks, files, m - 1),
         NEW after, Len(after) = k, \A i \in 1..(k - 1) : after[i] = chunks[i],
         after[k] = Append(chunks[k], files[m])
  PROVE  IsCut(after, files, m)
  <1>1. PICK cut : IsCutAt(cut, chunks, files, m - 1)
    BY DEF IsCut
  <1>2. m \in Nat \ {0} /\ \A i \in 0..k : cut[i] \in 0..(m - 1)
    <2>1. cut \in [0..k -> 0..(m - 1)]
      BY <1>1 DEF IsCutAt
    <2> QED BY <2>1
  <1> DEFINE next == [i \in 0..k |-> IF i = k THEN m ELSE cut[i]]
  <1>3. next \in [0..k -> 0..m]
    BY <1>2
  <1>4. next[k] = m /\ \A i \in 0..(k - 1) : next[i] = cut[i]
    OBVIOUS
  <1> HIDE DEF next
  <1>5. next[0] = 0 /\ 0 \in 0..(k - 1) /\ k - 1 \in 0..(k - 1) /\ k - 1 \in 0..k
    <2>1. 0 \in 0..(k - 1) /\ k - 1 \in 0..(k - 1) /\ k - 1 \in 0..k
      OBVIOUS
    <2> QED BY <1>1, <1>4, <2>1 DEF IsCutAt
  <1>6. ASSUME NEW i \in 1..k
        PROVE  next[i - 1] < next[i] /\ after[i] = SubSeq(files, next[i - 1] + 1, next[i])
    <2>1. CASE i = k
      <3>1. PICK a \in 0..(m - 1) : a = cut[k - 1] /\ a = next[k - 1]
        BY <1>2, <1>4, <1>5
      <3>2. a < m - 1 /\ chunks[k] = SubSeq(files, a + 1, m - 1)
        <4>1. cut[k] = m - 1 /\ k \in 1..k
          BY <1>1 DEF IsCutAt
        <4> QED BY <1>1, <3>1, <4>1 DEF IsCutAt
      <3>3. SubSeq(files, a + 1, m) = Append(SubSeq(files, a + 1, m - 1), files[m])
        <4>1. m \in Nat /\ a \in 0..(m - 1)
          BY <1>2, <3>1
        <4>2. a + 1 \in 1..m /\ (a + 1) - 1 = a
          BY <4>1
        <4>3. SubSeq(files, a + 1, m) = Append(SubSeq(files, a + 1, m - 1), files[m])
          BY <4>2, MoreOfSeq
        <4> QED BY <4>3
      <3>4. next[i - 1] = a /\ next[i] = m /\ a < m
        BY <1>2, <1>4, <2>1, <3>1, <3>2
      <3> QED BY <2>1, <3>2, <3>3, <3>4
    <2>2. CASE i # k
      <3>1. i \in 1..(k - 1) /\ i \in 0..(k - 1) /\ i - 1 \in 0..(k - 1) /\ i \in 1..Len(chunks)
        BY <2>2
      <3> QED BY <1>1, <1>4, <3>1 DEF IsCutAt
    <2> QED BY <2>1, <2>2
  <1>7. IsCutAt(next, after, files, m)
    BY <1>3, <1>4, <1>5, <1>6 DEF IsCutAt
  <1> QED BY <1>7 DEF IsCut

\* What one file does to the chunks of those before it.
LEMMA PutKeeps ==
  ASSUME NEW files \in Seq(Nat), NEW m \in 1..Len(files), NEW chunks \in Chunkings,
         IsCut(chunks, files, m - 1), WithinLimits(chunks)
  PROVE  IsCut(Put(chunks, files[m]), files, m) /\ WithinLimits(Put(chunks, files[m]))
  <1>1. PICK k, file, after : k = Len(chunks) /\ file = files[m] /\ after = Put(chunks, file)
    OBVIOUS
  <1>2. k \in Nat /\ file \in Nat /\ \A i \in 1..k : chunks[i] \in Seq(Nat) \ {<<>>}
    <2>1. file \in Nat
      BY <1>1
    <2>2. k \in Nat /\ \A i \in 1..k : chunks[i] \in Seq(Nat) \ {<<>>}
      <3>1. PICK C : C = Seq(Nat) \ {<<>>}
        OBVIOUS
      <3>2. chunks \in Seq(C)
        BY <3>1 DEF Chunkings
      <3>3. Len(chunks) \in Nat /\ \A i \in 1..Len(chunks) : chunks[i] \in C
        BY <3>2
      <3> QED BY <1>1, <3>1, <3>3
    <2> QED BY <2>1, <2>2
  <1>3. MaxFiles \in Nat \ {0} /\ MaxLines \in Nat
    BY ReviewAssumption
  <1> k \in Nat /\ file \in Nat /\ k = Len(chunks) /\ after = Put(chunks, file)
    BY <1>1, <1>2
  <1>4. CASE chunks = <<>> \/ Full(chunks[k], file)
    <2>1. Len(after) = k + 1 /\ (\A i \in 1..k : after[i] = chunks[i]) /\ after[k + 1] = <<file>>
      <3>1. IsNewChunk(after, chunks, file)
        BY <1>4, PutNew
      <3> QED BY <3>1 DEF IsNewChunk
    <2>2. IsCut(after, files, m)
      <3>1. Len(chunks) = k /\ Len(after) = k + 1 /\ after[k + 1] = <<files[m]>>
        BY <1>1, <2>1
      <3> QED BY <1>2, <2>1, <3>1, CutAfter
    <2>3. ASSUME NEW i \in 1..(k + 1)
          PROVE  Len(after[i]) <= MaxFiles /\ (Len(after[i]) = 1 \/ Lines(after[i]) <= MaxLines)
      <3>1. CASE i = k + 1
        <4>1. Len(after[i]) = 1
          BY <2>1, <3>1
        <4> QED BY <1>3, <4>1
      <3>2. CASE i # k + 1
        <4>1. i \in 1..k
          BY <1>2, <3>2
        <4> QED BY <1>1, <2>1, <4>1 DEF WithinLimits
      <3> QED BY <3>1, <3>2
    <2>4. ASSUME NEW i \in 1..k PROVE Full(after[i], after[i + 1][1])
      <3>1. CASE i = k
        <4>1. after[i + 1] = <<file>> /\ after[i] = chunks[k]
          BY <2>1, <3>1
        <4>2. after[i + 1][1] = file
          BY <4>1
        <4>3. k # 0
          BY <1>2
        <4>4. chunks # <<>>
          BY <1>1, <4>3, EmptySeq
        <4> QED BY <1>4, <4>1, <4>2, <4>4
      <3>2. CASE i # k
        <4>1. i \in 1..(k - 1) /\ i \in 1..k /\ i + 1 \in 1..k
          BY <1>2, <3>2
        <4>2. after[i] = chunks[i] /\ after[i + 1] = chunks[i + 1]
          BY <2>1, <4>1
        <4>3. Full(chunks[i], chunks[i + 1][1])
          BY <1>1, <4>1 DEF WithinLimits
        <4> QED BY <4>2, <4>3
      <3> QED BY <3>1, <3>2
    <2>5. WithinLimits(after)
      <3>1. Len(after) - 1 = k
        BY <1>2, <2>1
      <3> QED BY <2>1, <2>3, <2>4, <3>1 DEF WithinLimits
    <2> QED BY <1>1, <2>2, <2>5
  <1>5. CASE chunks # <<>> /\ ~Full(chunks[k], file)
    <2>1. /\ k > 0 /\ Len(after) = k /\ after[k] = Append(chunks[k], file)
          /\ \A i \in 1..(k - 1) : after[i] = chunks[i]
      <3>1. IsLongerChunk(after, chunks, file)
        BY <1>5, PutMore
      <3> QED BY <3>1 DEF IsLongerChunk
    <2>2. IsCut(after, files, m)
      <3>1. Len(chunks) = k /\ after[k] = Append(chunks[k], files[m]) /\ k > 0 /\ Len(after) = k
        BY <1>1, <2>1
      <3>2. \A i \in 1..(k - 1) : after[i] = chunks[i]
        BY <2>1
      <3> QED BY <3>1, <3>2, CutLonger
    <2>3. PICK last \in Seq(Nat) : last = chunks[k] /\ Len(last) > 0
      <3>1. k \in 1..k
        BY <1>2, <2>1
      <3>2. chunks[k] \in Seq(Nat) /\ chunks[k] # <<>>
        BY <1>2, <3>1
      <3> QED BY <3>2
    <2>4. Len(last) < MaxFiles /\ Lines(last) + file <= MaxLines
      <3>1. ~(Len(last) >= MaxFiles) /\ ~(Lines(last) + file > MaxLines)
        BY <1>5, <2>3 DEF Full
      <3>2. PICK l \in Nat, t \in Nat : l = Len(last) /\ t = Lines(last)
        BY <2>3, LenProperties, LinesType
      <3>3. l < MaxFiles /\ t + file <= MaxLines
        BY <1>3, <3>1, <3>2
      <3> QED BY <3>2, <3>3
    <2>5. PICK longer \in Seq(Nat) :
            /\ longer = Append(last, file) /\ Len(longer) = Len(last) + 1 /\ longer[1] = last[1]
      <3>1. 1 \in 1..Len(last) /\ Len(last) \in Nat
        BY <2>3
      <3>2. PICK longer : longer = Append(last, file)
        OBVIOUS
      <3>3. longer \in Seq(Nat) /\ Len(longer) = Len(last) + 1 /\ \A i \in 1..Len(last) : longer[i] = last[i]
        BY <1>2, <2>3, <3>1, <3>2, OneMore
      <3> QED BY <3>1, <3>2, <3>3
    <2>6. Len(longer) <= MaxFiles /\ Lines(longer) <= MaxLines
      <3>1. Lines(longer) = Lines(last) + file
        BY <1>2, <2>5, LinesOfMore
      <3>2. Len(last) \in Nat
        BY <2>3
      <3> QED BY <1>3, <2>4, <2>5, <3>1, <3>2
    <2>7. ASSUME NEW i \in 1..k
          PROVE  Len(after[i]) <= MaxFiles /\ (Len(after[i]) = 1 \/ Lines(after[i]) <= MaxLines)
      <3>1. CASE i = k
        BY <2>1, <2>3, <2>5, <2>6, <3>1
      <3>2. CASE i # k
        <4>1. i \in 1..(k - 1) /\ i \in 1..k
          BY <1>2, <3>2
        <4> QED BY <1>1, <2>1, <4>1 DEF WithinLimits
      <3> QED BY <3>1, <3>2
    <2>8. ASSUME NEW i \in 1..(k - 1) PROVE Full(after[i], after[i + 1][1])
      <3>1. Full(chunks[i], chunks[i + 1][1]) /\ after[i] = chunks[i]
        BY <1>1, <2>1 DEF WithinLimits
      <3>2. CASE i + 1 = k
        <4>1. after[i + 1][1] = chunks[i + 1][1]
          BY <2>1, <2>3, <2>5, <3>2
        <4> QED BY <3>1, <4>1
      <3>3. CASE i + 1 # k
        <4>1. i + 1 \in 1..(k - 1)
          BY <1>2, <3>3
        <4>2. after[i + 1] = chunks[i + 1]
          BY <2>1, <4>1
        <4> QED BY <3>1, <4>2
      <3> QED BY <3>2, <3>3
    <2>9. WithinLimits(after)
      BY <2>1, <2>7, <2>8 DEF WithinLimits
    <2> QED BY <1>1, <2>2, <2>9
  <1> QED BY <1>4, <1>5

\* The files of a review go to its detectors in chunks within the limits, in order, each once and
\* none left out, and no chunk is closed before it must be (chunk_files, for any list of files).
THEOREM ChunksAreTheFiles ==
  ASSUME NEW files \in Seq(Nat)
  PROVE  IsCut(Chunks(files), files, Len(files)) /\ WithinLimits(Chunks(files))
  <1>1. PICK h : Packs(h, files) /\ h[Len(files)] = Chunks(files)
    BY ChunksPack DEF PackedTo
  <1>2. PICK n \in Nat : n = Len(files)
    OBVIOUS
  <1>3. \A m \in 0..n : h[m] \in Chunkings
    BY <1>1, <1>2 DEF Packs
  <1> DEFINE T == {m \in 0..n : ~(IsCut(h[m], files, m) /\ WithinLimits(h[m]))}
  <1>4. T = {}
    <2> SUFFICES ASSUME T # {} PROVE FALSE
      OBVIOUS
    <2>1. PICK m \in T : \A k \in T : m <= k
      <3>1. T \in SUBSET Nat
        OBVIOUS
      <3> HIDE DEF T
      <3> QED BY <3>1, SmallestNumber
    <2>2. m \in 0..n /\ ~(IsCut(h[m], files, m) /\ WithinLimits(h[m]))
      BY <2>1
    <2>3. CASE m = 0
      <3>1. h[0] = <<>> /\ Len(<<>>) = 0
        BY <1>1 DEF Packs
      <3>2. IsCutAt([i \in 0..0 |-> 0], <<>>, files, 0)
        BY <3>1 DEF IsCutAt
      <3>3. WithinLimits(<<>>)
        BY <3>1 DEF WithinLimits
      <3>4. IsCut(<<>>, files, 0)
        BY <3>2 DEF IsCut
      <3> QED BY <2>2, <2>3, <3>1, <3>3, <3>4
    <2>4. CASE m # 0
      <3>1. m \in 1..n /\ m - 1 \in 0..n /\ m - 1 < m
        BY <2>2, <2>4
      <3>2. m - 1 \notin T
        <4> HIDE DEF T
        <4> QED BY <2>1, <3>1
      <3>3. PICK chunks \in Chunkings : chunks = h[m - 1]
        BY <1>3, <3>1
      <3>4. IsCut(chunks, files, m - 1) /\ WithinLimits(chunks)
        BY <3>1, <3>2, <3>3
      <3>5. m \in 1..Len(files)
        BY <1>2, <3>1
      <3>6. h[m] = Put(chunks, files[m])
        BY <1>1, <3>3, <3>5 DEF Packs
      <3> HIDE DEF T
      <3> QED BY <2>2, <3>4, <3>5, <3>6, PutKeeps
    <2> QED BY <2>3, <2>4
  <1>5. n \in 0..n
    BY <1>2
  <1> QED BY <1>1, <1>2, <1>4, <1>5

\* A list that is not empty makes a chunk.
LEMMA SomeChunk ==
  ASSUME NEW files \in Seq(Nat), files # <<>>
  PROVE  Len(Chunks(files)) \in Nat \ {0}
  <1>1. PICK h : Packs(h, files) /\ h[Len(files)] = Chunks(files)
    BY ChunksPack DEF PackedTo
  <1>2. Len(files) \in Nat /\ Len(files) # 0 /\ Len(files) \in 0..Len(files)
    OBVIOUS
  <1>3. Chunks(files) \in Chunkings
    BY <1>1, <1>2 DEF Packs
  <1>4. Len(Chunks(files)) \in Nat
    BY <1>3 DEF Chunkings
  <1>5. PICK cut : IsCutAt(cut, Chunks(files), files, Len(files))
    BY ChunksAreTheFiles DEF IsCut
  <1>6. Len(Chunks(files)) # 0
    BY <1>2, <1>5 DEF IsCutAt
  <1> QED BY <1>4, <1>6

-----------------------------------------------------------------------------
\* A set of findings and what is left of it to see have sizes, and what is hidden is not negative.
LEMMA VisibleFacts ==
  ASSUME NEW set \in SUBSET Anchors
  PROVE  /\ Visible(set) \in SUBSET Anchors
         /\ Cardinality(set) - Cardinality(Visible(set)) \in Nat
  <1>1. IsFiniteSet(set) BY ReviewAssumption, FS_Subset
  <1>2. Visible(set) \subseteq set BY DEF Visible
  <1>3. /\ IsFiniteSet(Visible(set))
        /\ Cardinality(set) \in Nat /\ Cardinality(Visible(set)) \in Nat
        /\ Cardinality(Visible(set)) <= Cardinality(set)
    BY <1>1, <1>2, FS_Subset, FS_CardinalityType
  <1> QED BY <1>2, <1>3

\* The keys of the two formats do not meet.
LEMMA FormatsDiffer == \A k \in Keys, a \in Anchors : OldKey(a) # k
  BY ReviewAssumption DEF Keys, OldKey

LEMMA FailureType == Failure \in [ok : BOOLEAN, comments : SUBSET Anchors, hidden : Nat]
  BY DEF Failure
-----------------------------------------------------------------------------
(* Types *)

LEMMA InitTypeOK == Init => TypeOK
  <1> SUFFICES ASSUME Init PROVE TypeOK OBVIOUS
  <1>1. rejected \subseteq Stores BY ReviewAssumption DEF Init, Stores
  <1>2. (CHOOSE k \in Judged : TRUE) \in Keys BY ReviewAssumption
  <1> QED BY <1>1, <1>2, FailureType DEF Init, TypeOK, Live

LEMMA FinalizeTypeOK ==
  ASSUME TypeOK, NEW f \in Focuses, NEW set \in SUBSET Anchors,
         Finalize(f, set), UNCHANGED <<sweepVars, storeVars>>
  PROVE  TypeOK'
  <1> DEFINE shown == Visible(set)
  <1>1. [ok |-> TRUE, comments |-> Visible(set), hidden |-> Cardinality(set) - Cardinality(Visible(set))]
          \in [ok : BOOLEAN, comments : SUBSET Anchors, hidden : Nat]
    BY VisibleFacts
  <1>2. out' \in [Focuses -> [ok : BOOLEAN, comments : SUBSET Anchors, hidden : Nat]]
    BY <1>1 DEF Finalize, TypeOK
  <1>3. record' \in [Focuses -> SUBSET Anchors] /\ unsaved' \subseteq Focuses
    BY DEF Finalize, TypeOK
  <1>4. ended' \in {"none", "done", "failed"} BY DEF Finalize, Announce, TypeOK
  <1>5. /\ pc' \in [Focuses -> Live \cup {"none", "finished", "joined", "gone"}]
        /\ todo' \in [Focuses -> Nat] /\ answered' \subseteq Focuses
        /\ barred' \in [Focuses -> SUBSET Anchors] /\ cand' \in [Focuses -> SUBSET Anchors]
        /\ blind' \subseteq Focuses
        /\ \A g \in Focuses : pc'[g] = "detecting" => todo'[g] > 0
    BY DEF Finalize, Forget, TypeOK, Live
  <1> QED BY <1>2, <1>3, <1>4, <1>5 DEF TypeOK, sweepVars, storeVars

LEMMA FailsTypeOK ==
  ASSUME TypeOK, NEW f \in Focuses, Fails(f), ended' \in {"none", "done", "failed"},
         UNCHANGED <<sweepVars, storeVars>>
  PROVE  TypeOK'
  <1>1. /\ pc' \in [Focuses -> Live \cup {"none", "finished", "joined", "gone"}]
        /\ todo' \in [Focuses -> Nat] /\ answered' \subseteq Focuses
        /\ barred' \in [Focuses -> SUBSET Anchors] /\ cand' \in [Focuses -> SUBSET Anchors]
        /\ blind' \subseteq Focuses
        /\ \A g \in Focuses : pc'[g] = "detecting" => todo'[g] > 0
    BY DEF Fails, Forget, TypeOK, Live
  <1> QED BY <1>1 DEF Fails, TypeOK, sweepVars, runVars, storeVars

LEMMA ValidateTypeOK ==
  ASSUME TypeOK, NEW f \in Focuses, NEW set \in SUBSET Anchors,
         Validate(f, set), UNCHANGED <<sweepVars, storeVars>>
  PROVE  TypeOK'
  <1>1. CASE Finalize(f, {}) BY <1>1, FinalizeTypeOK
  <1>2. CASE /\ set # {}
             /\ cand' = [cand EXCEPT ![f] = set]
             /\ todo' = [todo EXCEPT ![f] = 0]
             /\ GoesTo(f, "validating")
             /\ UNCHANGED <<ended, answered, barred, blind, out, runVars>>
    <2>1. /\ pc' \in [Focuses -> Live \cup {"none", "finished", "joined", "gone"}]
          /\ todo' \in [Focuses -> Nat] /\ cand' \in [Focuses -> SUBSET Anchors]
          /\ \A g \in Focuses : pc'[g] = "detecting" => todo'[g] > 0
      BY <1>2 DEF GoesTo, TypeOK, Live
    <2> QED BY <2>1, <1>2 DEF TypeOK, sweepVars, runVars, storeVars
  <1> QED BY <1>1, <1>2 DEF Validate

LEMMA TaskTypeOK == ASSUME TypeOK, NEW f \in Focuses, Task(f) PROVE TypeOK'
  <1>1. CASE DiffFails(f)
    BY <1>1, FailsTypeOK DEF DiffFails, Announce, TypeOK
  <1>2. CASE NothingToRead(f)
    BY <1>2, FinalizeTypeOK DEF NothingToRead
  <1>3. CASE DiffArrives(f)
    <2>1. PICK files \in Diffs \ {<<>>} : todo' = [todo EXCEPT ![f] = Len(Chunks(files))]
      BY <1>3 DEF DiffArrives
    <2>2. Len(Chunks(files)) \in Nat \ {0} BY ReviewAssumption, SomeChunk
    <2>3. PICK set \in SUBSET Anchors : barred' = [barred EXCEPT ![f] = set] \/ barred' = barred
      <3>1. {a \in Anchors : IsRejected(rejected, f, a)} \in SUBSET Anchors OBVIOUS
      <3> QED BY <1>3, <3>1, Zenon DEF DiffArrives
    <2>4. /\ pc' \in [Focuses -> Live \cup {"none", "finished", "joined", "gone"}]
          /\ todo' \in [Focuses -> Nat]
          /\ \A g \in Focuses : pc'[g] = "detecting" => todo'[g] > 0
      BY <1>3, <2>1, <2>2 DEF DiffArrives, GoesTo, TypeOK, Live
    <2>5. barred' \in [Focuses -> SUBSET Anchors]
      BY <2>3 DEF TypeOK
    <2>7. blind' \subseteq Focuses
      <3>1. blind' = blind \/ blind' = blind \cup {f} BY <1>3 DEF DiffArrives
      <3> QED BY <3>1 DEF TypeOK
    <2>6. UNCHANGED <<sweepVars, ended, answered, cand, out, runVars, storeVars>>
      BY <1>3 DEF DiffArrives
    <2> QED BY <2>4, <2>5, <2>6, <2>7 DEF TypeOK, sweepVars, runVars, storeVars
  <1>4. CASE DetectorAnswers(f) \/ DetectorFails(f)
    <2>1. cand' \in [Focuses -> SUBSET Anchors]
      BY <1>4 DEF DetectorAnswers, DetectorFails, Unrejected, TypeOK
    <2>2. /\ todo[f] > 1 /\ todo' = [todo EXCEPT ![f] = @ - 1]
          /\ answered' \subseteq Focuses
          /\ GoesTo(f, "detecting")
          /\ UNCHANGED <<sweepVars, ended, barred, blind, out, runVars, storeVars>>
      BY <1>4 DEF DetectorAnswers, DetectorFails, TypeOK
    <2>3. todo' \in [Focuses -> Nat] /\ todo'[f] > 0
      BY <2>2 DEF TypeOK
    <2>4. pc' \in [Focuses -> Live \cup {"none", "finished", "joined", "gone"}]
      BY <2>2 DEF GoesTo, TypeOK, Live
    <2>5. \A g \in Focuses : pc'[g] = "detecting" => todo'[g] > 0
      <3>1. \A g \in Focuses \ {f} : pc'[g] = pc[g] /\ todo'[g] = todo[g]
        BY <2>2 DEF GoesTo, TypeOK
      <3> QED BY <3>1, <2>3 DEF TypeOK
    <2> QED BY <2>1, <2>2, <2>3, <2>4, <2>5 DEF TypeOK, sweepVars, runVars, storeVars
  <1>5. CASE LastAnswers(f)
    BY <1>5, ValidateTypeOK DEF LastAnswers, Unrejected, TypeOK
  <1>6. CASE LastFails(f)
    <2>1. CASE f \in answered
      <3>1. cand[f] \in SUBSET Anchors BY DEF TypeOK
      <3> QED BY <1>6, <2>1, <3>1, ValidateTypeOK DEF LastFails
    <2>2. CASE f \notin answered
      BY <1>6, <2>2, FailsTypeOK DEF LastFails, Announce, TypeOK
    <2> QED BY <2>1, <2>2
  <1>7. CASE ValidatorAnswers(f)
    BY <1>7, FinalizeTypeOK DEF ValidatorAnswers, Unrejected
  <1>8. CASE ValidatorFails(f)
    <2>1. cand[f] \in SUBSET Anchors BY DEF TypeOK
    <2> QED BY <1>8, <2>1, FinalizeTypeOK DEF ValidatorFails
  <1>9. CASE Panic(f)
    BY <1>9, FailsTypeOK DEF Panic, TypeOK
  <1> QED BY <1>1, <1>2, <1>3, <1>4, <1>5, <1>6, <1>7, <1>8, <1>9 DEF Task

LEMMA SweepTypeOK == ASSUME TypeOK, Sweep \/ Elapse \/ Drop PROVE TypeOK'
  <1>1. CASE Launch
    BY <1>1 DEF Launch, TypeOK, localVars, runVars, Live
  <1>2. ASSUME NEW f \in Focuses, Join(f) PROVE TypeOK'
    <2>1. Cardinality(out[f].comments) \in Nat
      BY ReviewAssumption, FS_Subset, FS_CardinalityType DEF TypeOK
    <2>2. /\ results' \subseteq Focuses /\ errors' \subseteq Focuses
          /\ found' \in Nat /\ hidden' \in Nat
          /\ status' \in [Focuses -> {"unseen", "running", "done", "failed"}]
      <3>1. CASE JoinResult(f)
        BY <2>1, <3>1 DEF JoinResult, TypeOK
      <3>2. CASE JoinError(f)
        BY <3>2 DEF JoinError, TypeOK
      <3> QED BY <1>2, <3>1, <3>2 DEF Join
    <2>3. /\ pc' \in [Focuses -> Live \cup {"none", "finished", "joined", "gone"}]
          /\ pending' \subseteq Focuses
          /\ \A g \in Focuses : pc'[g] = "detecting" => todo[g] > 0
      BY <1>2 DEF Join, TypeOK
    <2> QED BY <1>2, <2>2, <2>3 DEF Join, TypeOK, localVars, runVars, storeVars
  <1>3. CASE TimeOut
    BY <1>3 DEF TimeOut, TypeOK, taskVars, localVars, runVars, storeVars
  <1>4. CASE AbortAll \/ Conclude \/ Elapse \/ Drop
    BY <1>4 DEF AbortAll, Conclude, Elapse, Drop, TypeOK, taskVars, localVars, runVars, storeVars
  <1> QED BY <1>1, <1>2, <1>3, <1>4 DEF Sweep

LEMMA ReapTypeOK == ASSUME TypeOK, NEW f \in Focuses, Reap(f) PROVE TypeOK'
  <1>1. /\ pc' \in [Focuses -> Live \cup {"none", "finished", "joined", "gone"}]
        /\ todo' \in [Focuses -> Nat] /\ answered' \subseteq Focuses
        /\ barred' \in [Focuses -> SUBSET Anchors] /\ cand' \in [Focuses -> SUBSET Anchors]
        /\ \A g \in Focuses : pc'[g] = "detecting" => todo'[g] > 0
    BY DEF Reap, Forget, TypeOK, Live
  <1> QED BY <1>1 DEF Reap, TypeOK, sweepVars, runVars, storeVars

LEMMA OutcomeTypeOK == ASSUME TypeOK, NEW w \in Writers, Outcome(w) PROVE TypeOK'
  <1> USE DEF OthersOfStore, sweepVars, taskVars, localVars, runVars
  <1>1. ASSUME NEW k \in Judged, NEW place \in {"reject", "accept"}, Begin(w, k, place)
        PROVE  TypeOK'
    <2>1. k \in Keys BY ReviewAssumption
    <2>2. /\ about' \in [Writers -> Keys]
          /\ step' \in [Writers -> {"idle", "reject", "accept", "clear"}]
          /\ seen' \in [Writers -> SUBSET Stores]
      BY <1>1, <2>1 DEF Begin, TypeOK, Stores
    <2> QED BY <1>1, <2>2 DEF Begin, TypeOK
  <1>2. CASE SaveRejection(w)
    BY <1>2 DEF SaveRejection, Store, Release, TypeOK, Stores
  <1>3. CASE SaveAcceptance(w)
    BY <1>3 DEF SaveAcceptance, TypeOK, Stores
  <1>4. CASE ClearRejection(w)
    BY <1>4 DEF ClearRejection, Store, Release, TypeOK, Stores
  <1>5. CASE WriteFails(w)
    <2>1. accepted' \subseteq Stores BY <1>5 DEF WriteFails, TypeOK, Stores
    <2> QED BY <1>5, <2>1 DEF WriteFails, Release, TypeOK
  <1> QED BY <1>1, <1>2, <1>3, <1>4, <1>5 DEF Outcome, Reject, Accept

\* The state of a review and of its stores keeps its types (multi.rs, mod.rs, outcome.rs); a task
\* that waits for a detector has a chunk left.
THEOREM TypeCorrect == Spec => []TypeOK
  <1>1. TypeOK /\ [Next]_vars => TypeOK'
    <2> SUFFICES ASSUME TypeOK, [Next]_vars PROVE TypeOK' OBVIOUS
    <2>1. CASE UNCHANGED vars
      BY <2>1 DEF vars, sweepVars, taskVars, localVars, runVars, storeVars, TypeOK
    <2>2. CASE Next
      BY <2>2, TaskTypeOK, SweepTypeOK, ReapTypeOK, OutcomeTypeOK DEF Next
    <2> QED BY <2>1, <2>2
  <1> QED BY <1>1, InitTypeOK, PTL DEF Spec
-----------------------------------------------------------------------------
(* Rejected findings *)

\* A rejection that is gone from a set suppresses nothing.
LEMMA RejectedMonotone ==
  ASSUME NEW some, NEW more, some \subseteq more, NEW f, NEW a, IsRejected(some, f, a)
  PROVE  IsRejected(more, f, a)
  BY DEF IsRejected

\* The invariant behind RejectedStaysAway.
Filtered ==
  /\ kept \subseteq rejected
  /\ \A f \in Focuses :
       /\ pc[f] \notin {"finished", "joined"} => out[f] = Failure
       /\ pc[f] \in {"none", "fetching"} => cand[f] = {}
       /\ phase = "idle" => pc[f] = "none"
       /\ pc[f] \in {"detecting", "validating"} =>
            /\ cand[f] \cap barred[f] = {}
            /\ f \notin blind => \A a \in Anchors : IsRejected(kept, f, a) => a \in barred[f]

Safe == TypeOK /\ Filtered /\ RejectedStaysAway

\* What a task holds of the other focuses.
Others(f) ==
  \A g \in Focuses \ {f} :
    /\ pc'[g] = pc[g] /\ out'[g] = out[g] /\ cand'[g] = cand[g] /\ barred'[g] = barred[g]
    /\ g \in blind' <=> g \in blind

\* A task that ends with findings none of which is barred.
LEMMA FinalizeSafe ==
  ASSUME Safe, NEW f \in Focuses, NEW set \in SUBSET Anchors,
         f \notin blind => \A a \in set : ~IsRejected(kept, f, a),
         phase # "idle",
         Finalize(f, set), UNCHANGED <<sweepVars, storeVars>>
  PROVE  (Filtered /\ RejectedStaysAway)'
  <1>1. /\ Others(f) /\ blind' = blind /\ pc'[f] = "finished"
        /\ out'[f].comments = Visible(set)
    BY DEF Safe, TypeOK, Finalize, Forget, Others
  <1>2. kept' = kept /\ rejected' = rejected /\ phase' = phase
    BY DEF sweepVars, storeVars
  <1>3. Visible(set) \subseteq set BY DEF Visible
  <1>4. Filtered' BY <1>1, <1>2 DEF Safe, Filtered, Others
  <1>5. RejectedStaysAway'
    BY <1>1, <1>2, <1>3 DEF Safe, RejectedStaysAway, Others, IsRejected
  <1> QED BY <1>4, <1>5

\* A task that ends with an error has no findings.
LEMMA FailsSafe ==
  ASSUME Safe, NEW f \in Focuses, pc[f] \in Live, phase # "idle",
         Fails(f), UNCHANGED <<sweepVars, storeVars>>
  PROVE  (Filtered /\ RejectedStaysAway)'
  <1>1. /\ \A g \in Focuses \ {f} : /\ pc'[g] = pc[g] /\ out'[g] = out[g]
                                    /\ cand'[g] = cand[g] /\ barred'[g] = barred[g]
                                    /\ g \in blind' <=> g \in blind
        /\ pc'[f] = "finished" /\ out'[f] = out[f]
    BY DEF Safe, TypeOK, Fails, Forget
  <1>2. out[f] = Failure BY DEF Safe, Filtered, Live
  <1>3. kept' = kept /\ rejected' = rejected /\ phase' = phase
    BY DEF sweepVars, storeVars
  <1>4. Filtered' BY <1>1, <1>3 DEF Safe, Filtered
  <1>5. ASSUME NEW g \in Focuses, g \notin blind', NEW a \in out'[g].comments
        PROVE  ~IsRejected(kept, g, a)
    <2>1. out[f].comments = {} BY <1>2 DEF Failure
    <2>2. g # f /\ out'[g] = out[g] /\ g \notin blind BY <1>1, <1>5, <2>1
    <2> QED BY <1>5, <2>2 DEF Safe, RejectedStaysAway
  <1>6. RejectedStaysAway'
    BY <1>3, <1>5 DEF RejectedStaysAway, IsRejected
  <1> QED BY <1>4, <1>6

\* A task that goes to its next await with candidates none of which is barred.
LEMMA GoesOnSafe ==
  ASSUME Safe, NEW f \in Focuses, pc[f] \in Live, phase # "idle", NEW place \in {"detecting", "validating"},
         GoesTo(f, place), UNCHANGED <<sweepVars, storeVars>>, out' = out, Others(f),
         cand'[f] \cap barred'[f] = {},
         f \notin blind' => \A a \in Anchors : IsRejected(kept, f, a) => a \in barred'[f]
  PROVE  (Filtered /\ RejectedStaysAway)'
  <1>1. pc'[f] \in {place, "leaving"} BY DEF GoesTo, Safe, TypeOK
  <1>2. out[f] = Failure BY DEF Safe, Filtered, Live
  <1>3. kept' = kept /\ rejected' = rejected /\ phase' = phase
    BY DEF sweepVars, storeVars
  <1>4. Filtered' BY <1>1, <1>2, <1>3 DEF Safe, Filtered, Others
  <1>5. ASSUME NEW g \in Focuses, g \notin blind', NEW a \in out'[g].comments
        PROVE  ~IsRejected(kept, g, a)
    <2>1. out[f].comments = {} BY <1>2 DEF Failure
    <2>2. g # f /\ out'[g] = out[g] /\ g \notin blind BY <1>5, <2>1 DEF Others
    <2> QED BY <1>5, <2>2 DEF Safe, RejectedStaysAway
  <1>6. RejectedStaysAway'
    BY <1>3, <1>5 DEF RejectedStaysAway, IsRejected
  <1> QED BY <1>4, <1>6

LEMMA ValidateSafe ==
  ASSUME Safe, NEW f \in Focuses, pc[f] = "detecting", phase # "idle",
         NEW set \in SUBSET Anchors, set \cap barred[f] = {},
         Validate(f, set), UNCHANGED <<sweepVars, storeVars>>
  PROVE  (Filtered /\ RejectedStaysAway)'
  <1>1. CASE Finalize(f, {})
    BY <1>1, FinalizeSafe
  <1>2. CASE /\ set # {}
             /\ cand' = [cand EXCEPT ![f] = set]
             /\ todo' = [todo EXCEPT ![f] = 0]
             /\ GoesTo(f, "validating")
             /\ UNCHANGED <<ended, answered, barred, blind, out, runVars>>
    <2>1. Others(f) BY <1>2 DEF Others, GoesTo, Safe, TypeOK
    <2>2. cand'[f] = set /\ barred' = barred /\ blind' = blind
      BY <1>2 DEF Safe, TypeOK
    <2>3. f \notin blind => \A a \in Anchors : IsRejected(kept, f, a) => a \in barred[f]
      BY DEF Safe, Filtered
    <2>4. pc[f] \in Live BY DEF Live
    <2> QED BY <1>2, <2>1, <2>2, <2>3, <2>4, GoesOnSafe
  <1> QED BY <1>1, <1>2 DEF Validate

LEMMA TaskSafe == ASSUME Safe, NEW f \in Focuses, Task(f) PROVE (Filtered /\ RejectedStaysAway)'
  <1> TypeOK BY DEF Safe
  <1>0. phase # "idle" /\ pc[f] \in Live
    BY DEF Safe, Filtered, Live, Task, DiffFails, NothingToRead, DiffArrives, DetectorAnswers,
           DetectorFails, LastAnswers, LastFails, ValidatorAnswers, ValidatorFails, Panic
  <1>1. CASE DiffFails(f) \/ Panic(f)
    BY <1>0, <1>1, FailsSafe DEF DiffFails, Panic
  <1>2. CASE NothingToRead(f)
    BY <1>0, <1>2, FinalizeSafe DEF NothingToRead
  <1>3. CASE DiffArrives(f)
    <2>1. cand[f] = {} /\ kept \subseteq rejected BY <1>3 DEF DiffArrives, Safe, Filtered
    <2>2. Others(f) BY <1>3 DEF DiffArrives, GoesTo, Others, TypeOK
    <2>3. ASSUME f \notin blind', NEW a \in Anchors, IsRejected(kept, f, a) PROVE a \in barred'[f]
      <3>1. barred' = [barred EXCEPT ![f] = {b \in Anchors : IsRejected(rejected, f, b)}]
        BY <1>3, <2>3 DEF DiffArrives
      <3>2. IsRejected(rejected, f, a) BY <2>1, <2>3, RejectedMonotone
      <3>3. barred'[f] = {b \in Anchors : IsRejected(rejected, f, b)} BY <3>1 DEF TypeOK
      <3> QED BY <3>2, <3>3
    <2> QED BY <1>0, <1>3, <2>1, <2>2, <2>3, GoesOnSafe DEF DiffArrives
  <1>4. CASE DetectorAnswers(f) \/ DetectorFails(f)
    <2>1. pc[f] = "detecting" /\ GoesTo(f, "detecting")
          /\ UNCHANGED <<sweepVars, ended, barred, blind, out, runVars, storeVars>>
      BY <1>4 DEF DetectorAnswers, DetectorFails
    <2>2. /\ cand[f] \cap barred[f] = {}
          /\ f \notin blind => \A a \in Anchors : IsRejected(kept, f, a) => a \in barred[f]
      BY <2>1 DEF Safe, Filtered
    <2>3. cand'[f] \cap barred[f] = {} /\ \A g \in Focuses \ {f} : cand'[g] = cand[g]
      BY <1>4, <2>2 DEF DetectorAnswers, DetectorFails, Unrejected, TypeOK
    <2>4. Others(f) BY <2>1, <2>3 DEF GoesTo, Others, TypeOK
    <2> QED BY <1>0, <2>1, <2>2, <2>3, <2>4, GoesOnSafe
  <1>5. CASE LastAnswers(f)
    <2>1. PICK set \in SUBSET Anchors : Validate(f, cand[f] \cup Unrejected(set, f))
      BY <1>5 DEF LastAnswers
    <2>2. pc[f] = "detecting" /\ cand[f] \cap barred[f] = {}
      BY <1>5 DEF LastAnswers, Safe, Filtered
    <2>3. /\ cand[f] \cup Unrejected(set, f) \in SUBSET Anchors
          /\ (cand[f] \cup Unrejected(set, f)) \cap barred[f] = {}
      BY <2>2 DEF Unrejected, TypeOK
    <2> QED BY <1>0, <1>5, <2>1, <2>2, <2>3, ValidateSafe DEF LastAnswers
  <1>6. CASE LastFails(f)
    <2>1. CASE f \in answered
      <3>1. /\ pc[f] = "detecting" /\ cand[f] \cap barred[f] = {}
            /\ cand[f] \in SUBSET Anchors
        BY <1>6 DEF LastFails, Safe, Filtered, TypeOK
      <3> QED BY <1>0, <1>6, <2>1, <3>1, ValidateSafe DEF LastFails
    <2>2. CASE f \notin answered
      BY <1>0, <1>6, <2>2, FailsSafe DEF LastFails
    <2> QED BY <2>1, <2>2
  <1>7. CASE ValidatorAnswers(f) \/ ValidatorFails(f)
    <2>1. /\ cand[f] \cap barred[f] = {} /\ cand[f] \in SUBSET Anchors
          /\ f \notin blind => \A a \in Anchors : IsRejected(kept, f, a) => a \in barred[f]
      BY <1>7 DEF ValidatorAnswers, ValidatorFails, Safe, Filtered, TypeOK
    <2>2. PICK set \in SUBSET Anchors : Finalize(f, set) /\ set \cap barred[f] = {}
      <3>1. CASE ValidatorAnswers(f)
        <4>1. PICK set \in SUBSET Anchors : Finalize(f, Unrejected(set, f))
          BY <3>1 DEF ValidatorAnswers
        <4>2. Unrejected(set, f) \in SUBSET Anchors /\ Unrejected(set, f) \cap barred[f] = {}
          BY DEF Unrejected
        <4> QED BY <4>1, <4>2
      <3>2. CASE ValidatorFails(f)
        BY <3>2, <2>1 DEF ValidatorFails
      <3> QED BY <1>7, <3>1, <3>2
    <2>3. f \notin blind => \A a \in set : ~IsRejected(kept, f, a)
      BY <2>1, <2>2
    <2>4. UNCHANGED <<sweepVars, storeVars>>
      BY <1>7 DEF ValidatorAnswers, ValidatorFails
    <2> QED BY <1>0, <2>2, <2>3, <2>4, FinalizeSafe
  <1> QED BY <1>1, <1>2, <1>3, <1>4, <1>5, <1>6, <1>7 DEF Task

LEMMA SweepSafe ==
  ASSUME Safe, Sweep \/ Elapse \/ Drop PROVE (Filtered /\ RejectedStaysAway)'
  <1> TypeOK BY DEF Safe
  <1>1. CASE Launch
    <2>1. \A f \in Focuses : out[f] = Failure /\ cand[f] = {} /\ pc'[f] = "fetching"
      BY <1>1 DEF Launch, Safe, Filtered
    <2>2. Filtered' BY <1>1, <2>1 DEF Launch, Filtered, localVars
    <2>3. RejectedStaysAway' BY <1>1, <2>1 DEF Launch, RejectedStaysAway, Failure
    <2> QED BY <2>2, <2>3
  <1>2. ASSUME NEW f \in Focuses, Join(f) PROVE (Filtered /\ RejectedStaysAway)'
    <2>1. /\ phase' = phase /\ UNCHANGED <<localVars, blind, out, storeVars>>
          /\ pc[f] = "finished" /\ pc'[f] = "joined"
          /\ \A g \in Focuses \ {f} : pc'[g] = pc[g]
      BY <1>2 DEF Join, TypeOK
    <2>2. Filtered' BY <2>1 DEF Safe, Filtered, localVars, storeVars
    <2>3. RejectedStaysAway' BY <2>1 DEF Safe, RejectedStaysAway, IsRejected, storeVars
    <2> QED BY <2>2, <2>3
  <1>3. CASE TimeOut \/ AbortAll \/ Conclude \/ Elapse \/ Drop
    <2>1. phase' # "idle" /\ UNCHANGED <<taskVars, storeVars>>
      BY <1>3 DEF TimeOut, AbortAll, Conclude, Elapse, Drop
    <2>2. Filtered' BY <2>1 DEF Safe, Filtered, taskVars, localVars, storeVars
    <2>3. RejectedStaysAway' BY <2>1 DEF Safe, RejectedStaysAway, IsRejected, taskVars, storeVars
    <2> QED BY <2>2, <2>3
  <1> QED BY <1>1, <1>2, <1>3 DEF Sweep

LEMMA ReapSafe == ASSUME Safe, NEW f \in Focuses, Reap(f) PROVE (Filtered /\ RejectedStaysAway)'
  <1> TypeOK BY DEF Safe
  <1>1. /\ \A g \in Focuses \ {f} : pc'[g] = pc[g] /\ cand'[g] = cand[g] /\ barred'[g] = barred[g]
        /\ pc'[f] = "gone" /\ out[f] = Failure /\ pc[f] # "none"
        /\ UNCHANGED <<sweepVars, out, blind, storeVars>>
    BY DEF Reap, Forget, Safe, Filtered, Live, TypeOK
  <1>2. Filtered' BY <1>1 DEF Safe, Filtered, sweepVars, storeVars
  <1>3. RejectedStaysAway' BY <1>1 DEF Safe, RejectedStaysAway, IsRejected, storeVars
  <1> QED BY <1>2, <1>3

\* A command that records an outcome leaves the tasks alone and never adds to what was kept.
LEMMA OutcomeSafe ==
  ASSUME Safe, NEW w \in Writers, Outcome(w) PROVE (Filtered /\ RejectedStaysAway)'
  <1>1. kept' \subseteq kept /\ kept' \subseteq rejected' /\ UNCHANGED OthersOfStore
    BY DEF Outcome, Reject, Accept, Begin, SaveRejection, SaveAcceptance, ClearRejection,
           WriteFails, Store, Safe, Filtered
  <1>2. UNCHANGED <<phase, pc, out, cand, barred, blind>>
    BY <1>1 DEF OthersOfStore, sweepVars, taskVars, localVars
  <1>3. \A f \in Focuses, a \in Anchors : IsRejected(kept', f, a) => IsRejected(kept, f, a)
    BY <1>1, RejectedMonotone
  <1>4. Filtered' BY <1>1, <1>2, <1>3 DEF Safe, Filtered
  <1>5. RejectedStaysAway'
    <2>1. \A f \in Focuses : out[f].comments \subseteq Anchors BY DEF Safe, TypeOK
    <2> QED BY <1>2, <1>3, <2>1 DEF Safe, RejectedStaysAway
  <1> QED BY <1>4, <1>5

\* A finding that was rejected before the review began and has not been accepted since is in no
\* result, whatever is asked, found and recorded meanwhile (filter_rejected_comments).
THEOREM RejectedHolds == Spec => []RejectedStaysAway
  <1>1. Init => Filtered /\ RejectedStaysAway
    BY DEF Init, Filtered, RejectedStaysAway, Failure
  <1>2. TypeOK /\ Filtered /\ RejectedStaysAway /\ [Next]_vars => (Filtered /\ RejectedStaysAway)'
    <2> SUFFICES ASSUME Safe, [Next]_vars PROVE (Filtered /\ RejectedStaysAway)'
      BY DEF Safe
    <2>1. CASE UNCHANGED vars
      <3>1. Filtered' BY <2>1 DEF vars, sweepVars, taskVars, localVars, storeVars, Safe, Filtered
      <3>2. RejectedStaysAway'
        BY <2>1 DEF vars, taskVars, storeVars, Safe, RejectedStaysAway, IsRejected
      <3> QED BY <3>1, <3>2
    <2>2. CASE Next
      BY <2>2, TaskSafe, SweepSafe, ReapSafe, OutcomeSafe DEF Next
    <2> QED BY <2>1, <2>2
  <1> QED BY <1>1, <1>2, TypeCorrect, PTL DEF Spec
-----------------------------------------------------------------------------
(* Outcomes *)

\* The invariant behind OutcomesAreKept: what the holder of the lock has read is still on file.
Locked ==
  \A w \in Writers :
    /\ step[w] # "idle" => lock = w
    /\ step[w] \in {"reject", "clear"} => seen[w] = rejected
    /\ step[w] = "accept" => seen[w] = accepted
    /\ step[w] = "clear" => about[w] \in accepted

\* A step of the command that holds the lock leaves the others idle.
LEMMA OthersIdle ==
  ASSUME Locked, NEW w \in Writers, step[w] # "idle", NEW v \in Writers \ {w}
  PROVE  step[v] = "idle"
  BY DEF Locked

LEMMA OutcomeKeeps ==
  ASSUME TypeOK, Locked, OutcomesAreKept, NEW w \in Writers, Outcome(w)
  PROVE  (Locked /\ OutcomesAreKept)'
  <1>1. ASSUME NEW k \in Judged, NEW place \in {"reject", "accept"}, Begin(w, k, place)
        PROVE  (Locked /\ OutcomesAreKept)'
    <2>1. \A v \in Writers : step[v] = "idle" BY <1>1, ReviewAssumption DEF Begin, Locked
    <2>2. Locked' BY <1>1, <2>1 DEF Begin, Locked, TypeOK
    <2>3. OutcomesAreKept' BY <1>1 DEF Begin, OutcomesAreKept, IsRejected
    <2> QED BY <2>2, <2>3
  <1>2. CASE SaveRejection(w)
    <2>1. /\ about[w] \in Keys /\ seen[w] = rejected
          /\ rejected' = rejected \cup {about[w]} /\ accepted' = accepted
          /\ told' = [told EXCEPT ![about[w]] = "rejected"]
          /\ \A v \in Writers : step'[v] = "idle"
      BY <1>2, OthersIdle DEF SaveRejection, Store, Release, Locked, TypeOK
    <2>2. Locked' BY <2>1 DEF Locked
    <2>3. ASSUME NEW k \in Keys
          PROVE  /\ told'[k] = "rejected" => k \in rejected'
                 /\ told'[k] = "accepted" =>
                      k \in accepted' /\ ~IsRejected(rejected', k[1], k[2])
      <3>1. CASE k = about[w] BY <2>1, <3>1 DEF TypeOK
      <3>2. CASE k # about[w]
        <4>1. told'[k] = told[k] BY <2>1, <3>2 DEF TypeOK
        <4>2. k = <<k[1], k[2]>> /\ k[2] \in Anchors BY DEF Keys
        <4>3. OldKey(k[2]) # about[w] BY <2>1, <4>2, FormatsDiffer
        <4>4. IsRejected(rejected', k[1], k[2]) => IsRejected(rejected, k[1], k[2])
          BY <2>1, <3>2, <4>2, <4>3 DEF IsRejected
        <4> QED BY <2>1, <4>1, <4>4 DEF OutcomesAreKept
      <3> QED BY <3>1, <3>2
    <2>4. OutcomesAreKept' BY <2>3 DEF OutcomesAreKept, IsRejected
    <2> QED BY <2>2, <2>4
  <1>3. CASE SaveAcceptance(w)
    <2>1. /\ seen[w] = accepted /\ accepted' = accepted \cup {about[w]}
          /\ rejected' = rejected /\ told' = told /\ about' = about
          /\ lock = w /\ lock' = lock /\ step'[w] = "clear" /\ seen'[w] = rejected
          /\ \A v \in Writers \ {w} : step'[v] = "idle"
      BY <1>3, OthersIdle DEF SaveAcceptance, Locked, TypeOK
    <2>2. Locked' BY <2>1 DEF Locked
    <2>3. OutcomesAreKept' BY <2>1 DEF OutcomesAreKept, IsRejected
    <2> QED BY <2>2, <2>3
  <1>4. CASE ClearRejection(w)
    <2> DEFINE gone == Matching(about[w][1], about[w][2])
    <2>1. /\ about[w] \in Keys /\ about[w] \in accepted /\ seen[w] = rejected
          /\ accepted' = accepted
          /\ told' = [told EXCEPT ![about[w]] = "accepted"]
          /\ \A v \in Writers : step'[v] = "idle"
      BY <1>4, OthersIdle DEF ClearRejection, Release, Locked, TypeOK
    <2>2. rejected' = rejected \ gone
      BY <1>4, <2>1 DEF ClearRejection, Store
    <2>3. Locked' BY <2>1 DEF Locked
    <2>4. ASSUME NEW k \in Keys
          PROVE  /\ told'[k] = "rejected" => k \in rejected'
                 /\ told'[k] = "accepted" =>
                      k \in accepted' /\ ~IsRejected(rejected', k[1], k[2])
      <3>1. CASE k = about[w]
        <4>1. ~IsRejected(rejected', k[1], k[2]) BY <2>2, <3>1 DEF IsRejected, Matching
        <4> QED BY <2>1, <3>1, <4>1 DEF TypeOK
      <3>2. CASE k # about[w]
        <4>1. told'[k] = told[k] BY <2>1, <3>2 DEF TypeOK
        <4>2. /\ about[w] = <<about[w][1], about[w][2]>> /\ about[w][2] \in Anchors
          BY <2>1 DEF Keys
        <4>3. OldKey(about[w][2]) # k BY <4>2, FormatsDiffer
        <4>4. k \notin gone BY <3>2, <4>2, <4>3 DEF Matching
        <4>5. IsRejected(rejected', k[1], k[2]) => IsRejected(rejected, k[1], k[2])
          BY <2>2 DEF IsRejected
        <4> QED BY <2>1, <2>2, <4>1, <4>4, <4>5 DEF OutcomesAreKept
      <3> QED BY <3>1, <3>2
    <2>5. OutcomesAreKept' BY <2>4 DEF OutcomesAreKept, IsRejected
    <2> QED BY <2>3, <2>5
  <1>5. CASE WriteFails(w)
    <2>1. \A v \in Writers : step'[v] = "idle"
      BY <1>5, OthersIdle DEF WriteFails, Release, TypeOK
    <2>2. Locked' BY <2>1 DEF Locked
    <2>3. accepted \subseteq accepted' BY <1>5 DEF WriteFails, Locked
    <2>4. rejected' = rejected /\ told' = told BY <1>5 DEF WriteFails
    <2>5. OutcomesAreKept' BY <2>3, <2>4 DEF OutcomesAreKept, IsRejected
    <2> QED BY <2>2, <2>5
  <1> QED BY <1>1, <1>2, <1>3, <1>4, <1>5 DEF Outcome, Reject, Accept

\* What a command confirmed is on file until it is overruled, for any number of commands and any
\* failures of their writes (record_review_outcome under REJECTION_STORE_LOCK).
THEOREM OutcomesHold == Spec => []OutcomesAreKept
  <1>1. Init => Locked /\ OutcomesAreKept
    <2> SUFFICES ASSUME Init PROVE Locked /\ OutcomesAreKept OBVIOUS
    <2>1. Locked BY DEF Init, Locked
    <2>2. OutcomesAreKept BY DEF Init, OutcomesAreKept
    <2> QED BY <2>1, <2>2
  <1>2. TypeOK /\ Locked /\ OutcomesAreKept /\ [Next]_vars => (Locked /\ OutcomesAreKept)'
    <2> SUFFICES ASSUME TypeOK, Locked, OutcomesAreKept, [Next]_vars
                 PROVE  (Locked /\ OutcomesAreKept)'
      OBVIOUS
    <2>1. ASSUME NEW w \in Writers, Outcome(w) PROVE (Locked /\ OutcomesAreKept)'
      BY <2>1, OutcomeKeeps
    <2>2. ASSUME UNCHANGED <<rejected, accepted, lock, step, about, seen, told>>
          PROVE  (Locked /\ OutcomesAreKept)'
      BY <2>2 DEF Locked, OutcomesAreKept, IsRejected
    <2>3. CASE UNCHANGED vars
      BY <2>2, <2>3 DEF vars, storeVars
    <2>4. ASSUME NEW f \in Focuses, Task(f) \/ Reap(f) PROVE (Locked /\ OutcomesAreKept)'
      BY <2>2, <2>4 DEF Task, Reap, DiffFails, NothingToRead, DiffArrives, DetectorAnswers,
           DetectorFails, LastAnswers, LastFails, ValidatorAnswers, ValidatorFails, Panic, storeVars
    <2>5. CASE Sweep \/ Elapse \/ Drop
      BY <2>2, <2>5 DEF Sweep, Elapse, Drop, Launch, Join, TimeOut, AbortAll, Conclude, storeVars
    <2> QED BY <2>1, <2>3, <2>4, <2>5 DEF Next
  <1> QED BY <1>1, <1>2, TypeCorrect, PTL DEF Spec
-----------------------------------------------------------------------------
(* Reports *)

\* The invariant behind the refinement: what the receiver of the events knows of a focus is what
\* the sweep has done with it, and the end is announced by nothing but the end of the sweep.
Reported ==
  /\ phase = "idle" => /\ \A f \in Focuses : status[f] = "unseen" /\ pc[f] = "none"
                       /\ pending = {} /\ results = {}
  /\ phase # "idle" =>
       \A f \in Focuses : status[f] = IF f \in pending THEN "running"
                                      ELSE IF f \in results THEN "done" ELSE "failed"
  /\ results \cap pending = {}
  /\ phase = "joining" => \A f \in Focuses : f \in pending \/ pc[f] = "joined"
  /\ phase \in {"aborting", "draining", "over"} => pending = {}
  /\ ended = "none" <=> phase # "over"

\* No task says that the review has ended: FocusEmitter keeps it to itself.
LEMMA TaskSilent ==
  ASSUME NEW f \in Focuses, Task(f) \/ Reap(f)
  PROVE  ended' = ended /\ UNCHANGED <<sweepVars, storeVars>>
  BY DEF Task, Reap, DiffFails, NothingToRead, DiffArrives, DetectorAnswers, DetectorFails,
         LastAnswers, LastFails, ValidatorAnswers, ValidatorFails, Panic, Finalize, Validate,
         Announce, Forwards

\* A task that is joined stays so.
LEMMA TaskStays ==
  ASSUME TypeOK, NEW f \in Focuses, Task(f) \/ Reap(f), NEW g \in Focuses, pc[g] = "joined"
  PROVE  pc'[g] = "joined"
  <1>1. pc[f] \in Live
    BY DEF Task, Reap, Live, DiffFails, NothingToRead, DiffArrives, DetectorAnswers,
           DetectorFails, LastAnswers, LastFails, ValidatorAnswers, ValidatorFails, Panic
  <1>2. g # f BY <1>1 DEF Live
  <1>3. \E place : pc' = [pc EXCEPT ![f] = place]
    <2>1. CASE Reap(f) BY <2>1 DEF Reap
    <2>2. CASE DiffFails(f) \/ Panic(f) BY <2>2 DEF DiffFails, Panic, Fails
    <2>3. CASE NothingToRead(f) \/ ValidatorAnswers(f) \/ ValidatorFails(f)
      BY <2>3 DEF NothingToRead, ValidatorAnswers, ValidatorFails, Finalize
    <2>4. CASE DiffArrives(f) \/ DetectorAnswers(f) \/ DetectorFails(f)
      BY <2>4 DEF DiffArrives, DetectorAnswers, DetectorFails, GoesTo
    <2>5. ASSUME NEW set, Validate(f, set) PROVE \E place : pc' = [pc EXCEPT ![f] = place]
      BY <2>5 DEF Validate, Finalize, GoesTo
    <2>6. CASE LastAnswers(f) BY <2>5, <2>6 DEF LastAnswers
    <2>7. CASE LastFails(f) BY <2>5, <2>7 DEF LastFails, Fails
    <2> QED BY <2>1, <2>2, <2>3, <2>4, <2>6, <2>7 DEF Task
  <1> QED BY <1>2, <1>3 DEF TypeOK

LEMMA ReportedStep == TypeOK /\ Reported /\ [Next]_vars => Reported'
  <1> SUFFICES ASSUME TypeOK, Reported, [Next]_vars PROVE Reported' OBVIOUS
  <1>1. ASSUME NEW f \in Focuses, Task(f) \/ Reap(f) PROVE Reported'
    <2>1. ended' = ended /\ UNCHANGED sweepVars BY <1>1, TaskSilent
    <2>2. phase # "idle"
      BY <1>1 DEF Reported, Task, Reap, Live, DiffFails, NothingToRead, DiffArrives,
           DetectorAnswers, DetectorFails, LastAnswers, LastFails, ValidatorAnswers,
           ValidatorFails, Panic
    <2>3. phase = "joining" => \A g \in Focuses : g \in pending \/ pc'[g] = "joined"
      BY <1>1, TaskStays DEF Reported
    <2> QED BY <2>1, <2>2, <2>3 DEF Reported, sweepVars
  <1>2. ASSUME NEW w \in Writers, Outcome(w) PROVE Reported'
    <2>1. UNCHANGED OthersOfStore
      BY <1>2 DEF Outcome, Reject, Accept, Begin, SaveRejection, SaveAcceptance, ClearRejection,
                  WriteFails
    <2> QED BY <2>1 DEF OthersOfStore, Reported, sweepVars, taskVars
  <1>3. CASE Launch
    BY <1>3 DEF Launch, Reported
  <1>4. ASSUME NEW f \in Focuses, Join(f) PROVE Reported'
    <2>1. CASE JoinResult(f)
      BY <1>4, <2>1 DEF Join, JoinResult, Reported, TypeOK
    <2>2. CASE JoinError(f)
      <3>1. f \in pending BY <1>4 DEF Join, Reported
      <3> QED BY <1>4, <2>2, <3>1 DEF Join, JoinError, Reported, TypeOK
    <2> QED BY <1>4, <2>1, <2>2 DEF Join
  <1>5. CASE TimeOut
    BY <1>5 DEF TimeOut, Reported, TypeOK
  <1>6. CASE AbortAll \/ Elapse
    BY <1>6 DEF AbortAll, Elapse, Reported, taskVars
  <1>7. CASE Conclude \/ Drop
    BY <1>7 DEF Conclude, Drop, Reported, taskVars
  <1>8. CASE UNCHANGED vars
    BY <1>8 DEF vars, sweepVars, taskVars, Reported
  <1> QED BY <1>1, <1>2, <1>3, <1>4, <1>5, <1>6, <1>7, <1>8 DEF Next, Sweep

\* Seen through its events, a review of any focuses is the one of ReviewContract
\* (run_multi_focus_review_with_child and FocusEmitter).
THEOREM KeepsContract == Spec => ImplementsContract
  <1>1. Init => Contract!Init /\ Reported
    BY DEF Init, Contract!Init, Reported
  <1>2. TypeOK /\ Reported /\ [Next]_vars => [Contract!Next]_(Contract!vars)
    <2> SUFFICES ASSUME TypeOK, Reported, [Next]_vars
                 PROVE  Contract!Next \/ UNCHANGED <<status, ended>>
      BY DEF Contract!vars
    <2>1. ASSUME NEW f \in Focuses, Task(f) \/ Reap(f) PROVE UNCHANGED <<status, ended>>
      BY <2>1, TaskSilent DEF sweepVars
    <2>2. ASSUME NEW w \in Writers, Outcome(w) PROVE UNCHANGED <<status, ended>>
      BY <2>2 DEF Outcome, Reject, Accept, Begin, SaveRejection, SaveAcceptance, ClearRejection,
                  WriteFails, OthersOfStore, sweepVars
    <2>3. CASE Launch
      BY <2>3 DEF Launch, Reported, Contract!Next, Contract!Begin
    <2>4. ASSUME NEW f \in Focuses, Join(f) PROVE Contract!Report
      <3>1. f \in pending /\ status[f] = "running" /\ ended = "none"
        BY <2>4 DEF Join, Reported
      <3>2. \E end \in Contract!Ends : status' = [status EXCEPT ![f] = end]
        BY <2>4 DEF Join, JoinResult, JoinError, Contract!Ends
      <3>3. PICK end \in Contract!Ends : status' = [status EXCEPT ![f] = end] BY <3>2
      <3>4. status' = [g \in Focuses |-> IF g \in {f} THEN end ELSE status[g]]
        BY <3>3 DEF TypeOK
      <3>5. {f} \in SUBSET {g \in Focuses : status[g] = "running"} BY <3>1
      <3>6. ended' = ended BY <2>4 DEF Join
      <3> QED BY <3>1, <3>3, <3>4, <3>5, <3>6 DEF Contract!Report
    <2>5. CASE TimeOut
      <3>1. pending \in SUBSET {g \in Focuses : status[g] = "running"}
        BY <2>5 DEF TimeOut, Reported, TypeOK
      <3>2. ended = "none" /\ ended' = ended BY <2>5 DEF TimeOut, Reported
      <3>3. status' = [g \in Focuses |-> IF g \in pending THEN "failed" ELSE status[g]]
        BY <2>5 DEF TimeOut
      <3>4. "failed" \in Contract!Ends BY DEF Contract!Ends
      <3>5. Contract!Report BY <3>1, <3>2, <3>3, <3>4 DEF Contract!Report
      <3> QED BY <3>5 DEF Contract!Next
    <2>6. CASE AbortAll \/ Elapse \/ Drop
      BY <2>6 DEF AbortAll, Elapse, Drop
    <2>7. CASE Conclude
      <3>1. /\ pending = {} /\ phase # "idle" /\ ended = "none"
            /\ ended' = IF results = {} THEN "failed" ELSE "done"
            /\ status' = status
        BY <2>7 DEF Conclude, Reported
      <3>2. \A f \in Focuses : status[f] = IF f \in results THEN "done" ELSE "failed"
        BY <3>1 DEF Reported
      <3>3. results = {} <=> ~\E f \in Focuses : status[f] = "done"
        BY <3>2 DEF TypeOK
      <3>4. Contract!End BY <3>1, <3>2, <3>3 DEF Contract!End, Contract!Ends
      <3> QED BY <3>4 DEF Contract!Next
    <2>8. CASE UNCHANGED vars
      BY <2>8 DEF vars, sweepVars
    <2> QED BY <2>1, <2>2, <2>3, <2>4, <2>5, <2>6, <2>7, <2>8 DEF Next, Sweep, Contract!Next
  <1> QED BY <1>1, <1>2, TypeCorrect, ReportedStep, PTL
          DEF Spec, ImplementsContract, Contract!Spec
-----------------------------------------------------------------------------
(* Sums *)

(***************************************************************************)
(* MapThenSumSet takes the members of a set one after the other.  A sum    *)
(* is counted here in another way: as the number of tokens when every      *)
(* member has as many as it adds.  That the two agree is shown without     *)
(* induction, by a look at the smallest subset for which they would not.   *)
(***************************************************************************)

\* w[x] tokens for every x of a set, and how many they are.
Tokens(w, s) == {t \in s \X Nat : t[2] \in 1..w[t[1]]}
Count(w, s) == Cardinality(Tokens(w, s))

\* The set without one of its members has the tokens of the others.
LEMMA TokensOfOne ==
  ASSUME NEW S, NEW w \in [S -> Nat], NEW s \in SUBSET S, NEW x \in s, IsFiniteSet(Tokens(w, s \ {x}))
  PROVE  /\ IsFiniteSet(Tokens(w, s))
         /\ Count(w, s) = w[x] + Count(w, s \ {x})
  <1> DEFINE rest == Tokens(w, s \ {x})
             own == {x} \X (1..w[x])
  <1>1. w[x] \in Nat /\ IsFiniteSet({x}) /\ Cardinality({x}) = 1
    BY FS_Singleton
  <1>2. IsFiniteSet(1..w[x]) /\ Cardinality(1..w[x]) = w[x]
    BY <1>1, UpTo, Zenon
  <1>3. IsFiniteSet(own) /\ Cardinality(own) = w[x]
    <2>1. IsFiniteSet(own) /\ Cardinality(own) = Cardinality({x}) * Cardinality(1..w[x])
      BY <1>1, <1>2, FS_Product, ZenonT(60)
    <2> HIDE DEF own
    <2>2. Cardinality(own) = 1 * w[x]
      BY <1>1, <1>2, <2>1, Zenon
    <2> QED BY <1>1, <2>1, <2>2
  <1>4. Tokens(w, s) = rest \cup own /\ rest \cap own = {}
    BY <1>1 DEF Tokens
  <1> HIDE DEF own, rest
  <1>5. IsFiniteSet(rest)
    BY DEF rest
  <1>6. /\ IsFiniteSet(rest \cup own)
        /\ Cardinality(rest \cup own) = Cardinality(rest) + Cardinality(own) - Cardinality(rest \cap own)
    BY <1>3, <1>5, FS_Union
  <1>7. Cardinality(rest \cap own) = 0 /\ Cardinality(rest) \in Nat
    BY <1>4, <1>5, FS_EmptySet, FS_CardinalityType
  <1>8. Count(w, s) = Cardinality(rest) + Cardinality(own) - 0
    BY <1>4, <1>6, <1>7, Zenon DEF Count
  <1> QED BY <1>1, <1>3, <1>4, <1>6, <1>7, <1>8 DEF Count, rest

LEMMA CountType ==
  ASSUME NEW S, IsFiniteSet(S), NEW w \in [S -> Nat], NEW s \in SUBSET S
  PROVE  IsFiniteSet(Tokens(w, s)) /\ Count(w, s) \in Nat
  <1> DEFINE T == {r \in SUBSET S : ~IsFiniteSet(Tokens(w, r))}
  <1>1. T = {}
    <2> SUFFICES ASSUME T # {} PROVE FALSE
      OBVIOUS
    <2>1. PICK r \in T : \A q \in T : q \subseteq r => q = r
      <3>1. T \in SUBSET (SUBSET S)
        OBVIOUS
      <3> HIDE DEF T
      <3> QED BY <3>1, SmallestSubset
    <2>2. r # {}
      <3>1. Tokens(w, {}) = {}
        BY DEF Tokens
      <3> QED BY <3>1, FS_EmptySet
    <2>3. PICK x \in r : TRUE
      BY <2>2
    <2>4. r \ {x} \notin T
      BY <2>1, <2>3
    <2>5. IsFiniteSet(Tokens(w, r \ {x}))
      BY <2>4
    <2>6. IsFiniteSet(Tokens(w, r))
      BY <2>5, TokensOfOne
    <2> QED BY <2>6
  <1>2. IsFiniteSet(Tokens(w, s))
    BY <1>1
  <1> QED BY <1>2, FS_CardinalityType DEF Count

LEMMA CountOfNone == ASSUME NEW w PROVE Count(w, {}) = 0
  <1>1. Tokens(w, {}) = {}
    BY DEF Tokens
  <1> QED BY <1>1, FS_EmptySet DEF Count

\* What is summed up one member after the other is the number of tokens.
Step(g, w, S) ==
  [s \in SUBSET S |-> IF s = {} THEN 0 ELSE LET x == CHOOSE x \in s : TRUE IN w[x] + g[s \ {x}]]

LEMMA CountSteps ==
  ASSUME NEW S, IsFiniteSet(S), NEW w \in [S -> Nat]
  PROVE  \E g : g = Step(g, w, S)
  <1> DEFINE g == [s \in SUBSET S |-> Count(w, s)]
  <1>1. ASSUME NEW s \in SUBSET S
        PROVE  g[s] = IF s = {} THEN 0 ELSE LET x == CHOOSE x \in s : TRUE IN w[x] + g[s \ {x}]
    <2>1. CASE s = {}
      BY <2>1, CountOfNone
    <2>2. CASE s # {}
      <3> DEFINE x == CHOOSE x \in s : TRUE
      <3>1. x \in s
        BY <2>2
      <3> HIDE DEF x
      <3>2. IsFiniteSet(Tokens(w, s \ {x}))
        BY <3>1, CountType
      <3>3. Count(w, s) = w[x] + Count(w, s \ {x})
        BY <3>1, <3>2, TokensOfOne
      <3>4. g[s] = w[x] + g[s \ {x}]
        BY <3>3
      <3> QED BY <2>2, <3>4 DEF x
    <2> QED BY <2>1, <2>2
  <1>2. g = Step(g, w, S)
    BY <1>1 DEF Step
  <1> QED BY <1>2

LEMMA StepsCount ==
  ASSUME NEW S, IsFiniteSet(S), NEW w \in [S -> Nat], NEW g, g = Step(g, w, S)
  PROVE  g[S] = Count(w, S)
  <1> DEFINE T == {r \in SUBSET S : g[r] # Count(w, r)}
  <1>1. T = {}
    <2> SUFFICES ASSUME T # {} PROVE FALSE
      OBVIOUS
    <2>1. PICK r \in T : \A q \in T : q \subseteq r => q = r
      <3>1. T \in SUBSET (SUBSET S)
        OBVIOUS
      <3> HIDE DEF T
      <3> QED BY <3>1, SmallestSubset
    <2>2. g[r] = IF r = {} THEN 0 ELSE LET x == CHOOSE x \in r : TRUE IN w[x] + g[r \ {x}]
      <3>1. g = [s \in SUBSET S |-> IF s = {} THEN 0 ELSE LET x == CHOOSE x \in s : TRUE IN w[x] + g[s \ {x}]]
        BY Zenon DEF Step
      <3> HIDE DEF T
      <3>2. r \in SUBSET S
        BY DEF T
      <3> QED BY <3>1, <3>2, Zenon
    <2>3. r # {}
      BY <2>2, CountOfNone
    <2> DEFINE x == CHOOSE x \in r : TRUE
    <2>4. x \in r
      BY <2>3
    <2>5. g[r] = w[x] + g[r \ {x}]
      BY <2>2, <2>3
    <2> HIDE DEF x
    <2>6. r \ {x} \notin T
      BY <2>1, <2>4
    <2>7. g[r \ {x}] = Count(w, r \ {x})
      BY <2>6
    <2>8. Count(w, r) = w[x] + Count(w, r \ {x})
      BY <2>4, CountType, TokensOfOne
    <2> QED BY <2>5, <2>7, <2>8
  <1> QED BY <1>1

LEMMA BelowNext ==
  ASSUME NEW a \in Nat, NEW b \in Nat \ {0}
  PROVE  a \div b \in Nat /\ a < b * ((a \div b) + 1)
  <1>1. a \div b \in Nat
    BY Z3
  <1>2. a < b * (a \div b) + b
    BY Z3
  <1>3. b * ((a \div b) + 1) = b * (a \div b) + b
    BY <1>1
  <1> QED BY <1>1, <1>2, <1>3
LEMMA NoiseIsLow ==
  ASSUME NEW k \in Nat, NEW n \in Nat \ {0}, NEW t \in Nat, (2000 * k + n) \div (2 * n) < 10 * t
  PROVE  100 * k < t * n
  <1> DEFINE a == 2000 * k + n
             b == 2 * n
             q == a \div b
  <1>1. a \in Nat /\ b \in Nat \ {0}
    OBVIOUS
  <1>2. q < 10 * t
    OBVIOUS
  <1>8. q \in Nat
    <2> HIDE DEF a, b
    <2> QED BY <1>1, BelowNext
  <1>3. a < b * (q + 1)
    <2> HIDE DEF a, b
    <2> QED BY <1>1, BelowNext
  <1> HIDE DEF q, a, b
  <1>4. \E d \in Nat : q + 1 + d = 10 * t
    <2>1. (10 * t - q) - 1 \in Nat /\ q + 1 + ((10 * t - q) - 1) = 10 * t
      BY <1>2, <1>8
    <2> QED BY <2>1
  <1>5. PICK d \in Nat : q + 1 + d = 10 * t
    BY <1>4
  <1>6. b * (10 * t) = b * (q + 1) + b * d /\ b * d >= 0
    <2>1. b * (10 * t) = b * (q + 1 + d)
      BY <1>5
    <2>2. b * (q + 1 + d) = b * (q + 1) + b * d /\ b * d >= 0
      BY <1>1, <1>5, <1>8
    <2> QED BY <2>1, <2>2
  <1>7. b * (10 * t) = 20 * (t * n)
    BY DEF b
  <1> QED BY <1>1, <1>3, <1>6, <1>7 DEF a
-----------------------------------------------------------------------------
(* Totals *)

\* What the result of each focus adds to total_findings and to total_suppressed.
Shown == [f \in Focuses |-> Cardinality(out[f].comments)]
Suppressed == [f \in Focuses |-> out[f].hidden]

\* The invariant behind ReportIsTrue, of the sweep: every focus is in one of three sets, and the
\* totals are those of the results that were joined.
Tallied ==
  /\ results \cap errors = {} /\ errors \cap pending = {}
  /\ IF phase = "idle" THEN errors = {} ELSE results \cup errors \cup pending = Focuses
  /\ \A f \in results : pc[f] = "joined" /\ out[f].ok
  /\ found = Count(Shown, results) /\ hidden = Count(Suppressed, results)

\* The invariant behind ReportIsTrue, of the tasks: a result shows what its record leaves to see.
Recorded ==
  \A f \in Focuses : out[f].ok /\ f \notin unsaved =>
    /\ out[f].comments = Visible(record[f])
    /\ out[f].hidden = Cardinality(record[f]) - Cardinality(Visible(record[f]))

\* A step of a task returns nothing yet or writes its run and returns.
LEMMA TaskReturns ==
  ASSUME TypeOK, NEW f \in Focuses, Task(f) \/ Reap(f)
  PROVE  /\ pc[f] \in Live
         /\ \/ UNCHANGED <<out, runVars>>
            \/ \E set \in SUBSET Anchors : Finalize(f, set)
  <1>1. pc[f] \in Live
    BY DEF Task, Reap, Live, DiffFails, NothingToRead, DiffArrives, DetectorAnswers,
           DetectorFails, LastAnswers, LastFails, ValidatorAnswers, ValidatorFails, Panic
  <1> DEFINE Returns == \/ UNCHANGED <<out, runVars>>
                        \/ \E set \in SUBSET Anchors : Finalize(f, set)
  <1>2. CASE Reap(f) \/ DiffFails(f) \/ Panic(f)
    BY <1>1, <1>2 DEF Reap, DiffFails, Panic, Fails
  <1>3. CASE DiffArrives(f) \/ DetectorAnswers(f) \/ DetectorFails(f)
    BY <1>1, <1>3 DEF DiffArrives, DetectorAnswers, DetectorFails
  <1>4. CASE NothingToRead(f)
    BY <1>1, <1>4 DEF NothingToRead
  <1>5. ASSUME NEW set \in SUBSET Anchors, Validate(f, set) PROVE Returns
    BY <1>5 DEF Validate
  <1>6. CASE LastAnswers(f)
    <2>1. PICK set \in SUBSET Anchors : Validate(f, cand[f] \cup Unrejected(set, f))
      BY <1>6 DEF LastAnswers
    <2>2. cand[f] \cup Unrejected(set, f) \in SUBSET Anchors
      BY DEF Unrejected, TypeOK
    <2> HIDE DEF Returns
    <2>3. Returns
      BY <1>5, <2>1, <2>2
    <2> QED BY <1>1, <2>3 DEF Returns
  <1>7. CASE LastFails(f)
    <2>1. cand[f] \in SUBSET Anchors
      BY DEF TypeOK
    <2> HIDE DEF Returns
    <2>2. Returns
      BY <1>5, <1>7, <2>1 DEF LastFails, Fails, Returns
    <2> QED BY <1>1, <2>2 DEF Returns
  <1>8. CASE ValidatorAnswers(f)
    <2>1. PICK set \in SUBSET Anchors : Finalize(f, Unrejected(set, f))
      BY <1>8 DEF ValidatorAnswers
    <2>2. Unrejected(set, f) \in SUBSET Anchors
      BY DEF Unrejected
    <2> QED BY <1>1, <2>1, <2>2
  <1>9. CASE ValidatorFails(f)
    <2>1. cand[f] \in SUBSET Anchors
      BY DEF TypeOK
    <2> QED BY <1>1, <1>9, <2>1 DEF ValidatorFails
  <1> QED BY <1>1, <1>2, <1>3, <1>4, <1>6, <1>7, <1>8, <1>9 DEF Task

LEMMA RecordedStep == TypeOK /\ Recorded /\ [Next]_vars => Recorded'
  <1> SUFFICES ASSUME TypeOK, Recorded, [Next]_vars PROVE Recorded'
    OBVIOUS
  <1>1. ASSUME UNCHANGED <<out, runVars>> PROVE Recorded'
    BY <1>1 DEF runVars, Recorded
  <1>2. ASSUME NEW f \in Focuses, Task(f) \/ Reap(f) PROVE Recorded'
    <2>1. ASSUME NEW set \in SUBSET Anchors, Finalize(f, set) PROVE Recorded'
      <3>1. out' = [out EXCEPT ![f] = [ok |-> TRUE, comments |-> Visible(set),
                      hidden |-> Cardinality(set) - Cardinality(Visible(set))]]
        BY <2>1 DEF Finalize
      <3>2. \/ record' = [record EXCEPT ![f] = set] /\ unsaved' = unsaved
            \/ unsaved' = unsaved \cup {f} /\ record' \in {record, [record EXCEPT ![f] = set]}
        BY <2>1 DEF Finalize
      <3> SUFFICES ASSUME NEW g \in Focuses, out'[g].ok, g \notin unsaved'
                   PROVE  /\ out'[g].comments = Visible(record'[g])
                          /\ out'[g].hidden = Cardinality(record'[g]) - Cardinality(Visible(record'[g]))
        BY DEF Recorded
      <3>3. CASE g = f
        <4>1. record'[g] = set
          BY <3>2, <3>3 DEF TypeOK
        <4>2. out'[g].comments = Visible(set) /\ out'[g].hidden = Cardinality(set) - Cardinality(Visible(set))
          BY <3>1, <3>3 DEF TypeOK
        <4> QED BY <4>1, <4>2
      <3>4. CASE g # f
        <4>1. out'[g] = out[g] /\ record'[g] = record[g] /\ g \notin unsaved
          BY <3>1, <3>2, <3>4 DEF TypeOK
        <4> QED BY <4>1 DEF Recorded
      <3> QED BY <3>3, <3>4
    <2> QED BY <1>1, <1>2, <2>1, TaskReturns
  <1>3. ASSUME NEW w \in Writers, Outcome(w) PROVE Recorded'
    <2>1. UNCHANGED OthersOfStore
      BY <1>3 DEF Outcome, Reject, Accept, Begin, SaveRejection, SaveAcceptance, ClearRejection,
                  WriteFails
    <2> QED BY <1>1, <2>1 DEF OthersOfStore, taskVars
  <1>4. CASE Sweep \/ Elapse \/ Drop
    BY <1>1, <1>4 DEF Sweep, Elapse, Drop, Launch, Join, TimeOut, AbortAll, Conclude, taskVars
  <1>5. CASE UNCHANGED vars
    BY <1>1, <1>5 DEF vars, taskVars
  <1> QED BY <1>2, <1>3, <1>4, <1>5 DEF Next

\* What is added up for the members of a set depends on them alone.
LEMMA CountAgrees ==
  ASSUME NEW s, NEW v, NEW w, \A x \in s : v[x] = w[x]
  PROVE  Count(v, s) = Count(w, s)
  <1>1. Tokens(v, s) = Tokens(w, s)
    BY DEF Tokens
  <1> QED BY <1>1 DEF Count

LEMMA WeightTypes ==
  ASSUME TypeOK
  PROVE  Shown \in [Focuses -> Nat] /\ Suppressed \in [Focuses -> Nat] /\ IsFiniteSet(Focuses)
  <1>1. ASSUME NEW f \in Focuses PROVE Cardinality(out[f].comments) \in Nat /\ out[f].hidden \in Nat
    <2>1. out[f].comments \subseteq Anchors /\ out[f].hidden \in Nat
      BY DEF TypeOK
    <2>2. IsFiniteSet(out[f].comments)
      BY <2>1, ReviewAssumption, FS_Subset
    <2> QED BY <2>1, <2>2, FS_CardinalityType
  <1> QED BY <1>1, ReviewAssumption DEF Shown, Suppressed

\* One more result adds what it has to the total.
LEMMA CountGrows ==
  ASSUME NEW w \in [Focuses -> Nat], IsFiniteSet(Focuses), NEW s \in SUBSET Focuses,
         NEW f \in Focuses \ s
  PROVE  Count(w, s \cup {f}) = Count(w, s) + w[f]
  <1> DEFINE more == s \cup {f}
  <1>1. more \in SUBSET Focuses /\ f \in more /\ more \ {f} = s
    OBVIOUS
  <1>2. IsFiniteSet(Tokens(w, s)) /\ Count(w, s) \in Nat
    BY CountType
  <1> HIDE DEF more
  <1>3. Count(w, more) = w[f] + Count(w, s)
    BY <1>1, <1>2, TokensOfOne
  <1> QED BY <1>2, <1>3 DEF more

LEMMA TalliedStep == TypeOK /\ Reported /\ Tallied /\ [Next]_vars => Tallied'
  <1> SUFFICES ASSUME TypeOK, Reported, Tallied, [Next]_vars PROVE Tallied'
    OBVIOUS
  <1>1. ASSUME UNCHANGED <<phase, pending, results, errors, found, hidden, pc, out>> PROVE Tallied'
    BY <1>1 DEF Tallied, Shown, Suppressed
  <1>2. ASSUME NEW f \in Focuses, Task(f) \/ Reap(f) PROVE Tallied'
    <2>1. UNCHANGED sweepVars
      BY <1>2, TaskSilent
    <2>2. f \notin results
      BY <1>2, TaskReturns DEF Tallied, Live
    <2>3. \A g \in results : out'[g] = out[g]
      BY <1>2, <2>2, TaskReturns DEF Finalize, TypeOK
    <2>4. \A g \in results : Shown'[g] = Shown[g] /\ Suppressed'[g] = Suppressed[g]
      BY <2>3 DEF Shown, Suppressed, TypeOK
    <2>5. Count(Shown', results) = Count(Shown, results)
      BY <2>4, CountAgrees
    <2>6. Count(Suppressed', results) = Count(Suppressed, results)
      BY <2>4, CountAgrees
    <2>7. \A g \in results : pc'[g] = "joined" /\ out'[g].ok
      <3> SUFFICES ASSUME NEW g \in results PROVE pc'[g] = "joined" /\ out'[g].ok
        OBVIOUS
      <3>1. g \in Focuses /\ pc[g] = "joined" /\ out[g].ok
        BY DEF Tallied, TypeOK
      <3> QED BY <1>2, <2>3, <3>1, TaskStays
    <2> QED BY <2>1, <2>5, <2>6, <2>7 DEF Tallied, sweepVars
  <1>3. ASSUME NEW w \in Writers, Outcome(w) PROVE Tallied'
    <2>1. UNCHANGED OthersOfStore
      BY <1>3 DEF Outcome, Reject, Accept, Begin, SaveRejection, SaveAcceptance, ClearRejection,
                  WriteFails
    <2> QED BY <1>1, <2>1 DEF OthersOfStore, sweepVars, taskVars
  <1>4. CASE Launch
    <2>1. results = {} /\ errors = {}
      BY <1>4 DEF Launch, Reported, Tallied
    <2>2. Count(Shown', results) = Count(Shown, results)
      BY <2>1, CountAgrees
    <2>3. Count(Suppressed', results) = Count(Suppressed, results)
      BY <2>1, CountAgrees
    <2> QED BY <1>4, <2>1, <2>2, <2>3 DEF Launch, Tallied
  <1>5. ASSUME NEW f \in Focuses, Join(f) PROVE Tallied'
    <2>1. f \in pending /\ f \notin results /\ f \notin errors /\ phase = "joining"
      BY <1>5 DEF Join, Reported, Tallied
    <2>2. out' = out /\ Shown' = Shown /\ Suppressed' = Suppressed
      BY <1>5 DEF Join, Shown, Suppressed
    <2>3. \A g \in results \cup {f} : pc'[g] = "joined"
      BY <1>5 DEF Join, TypeOK, Tallied
    <2>4. phase' = phase /\ pending' = pending \ {f}
      BY <1>5 DEF Join
    <2>5. CASE JoinResult(f)
      <3>1. Count(Shown, results \cup {f}) = Count(Shown, results) + Shown[f]
        BY <2>1, WeightTypes, CountGrows DEF TypeOK
      <3>2. Count(Suppressed, results \cup {f}) = Count(Suppressed, results) + Suppressed[f]
        BY <2>1, WeightTypes, CountGrows DEF TypeOK
      <3>3. Shown[f] = Cardinality(out[f].comments) /\ Suppressed[f] = out[f].hidden
        BY DEF Shown, Suppressed
      <3>4. results' = results \cup {f} /\ errors' = errors /\ out[f].ok
        BY <2>5 DEF JoinResult
      <3>5. found' = Count(Shown', results') /\ hidden' = Count(Suppressed', results')
        BY <2>2, <2>5, <3>1, <3>2, <3>3, <3>4, Zenon DEF JoinResult, Tallied
      <3>6. \A g \in results' : pc'[g] = "joined" /\ out'[g].ok
        BY <2>2, <2>3, <3>4 DEF Tallied
      <3> QED BY <2>1, <2>4, <3>4, <3>5, <3>6 DEF Tallied
    <2>6. CASE JoinError(f)
      <3>1. results' = results /\ errors' = errors \cup {f} /\ found' = found /\ hidden' = hidden
        BY <2>6 DEF JoinError
      <3> QED BY <2>1, <2>2, <2>3, <2>4, <3>1 DEF Tallied
    <2> QED BY <1>5, <2>5, <2>6 DEF Join
  <1>6. CASE TimeOut
    <2>1. Shown' = Shown /\ Suppressed' = Suppressed
      BY <1>6 DEF TimeOut, taskVars, Shown, Suppressed
    <2> QED BY <1>6, <2>1 DEF TimeOut, taskVars, Tallied, Reported
  <1>7. CASE AbortAll \/ Elapse \/ Conclude \/ Drop
    <2>1. Shown' = Shown /\ Suppressed' = Suppressed
      BY <1>7 DEF AbortAll, Elapse, Conclude, Drop, taskVars, Shown, Suppressed
    <2>2. phase # "idle" /\ phase' # "idle"
      BY <1>7 DEF AbortAll, Elapse, Conclude, Drop
    <2>3. UNCHANGED <<pending, results, errors, found, hidden, pc, out>>
      BY <1>7 DEF AbortAll, Elapse, Conclude, Drop, taskVars
    <2> QED BY <2>1, <2>2, <2>3 DEF Tallied
  <1>8. CASE UNCHANGED vars
    BY <1>1, <1>8 DEF vars, sweepVars, taskVars
  <1> QED BY <1>2, <1>3, <1>4, <1>5, <1>6, <1>7, <1>8 DEF Next, Sweep
\* The totals of the result in the form in which they are stated.
LEMMA ShownIsSum ==
  ASSUME TypeOK
  PROVE  MapThenSumSet(LAMBDA f : Cardinality(out[f].comments), results) = Count(Shown, results)
  <1> DEFINE w == [f \in results |-> Cardinality(out[f].comments)]
             Sum(g) == [s \in SUBSET results |->
                          IF s = {} THEN 0
                          ELSE LET x == CHOOSE x \in s : TRUE
                               IN Cardinality(out[x].comments) + g[s \ {x}]]
             g0 == CHOOSE g : g = Sum(g)
  <1>1. results \subseteq Focuses /\ IsFiniteSet(results)
    BY ReviewAssumption, FS_Subset DEF TypeOK
  <1>2. w \in [results -> Nat] /\ \A f \in results : w[f] = Shown[f]
    BY <1>1, WeightTypes DEF Shown
  <1>3. MapThenSumSet(LAMBDA f : Cardinality(out[f].comments), results) = g0[results]
    BY DEF MapThenSumSet, MapThenFoldSet
  <1>4. ASSUME NEW g PROVE Step(g, w, results) = Sum(g)
    <2>1. ASSUME NEW s \in SUBSET results, s # {}
          PROVE  w[CHOOSE x \in s : TRUE] = Cardinality(out[CHOOSE x \in s : TRUE].comments)
      <3>1. (CHOOSE x \in s : TRUE) \in s
        BY <2>1
      <3>2. (CHOOSE x \in s : TRUE) \in results
        BY <3>1
      <3> QED BY <3>2, Zenon
    <2> HIDE DEF w
    <2> QED BY <2>1 DEF Step
  <1> HIDE DEF w
  <1>5. g0 = Sum(g0)
    <2>1. \E g : g = Sum(g)
      <3> HIDE DEF Sum
      <3> QED BY <1>1, <1>2, <1>4, CountSteps
    <2> HIDE DEF Sum
    <2> QED BY <2>1
  <1>6. g0 = Step(g0, w, results)
    <2> HIDE DEF Sum, g0
    <2> QED BY <1>4, <1>5
  <1> HIDE DEF g0
  <1>7. g0[results] = Count(w, results)
    BY <1>1, <1>2, <1>6, StepsCount
  <1>8. Count(w, results) = Count(Shown, results)
    BY <1>2, CountAgrees
  <1> QED BY <1>3, <1>7, <1>8

LEMMA SuppressedIsSum ==
  ASSUME TypeOK
  PROVE  MapThenSumSet(LAMBDA f : out[f].hidden, results) = Count(Suppressed, results)
  <1> DEFINE w == [f \in results |-> out[f].hidden]
             Sum(g) == [s \in SUBSET results |->
                          IF s = {} THEN 0
                          ELSE LET x == CHOOSE x \in s : TRUE IN out[x].hidden + g[s \ {x}]]
             g0 == CHOOSE g : g = Sum(g)
  <1>1. results \subseteq Focuses /\ IsFiniteSet(results)
    BY ReviewAssumption, FS_Subset DEF TypeOK
  <1>2. w \in [results -> Nat] /\ \A f \in results : w[f] = Suppressed[f]
    BY <1>1, WeightTypes DEF Suppressed
  <1>3. MapThenSumSet(LAMBDA f : out[f].hidden, results) = g0[results]
    BY DEF MapThenSumSet, MapThenFoldSet
  <1>4. ASSUME NEW g PROVE Step(g, w, results) = Sum(g)
    <2>1. ASSUME NEW s \in SUBSET results, s # {}
          PROVE  w[CHOOSE x \in s : TRUE] = out[CHOOSE x \in s : TRUE].hidden
      <3>1. (CHOOSE x \in s : TRUE) \in s
        BY <2>1
      <3>2. (CHOOSE x \in s : TRUE) \in results
        BY <3>1
      <3> QED BY <3>2, Zenon
    <2> HIDE DEF w
    <2> QED BY <2>1 DEF Step
  <1> HIDE DEF w
  <1>5. g0 = Sum(g0)
    <2>1. \E g : g = Sum(g)
      <3> HIDE DEF Sum
      <3> QED BY <1>1, <1>2, <1>4, CountSteps
    <2> HIDE DEF Sum
    <2> QED BY <2>1
  <1>6. g0 = Step(g0, w, results)
    <2> HIDE DEF Sum, g0
    <2> QED BY <1>4, <1>5
  <1> HIDE DEF g0
  <1>7. g0[results] = Count(w, results)
    BY <1>1, <1>2, <1>6, StepsCount
  <1>8. Count(w, results) = Count(Suppressed, results)
    BY <1>2, CountAgrees
  <1> QED BY <1>3, <1>7, <1>8

\* What is suppressed was below the threshold.
LEMMA HiddenIsNoise ==
  ASSUME NEW set \in SUBSET Anchors, Cardinality(set) - Cardinality(Visible(set)) > 0
  PROVE  100 * Cardinality(Visible(set)) < Threshold * Cardinality(set)
  <1> DEFINE n == Cardinality(set)
             k == Cardinality(set \cap Actionable)
  <1>1. IsFiniteSet(set) /\ n \in Nat
    BY ReviewAssumption, FS_Subset, FS_CardinalityType
  <1>2. Noisy(set) /\ Visible(set) = set \cap Actionable
    BY <1>1 DEF Visible
  <1>3. set # {} /\ Snr(set) < 10 * Threshold
    BY <1>2 DEF Noisy
  <1>4. n # 0 /\ k \in Nat
    BY <1>1, <1>3, FS_EmptySet, FS_Subset, FS_CardinalityType
  <1>5. (2000 * k + n) \div (2 * n) < 10 * Threshold
    BY <1>3, <1>4 DEF Snr
  <1> HIDE DEF n, k
  <1>6. Threshold \in Nat
    BY ReviewAssumption
  <1>7. 100 * k < Threshold * n
    BY <1>1, <1>4, <1>5, <1>6, NoiseIsLow
  <1> QED BY <1>2, <1>7 DEF n, k

LEMMA ReportFollows == TypeOK /\ Reported /\ Tallied /\ Recorded => ReportIsTrue
  <1> SUFFICES ASSUME TypeOK, Reported, Tallied, Recorded, phase = "over" PROVE
      /\ results \cup errors = Focuses /\ results \cap errors = {}
      /\ \A f \in Focuses : status[f] = IF f \in results THEN "done" ELSE "failed"
      /\ found = MapThenSumSet(LAMBDA f : Cardinality(out[f].comments), results)
      /\ hidden = MapThenSumSet(LAMBDA f : out[f].hidden, results)
      /\ \A f \in results \ unsaved :
           /\ out[f].comments \subseteq record[f]
           /\ Cardinality(record[f]) = Cardinality(out[f].comments) + out[f].hidden
           /\ out[f].hidden > 0 =>
                100 * Cardinality(out[f].comments) < Threshold * Cardinality(record[f])
    BY DEF ReportIsTrue
  <1>1. pending = {}
    BY DEF Reported
  <1>2. results \cup errors = Focuses /\ results \cap errors = {}
    BY <1>1 DEF Tallied
  <1>3. \A f \in Focuses : status[f] = IF f \in results THEN "done" ELSE "failed"
    BY <1>1 DEF Reported
  <1>4. found = MapThenSumSet(LAMBDA f : Cardinality(out[f].comments), results)
    BY ShownIsSum DEF Tallied
  <1>5. hidden = MapThenSumSet(LAMBDA f : out[f].hidden, results)
    BY SuppressedIsSum DEF Tallied
  <1>6. ASSUME NEW f \in results \ unsaved
        PROVE  /\ out[f].comments \subseteq record[f]
               /\ Cardinality(record[f]) = Cardinality(out[f].comments) + out[f].hidden
               /\ out[f].hidden > 0 =>
                    100 * Cardinality(out[f].comments) < Threshold * Cardinality(record[f])
    <2>1. f \in Focuses /\ out[f].ok /\ record[f] \in SUBSET Anchors
      BY DEF Tallied, TypeOK
    <2>2. /\ out[f].comments = Visible(record[f])
          /\ out[f].hidden = Cardinality(record[f]) - Cardinality(Visible(record[f]))
      BY <2>1 DEF Recorded
    <2>3. Visible(record[f]) \subseteq record[f]
      BY DEF Visible
    <2>4. Cardinality(record[f]) \in Nat /\ Cardinality(Visible(record[f])) \in Nat
      BY <2>1, <2>3, ReviewAssumption, FS_Subset, FS_CardinalityType
    <2>5. Cardinality(record[f]) = Cardinality(out[f].comments) + out[f].hidden
      BY <2>2, <2>4
    <2>6. out[f].hidden > 0 =>
            100 * Cardinality(out[f].comments) < Threshold * Cardinality(record[f])
      BY <2>1, <2>2, HiddenIsNoise
    <2> QED BY <2>2, <2>3, <2>5, <2>6
  <1> QED BY <1>2, <1>3, <1>4, <1>5, <1>6, Zenon

\* What a review of any focuses returns is true of them: one result or error for each, the sums
\* of what the results show and suppress, and a run on file from which a result follows
\* (run_multi_focus_review_with_child, finalize_review_result and signal::percentage).
THEOREM ReportsAreTrue == Spec => []ReportIsTrue
  <1>1. Init => Reported /\ Tallied /\ Recorded
    <2> SUFFICES ASSUME Init PROVE Reported /\ Tallied /\ Recorded
      OBVIOUS
    <2>1. Reported
      BY DEF Init, Reported
    <2>2. Recorded
      BY DEF Init, Recorded, Failure
    <2>3. Count(Shown, {}) = 0 /\ Count(Suppressed, {}) = 0
      BY CountOfNone
    <2>4. Tallied
      BY <2>3 DEF Init, Tallied
    <2> QED BY <2>1, <2>2, <2>4
  <1> QED BY <1>1, TypeCorrect, ReportedStep, TalliedStep, RecordedStep, ReportFollows, PTL DEF Spec
=============================================================================
