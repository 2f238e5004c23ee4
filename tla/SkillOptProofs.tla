--------------------------- MODULE SkillOptProofs ---------------------------
(***************************************************************************)
(* For any number of runs and turns: what an optimization answered stands  *)
(* while no two runs were at their files together, the cache holds the     *)
(* skill of the file but for what is excused, what is staged or adopted is *)
(* the candidate of a run that did better, and a candidate keeps the text  *)
(* of the slow-update region of the body it was made from.                 *)
(*                                                                         *)
(* AnswersStand follows a run through its files: its answer is what it did *)
(* to the file of its verdict, then to the report, and each file is        *)
(* renamed from a temporary one that nobody else has touched.  FilesInv    *)
(* says of a write in two steps what that takes: the file in hand is still *)
(* empty and still under its temporary name.  Of the rest of the state     *)
(* the proofs only need which functions there are.                         *)
(***************************************************************************)
EXTENDS SkillOpt, FiniteSetTheorems, WellFoundedInduction, TLAPS

Shape ==
  /\ disk \in [Files -> SUBSET (Runs \cup {None})]
  /\ temp \in [Files -> {None} \cup SUBSET (Runs \cup {None})]
  /\ handle \in [Runs -> {"none", "temp", "disk", "gone"}]
  /\ pc \in [Runs -> {"idle", "propose", "current", "candidate", "read", "write", "fill", "rename", "ended"}]
  /\ file \in [Runs -> Files]
  /\ seen \in [Runs -> SUBSET (Runs \cup {None})]
  /\ verdict \in [Runs -> {"none", "accept", "reject"}]
  /\ told \in [Runs -> {"nothing", "none", "error", "accept", "reject"}]
  /\ last \in Runs \cup {None}

\* A run that writes has an empty file in hand, unless two runs were at their files together.
FilesInv ==
  /\ Shape
  /\ \A q, r \in Runs : AtFiles(q) /\ AtFiles(r) /\ q # r => tangled
  /\ \A r \in Runs : handle[r] # "none" => pc[r] = "fill"
  /\ \A r \in Runs : pc[r] = "fill" => tangled \/ (handle[r] = "temp" /\ temp[file[r]] = Empty)

\* Before the scores are written the verdict is on disk.
Done(r) ==
  /\ verdict[r] = "reject" => r \in disk["rejected"]
  /\ verdict[r] = "accept" => disk["staged"] = {r}

\* A run at its files: alone, with the file of its verdict, and all that is on record in hand.
AtItsFiles(r) ==
  /\ last = r
  /\ verdict[r] # "none"
  /\ pc[r] = "read" => file[r] = "rejected"
  /\ file[r] = "rejected" => verdict[r] = "reject"
  /\ file[r] = "staged" => verdict[r] = "accept"
  /\ file[r] = "report" => Done(r)
  /\ pc[r] = "rename" => temp[file[r]] = Content(r)
  /\ file[r] = "rejected" /\ pc[r] # "read" =>
       \A q \in Runs : told[q] = "reject" => q \in seen[r]

Inv ==
  /\ FilesInv
  /\ \A r \in Runs : pc[r] # "ended" => told[r] = "nothing"
  /\ ~tangled => (\A r \in Runs : AtFiles(r) => AtItsFiles(r)) /\ AnswersStand

\* What the main thread puts into the cache is what the file says.
CacheInv ==
  /\ DOMAIN at = Loaders /\ DOMAIN got = Loaders
  /\ at["main"] = "insert" => excused \/ got["main"] = skill
  /\ CacheIsFresh

-----------------------------------------------------------------------------
(* Which functions there are *)

LEMMA AnswerShape ==
  ASSUME NEW r \in Runs, NEW what \in {"none", "error", "accept", "reject"}, Shape, Answer(r, what)
  PROVE  /\ pc' \in [Runs -> {"idle", "propose", "current", "candidate", "read", "write",
                              "fill", "rename", "ended"}]
         /\ file' \in [Runs -> Files]
         /\ seen' \in [Runs -> SUBSET (Runs \cup {None})]
         /\ verdict' \in [Runs -> {"none", "accept", "reject"}]
         /\ told' \in [Runs -> {"nothing", "none", "error", "accept", "reject"}]
         /\ pc' = [pc EXCEPT ![r] = "ended"]
         /\ told' = [told EXCEPT ![r] = what]
  BY DEF Shape, Answer, Goto, Files

LEMMA FillsShape ==
  ASSUME Shape, NEW r \in Runs, NEW contents \in SUBSET SUBSET (Runs \cup {None}),
         Fills(r, {Held(r)} \cup contents) \/ Fills(r, contents)
  PROVE  /\ disk' \in [Files -> SUBSET (Runs \cup {None})]
         /\ temp' \in [Files -> {None} \cup SUBSET (Runs \cup {None})]
         /\ handle' = [handle EXCEPT ![r] = "none"]
<1>1. PICK all : Fills(r, all) /\ all \subseteq {Held(r)} \cup contents
  OBVIOUS
<1>2. file[r] \in Files /\ handle' = [handle EXCEPT ![r] = "none"]
  BY <1>1 DEF Shape, Fills
<1>3. CASE handle[r] = "temp"
  <2>1. PICK c \in all : temp' = [temp EXCEPT ![file[r]] = c] /\ disk' = disk
    BY <1>1, <1>3 DEF Fills
  <2>2. c \in {None} \cup SUBSET (Runs \cup {None})
    BY <1>1, <1>2, <1>3 DEF Held, Shape
  <2>3. QED BY <1>2, <2>1, <2>2 DEF Shape
<1>4. CASE handle[r] = "disk"
  <2>1. PICK c \in all : disk' = [disk EXCEPT ![file[r]] = c] /\ temp' = temp
    BY <1>1, <1>4 DEF Fills
  <2>2. c \in SUBSET (Runs \cup {None})
    BY <1>1, <1>2, <1>4 DEF Held, Shape
  <2>3. QED BY <1>2, <2>1, <2>2 DEF Shape
<1>5. CASE handle[r] \notin {"temp", "disk"}
  BY <1>1, <1>2, <1>5 DEF Fills, Shape
<1>6. QED BY <1>3, <1>4, <1>5

LEMMA ContentShape == ASSUME Shape, NEW r \in Runs PROVE Content(r) \in SUBSET (Runs \cup {None})
  BY DEF Shape, Content

LEMMA ShapeStep ==
  ASSUME Shape, [Next]_vars
  PROVE  Shape'
<1>1. ASSUME NEW r \in Runs, Start(r) PROVE Shape'
  <2>1. CASE Answer(r, "error")
    BY <1>1, <2>1, AnswerShape DEF Shape, Start, diskVars
  <2>2. CASE ~Answer(r, "error")
    BY <1>1, <2>2 DEF Shape, Start, diskVars, Goto
  <2>3. QED BY <2>1, <2>2
<1>2. ASSUME NEW r \in Runs, Propose(r) PROVE Shape'
  <2>1. /\ Answer(r, "error") \/ (Goto(r, "current") /\ UNCHANGED <<told, verdict, file, seen>>)
        /\ UNCHANGED <<disk, temp, handle, last>>
    BY <1>2 DEF Propose, diskVars
  <2>2. CASE Answer(r, "error")
    BY <2>1, <2>2, AnswerShape DEF Shape
  <2>3. CASE Goto(r, "current") /\ UNCHANGED <<told, verdict, file, seen>>
    BY <2>1, <2>3 DEF Shape, Goto
  <2>4. QED BY <2>1, <2>2, <2>3
<1>3. ASSUME NEW r \in Runs, ReplayCurrent(r) PROVE Shape'
  BY <1>3 DEF Shape, ReplayCurrent, diskVars, Goto
<1>4. ASSUME NEW r \in Runs, ReplayCandidate(r) PROVE Shape'
  <2>1. /\ \/ /\ verdict' = [verdict EXCEPT ![r] = "accept"]
              /\ file' = [file EXCEPT ![r] = "staged"]
              /\ pc' = [pc EXCEPT ![r] = "write"]
           \/ /\ verdict' = [verdict EXCEPT ![r] = "reject"]
              /\ file' = [file EXCEPT ![r] = "rejected"]
              /\ pc' = [pc EXCEPT ![r] = "read"]
        /\ last' = r
        /\ UNCHANGED <<disk, temp, handle, seen, told>>
    BY <1>4 DEF ReplayCandidate, diskVars, Goto
  <2>2. QED BY <2>1 DEF Shape, Files
<1>5. ASSUME NEW r \in Runs, ModelFails(r) PROVE Shape'
  BY <1>5, AnswerShape DEF Shape, ModelFails, diskVars
<1>6. ASSUME NEW r \in Runs, ReadRejected(r) PROVE Shape'
  BY <1>6 DEF Shape, ReadRejected, diskVars, Goto, Files
<1>7. ASSUME NEW r \in Runs, OpenTemp(r) \/ FillTemp(r) PROVE Shape'
  <2>1. CASE OpenTemp(r)
    BY <2>1 DEF Shape, OpenTemp, Goto, Empty
  <2>2. CASE FillTemp(r)
    <3>1. PICK contents : Fills(r, contents) /\ contents \subseteq {Content(r), Torn}
      BY <2>2 DEF FillTemp
    <3>2. Torn \in SUBSET (Runs \cup {None})
      BY DEF Torn
    <3>3. contents \in SUBSET SUBSET (Runs \cup {None})
      BY <3>1, <3>2, ContentShape
    <3>4. /\ pc' = [pc EXCEPT ![r] = "rename"]
          /\ UNCHANGED <<file, seen, verdict, told, last>>
      BY <2>2 DEF FillTemp, Goto
    <3>5. QED BY <3>1, <3>3, <3>4, FillsShape DEF Shape
  <2>3. QED BY <1>7, <2>1, <2>2
<1>8. ASSUME NEW r \in Runs, Rename(r) PROVE Shape'
  <2>1. /\ disk' \in [Files -> SUBSET (Runs \cup {None})]
        /\ temp' \in [Files -> {None} \cup SUBSET (Runs \cup {None})]
        /\ handle' \in [Runs -> {"none", "temp", "disk", "gone"}]
        /\ last' \in Runs \cup {None}
    BY <1>8 DEF Shape, Rename, Shifts
  <2>2. CASE Answer(r, verdict[r])
    <3>1. verdict[r] \in {"none", "error", "accept", "reject"}
      BY DEF Shape
    <3>2. QED BY <2>1, <2>2, <3>1, AnswerShape DEF Shape
  <2>3. CASE ~Answer(r, verdict[r])
    <3>1. /\ file' = [file EXCEPT ![r] = "report"]
          /\ pc' = [pc EXCEPT ![r] = "write"]
          /\ UNCHANGED <<told, verdict, seen>>
      BY <1>8, <2>3 DEF Rename, Goto
    <3>2. QED BY <2>1, <3>1 DEF Shape, Files
  <2>4. QED BY <2>2, <2>3
<1>9. ASSUME NEW r \in Runs, WriteFails(r) PROVE Shape'
  <2>1. /\ disk' \in [Files -> SUBSET (Runs \cup {None})]
        /\ temp' \in [Files -> {None} \cup SUBSET (Runs \cup {None})]
        /\ handle' \in [Runs -> {"none", "temp", "disk", "gone"}]
    <3>1. CASE UNCHANGED diskVars
      BY <3>1 DEF Shape, diskVars
    <3>2. CASE Fills(r, {Held(r), Torn})
      <4>1. {Torn} \in SUBSET SUBSET (Runs \cup {None}) /\ {Held(r), Torn} = {Held(r)} \cup {Torn}
        BY DEF Torn
      <4>2. PICK torn : torn = {Torn}
        OBVIOUS
      <4>3. torn \in SUBSET SUBSET (Runs \cup {None}) /\ Fills(r, {Held(r)} \cup torn)
        BY <3>2, <4>1, <4>2
      <4>4. QED BY <4>3, FillsShape DEF Shape
    <3>3. CASE /\ temp' = [temp EXCEPT ![file[r]] = None] /\ Shifts(file[r], "gone")
               /\ UNCHANGED disk
      BY <3>3 DEF Shape, Shifts
    <3>4. QED BY <1>9, <3>1, <3>2, <3>3 DEF WriteFails
  <2>2. QED BY <1>9, <2>1, AnswerShape DEF Shape, WriteFails
<1>10. ASSUME UNCHANGED <<diskVars, runVars>> PROVE Shape'
  BY <1>10 DEF Shape, diskVars, runVars
<1>11. CASE Restart
  BY <1>11 DEF Shape, Restart, Files
<1>12. QED
  BY <1>1, <1>2, <1>3, <1>4, <1>5, <1>6, <1>7, <1>8, <1>9, <1>10, <1>11
  DEF Next, Run, Adopt, Reload, Drop, Switch, BeginLoad, Load, Insert, UserEdits, vars

\* A run that is at its files disturbs none but those that are there too.
LEMMA FilesKept ==
  ASSUME FilesInv, Shape', NEW r \in Runs, AtFiles(r), tangled' = tangled,
         \A q \in Runs \ {r} : pc'[q] = pc[q] /\ (handle'[q] # "none" => handle[q] # "none"),
         handle'[r] # "none" => pc'[r] = "fill",
         pc'[r] = "fill" => handle'[r] = "temp" /\ temp'[file'[r]] = Empty
  PROVE  FilesInv'
<1>1. \A q \in Runs : AtFiles(q)' => AtFiles(q)
  BY DEF AtFiles
<1>2. ASSUME NEW q \in Runs, pc'[q] = "fill"
      PROVE  tangled' \/ (handle'[q] = "temp" /\ temp'[file'[q]] = Empty)
  <2>1. CASE q # r
    BY <1>2, <2>1 DEF FilesInv, AtFiles
  <2>2. QED BY <1>2, <2>1
<1>3. QED BY <1>1, <1>2 DEF FilesInv

LEMMA FilesStep ==
  ASSUME FilesInv, [Next]_vars
  PROVE  FilesInv'
<1>1. Shape' /\ Shape
  BY ShapeStep DEF FilesInv
<1>2. ASSUME NEW r \in Runs, NEW place \in {"idle", "propose", "current", "candidate", "read", "write", "ended"},
             pc[r] \in {"idle", "propose", "current", "candidate", "read"},
             pc' = [pc EXCEPT ![r] = place], \A q \in Runs \ {r} : file'[q] = file[q],
             UNCHANGED <<temp, handle>>, tangled => tangled',
             AtFiles(r)' => AtFiles(r) \/ tangled' \/ \A q \in Runs \ {r} : ~AtFiles(q)
      PROVE  FilesInv'
  BY <1>1, <1>2 DEF FilesInv, AtFiles, Shape
<1>3. ASSUME NEW r \in Runs, Start(r) \/ Propose(r) \/ ReplayCurrent(r) \/ ModelFails(r)
      PROVE  FilesInv'
  <2>1. /\ pc[r] \in {"idle", "propose", "current", "candidate"}
        /\ UNCHANGED <<temp, handle, tangled>>
    BY <1>3 DEF Start, Propose, ReplayCurrent, ModelFails, diskVars
  <2>2. PICK place \in {"propose", "current", "candidate", "ended"} :
          pc' = [pc EXCEPT ![r] = place] /\ \A q \in Runs \ {r} : file'[q] = file[q]
    BY <1>1, <1>3 DEF Start, Propose, ReplayCurrent, ModelFails, Goto, Answer, Shape
  <2>3. ~AtFiles(r)'
    BY <1>1, <2>2 DEF AtFiles, Shape
  <2>4. QED BY <1>2, <2>1, <2>2, <2>3
<1>4. ASSUME NEW r \in Runs, ReplayCandidate(r) \/ ReadRejected(r) PROVE FilesInv'
  <2>1. /\ pc[r] \in {"candidate", "read"} /\ UNCHANGED <<temp, handle>>
        /\ \A q \in Runs \ {r} : file'[q] = file[q]
        /\ pc[r] = "candidate" => tangled' = (tangled \/ \E q \in Runs \ {r} : AtFiles(q))
        /\ pc[r] = "read" => tangled' = tangled
    BY <1>1, <1>4 DEF ReplayCandidate, ReadRejected, diskVars, Shape
  <2>2. PICK place \in {"read", "write"} : pc' = [pc EXCEPT ![r] = place]
    BY <1>4 DEF ReplayCandidate, ReadRejected, Goto
  <2>3. pc[r] = "read" => AtFiles(r)
    BY DEF AtFiles
  <2>4. /\ tangled => tangled'
        /\ AtFiles(r)' => AtFiles(r) \/ tangled' \/ \A q \in Runs \ {r} : ~AtFiles(q)
    <3>1. CASE pc[r] = "read"
      BY <2>1, <2>3, <3>1
    <3>2. CASE pc[r] = "candidate"
      <4>1. tangled' = (tangled \/ \E q \in Runs \ {r} : AtFiles(q))
        BY <2>1, <3>2
      <4>2. QED BY <4>1
    <3>3. QED BY <2>1, <3>1, <3>2
  <2>5. QED BY <1>2, <2>1, <2>2, <2>4
<1>5. ASSUME NEW r \in Runs, OpenTemp(r) PROVE FilesInv'
  <2>1. /\ AtFiles(r) /\ UNCHANGED <<file, tangled>>
        /\ pc' = [pc EXCEPT ![r] = "fill"] /\ handle' = [handle EXCEPT ![r] = "temp"]
        /\ temp' = [temp EXCEPT ![file[r]] = Empty]
    BY <1>5 DEF OpenTemp, AtFiles, Goto
  <2>2. pc'[r] = "fill" /\ handle'[r] = "temp" /\ temp'[file'[r]] = Empty
    BY <1>1, <2>1 DEF Shape
  <2>3. \A q \in Runs \ {r} : pc'[q] = pc[q] /\ handle'[q] = handle[q]
    BY <1>1, <2>1 DEF Shape
  <2>4. QED BY <1>1, <2>1, <2>2, <2>3, FilesKept
<1>6. ASSUME NEW r \in Runs, FillTemp(r) PROVE FilesInv'
  <2>1. /\ AtFiles(r) /\ UNCHANGED tangled
        /\ pc' = [pc EXCEPT ![r] = "rename"] /\ handle' = [handle EXCEPT ![r] = "none"]
    BY <1>6 DEF FillTemp, Fills, AtFiles, Goto
  <2>2. pc'[r] = "rename" /\ handle'[r] = "none"
    BY <1>1, <2>1 DEF Shape
  <2>3. \A q \in Runs \ {r} : pc'[q] = pc[q] /\ handle'[q] = handle[q]
    BY <1>1, <2>1 DEF Shape
  <2>4. QED BY <1>1, <2>1, <2>2, <2>3, FilesKept
<1>7. ASSUME NEW r \in Runs, Rename(r) \/ WriteFails(r) PROVE FilesInv'
  <2>1. AtFiles(r) /\ UNCHANGED tangled
    BY <1>7 DEF Rename, WriteFails, AtFiles
  <2>2. PICK place \in {"write", "ended"} : pc' = [pc EXCEPT ![r] = place]
    BY <1>7 DEF Rename, WriteFails, Answer, Goto
  <2>3. pc'[r] # "fill" /\ \A q \in Runs \ {r} : pc'[q] = pc[q]
    BY <1>1, <2>2 DEF Shape
  <2>4. /\ \A q \in Runs : handle'[q] # "none" => handle[q] # "none"
        /\ handle'[r] = "none"
    <3>1. CASE pc[r] = "fill" /\ handle' = [handle EXCEPT ![r] = "none"]
      BY <1>1, <3>1 DEF Shape
    <3>2. CASE pc[r] # "fill" /\ UNCHANGED handle
      BY <1>1, <3>2 DEF FilesInv
    <3>3. ASSUME NEW f, NEW to \in {"disk", "gone"}, pc[r] # "fill", Shifts(f, to)
          PROVE  /\ \A q \in Runs : handle'[q] # "none" => handle[q] # "none"
                 /\ handle'[r] = "none"
      <4>1. handle[r] = "none"
        BY <3>3 DEF FilesInv
      <4>2. QED BY <3>3, <4>1 DEF Shifts
    <3>4. QED BY <1>7, <3>1, <3>2, <3>3 DEF Rename, WriteFails, Fills, diskVars
  <2>5. QED BY <1>1, <2>1, <2>3, <2>4, FilesKept
<1>8. CASE UNCHANGED <<diskVars, runVars>>
  BY <1>1, <1>8 DEF FilesInv, AtFiles, diskVars, runVars
<1>9. CASE Restart
  BY <1>1, <1>9 DEF FilesInv, AtFiles, Restart
<1>10. QED
  BY <1>3, <1>4, <1>5, <1>6, <1>7, <1>8, <1>9
  DEF Next, Run, Adopt, Reload, Drop, Switch, BeginLoad, Load, Insert, UserEdits, vars

LEMMA FilesInit == Init => FilesInv
<1>1. Init => Shape
  BY DEF Init, Shape, Files
<1>2. QED BY <1>1 DEF Init, FilesInv, AtFiles
-----------------------------------------------------------------------------
(* The cache *)

LEMMA CacheStep ==
  ASSUME CacheInv, [Next]_vars
  PROVE  CacheInv'
<1> USE SkillAssumption DEF Loaders
<1>1. CASE UNCHANGED <<skill, cache, at, got, excused>>
  BY <1>1 DEF CacheInv, CacheIsFresh
<1>2. CASE Adopt \/ Reload
  BY <1>2 DEF CacheInv, CacheIsFresh, Adopt, Reload, Moves
<1>3. CASE Drop \/ Switch \/ Restart
  BY <1>3 DEF CacheInv, CacheIsFresh, Drop, Switch, Restart, Moves
<1>4. ASSUME NEW l \in Loaders, BeginLoad(l) PROVE CacheInv'
  BY <1>4 DEF CacheInv, CacheIsFresh, BeginLoad, Moves
<1>5. ASSUME NEW l \in Loaders, Load(l) PROVE CacheInv'
  BY <1>5 DEF CacheInv, CacheIsFresh, Load, Moves
<1>6. ASSUME NEW l \in Loaders, Insert(l) PROVE CacheInv'
  <2>1. CASE l = "main"
    BY <1>6, <2>1 DEF CacheInv, CacheIsFresh, Insert, Moves
  <2>2. CASE l # "main"
    BY <1>6, <2>2 DEF CacheInv, CacheIsFresh, Insert, Moves
  <2>3. QED BY <2>1, <2>2
<1>7. CASE UserEdits
  BY <1>7 DEF CacheInv, CacheIsFresh, UserEdits
<1>8. ASSUME NEW r \in Runs, Run(r) PROVE UNCHANGED <<skill, cache, at, got, excused>>
  BY <1>8 DEF Run, Start, Propose, ReplayCurrent, ReplayCandidate, ModelFails, ReadRejected,
              OpenTemp, FillTemp, Rename, WriteFails, cacheVars
<1>9. QED
  BY <1>1, <1>2, <1>3, <1>4, <1>5, <1>6, <1>7, <1>8 DEF Next, vars, cacheVars

\* Whatever the turns that load the skills beside the main thread do, the cache holds what the
\* file says, but for an edit from outside and for a turn that was overtaken by an adoption
\* between its look into the cache and its insertion.
THEOREM CacheStaysFresh == Spec => []CacheIsFresh
<1>1. Init => CacheInv
  BY DEF Init, CacheInv, CacheIsFresh, Loaders
<1>2. CacheInv /\ [Next]_vars => CacheInv'
  BY CacheStep
<1>3. CacheInv => CacheIsFresh
  BY DEF CacheInv
<1>4. QED BY <1>1, <1>2, <1>3, PTL DEF Spec
-----------------------------------------------------------------------------
(* The answers *)

Settled == (\A r \in Runs : AtFiles(r) => AtItsFiles(r)) /\ AnswersStand

\* A step that goes on with no file and answers nothing but an error changes nothing of it.
LEMMA Quiet ==
  ASSUME Inv, ~tangled, UNCHANGED <<disk, last, tangled>>,
         \A q \in Runs : AtFiles(q)' => /\ AtFiles(q) /\ temp' = temp /\ pc'[q] = pc[q]
                                        /\ file'[q] = file[q] /\ verdict'[q] = verdict[q]
                                        /\ seen'[q] = seen[q],
         \A q \in Runs : told'[q] \in {"accept", "reject"} => told'[q] = told[q]
  PROVE  Settled'
<1>1. AnswersStand'
  <2>1. AnswersStand
    BY DEF Inv
  <2>2. \A q \in Runs : told'[q] = "reject" => q \in disk'["rejected"]
    BY <2>1 DEF AnswersStand
  <2>3. last' # None => last' \in Runs
    BY DEF Inv, FilesInv, Shape
  <2>4. QED BY <2>1, <2>2, <2>3 DEF AnswersStand
<1>2. ASSUME NEW r \in Runs, AtFiles(r)' PROVE AtItsFiles(r)'
  <2>1. AtItsFiles(r) /\ AtFiles(r)
    BY <1>2 DEF Inv
  <2>2. /\ temp' = temp /\ pc'[r] = pc[r] /\ file'[r] = file[r] /\ verdict'[r] = verdict[r]
        /\ seen'[r] = seen[r]
    BY <1>2
  <2>3. Content(r)' = Content(r) /\ (Done(r) <=> Done(r)')
    BY <2>2 DEF Content, Done
  <2>4. \A q \in Runs : told'[q] = "reject" => told[q] = "reject"
    OBVIOUS
  <2>5. QED BY <2>1, <2>2, <2>3, <2>4 DEF AtItsFiles
<1>3. QED BY <1>1, <1>2 DEF Settled

\* A run at its files is alone there.
LEMMA Alone ==
  ASSUME Inv, ~tangled, NEW r \in Runs, AtFiles(r)
  PROVE  /\ AtItsFiles(r) /\ last = r /\ told[r] = "nothing"
         /\ \A q \in Runs : AtFiles(q) => q = r
  BY DEF Inv, AtItsFiles, AtFiles

LEMMA BeforeTheFiles ==
  ASSUME Inv, ~tangled, NEW r \in Runs,
         Start(r) \/ Propose(r) \/ ReplayCurrent(r) \/ ModelFails(r)
  PROVE  Settled'
<1>1. /\ ~AtFiles(r) /\ UNCHANGED <<disk, temp, last, tangled>>
  BY DEF Start, Propose, ReplayCurrent, ModelFails, AtFiles, diskVars
<1>2. \/ Answer(r, "error")
      \/ /\ \E place \in {"propose", "current", "candidate"} : pc' = [pc EXCEPT ![r] = place]
         /\ UNCHANGED <<told, verdict, file, seen>>
  BY DEF Start, Propose, ReplayCurrent, ModelFails, Goto
<1>3. CASE Answer(r, "error")
  BY <1>1, <1>3, Quiet DEF Answer, Goto, AtFiles, Inv, FilesInv, Shape
<1>4. CASE /\ \E place \in {"propose", "current", "candidate"} : pc' = [pc EXCEPT ![r] = place]
           /\ UNCHANGED <<told, verdict, file, seen>>
  BY <1>1, <1>4, Quiet DEF AtFiles, Inv, FilesInv, Shape
<1>5. QED BY <1>2, <1>3, <1>4

LEMMA ToTheFiles ==
  ASSUME Inv, ~tangled', NEW r \in Runs, ReplayCandidate(r)
  PROVE  Settled'
<1>1. /\ \/ /\ verdict' = [verdict EXCEPT ![r] = "accept"]
            /\ file' = [file EXCEPT ![r] = "staged"]
            /\ pc' = [pc EXCEPT ![r] = "write"]
         \/ /\ verdict' = [verdict EXCEPT ![r] = "reject"]
            /\ file' = [file EXCEPT ![r] = "rejected"]
            /\ pc' = [pc EXCEPT ![r] = "read"]
      /\ last' = r /\ pc[r] = "candidate"
      /\ UNCHANGED <<disk, temp, seen, told>>
  BY DEF ReplayCandidate, diskVars, Goto
<1>2. ~tangled /\ \A q \in Runs \ {r} : ~AtFiles(q)
  BY DEF ReplayCandidate
<1>3. told[r] = "nothing"
  BY <1>1 DEF Inv
<1>4. AnswersStand'
  BY <1>1, <1>2, <1>3 DEF Inv, AnswersStand
<1>5. ASSUME NEW q \in Runs, AtFiles(q)' PROVE AtItsFiles(q)'
  <2>1. q = r
    BY <1>1, <1>2, <1>5 DEF AtFiles, Inv, FilesInv, Shape
  <2>2. QED BY <1>1, <2>1 DEF AtItsFiles, Inv, FilesInv, Shape
<1>6. QED BY <1>4, <1>5 DEF Settled

LEMMA RejectionsAreRead ==
  ASSUME Inv, ~tangled, NEW r \in Runs, ReadRejected(r)
  PROVE  Settled'
<1>1. AtFiles(r) /\ pc[r] = "read" /\ pc' = [pc EXCEPT ![r] = "write"]
  BY DEF ReadRejected, AtFiles, Goto
<1>2. AtItsFiles(r) /\ \A q \in Runs : AtFiles(q) => q = r
  BY <1>1, Alone
<1>3. UNCHANGED <<disk, temp, verdict, file, told, tangled, last>>
  BY DEF ReadRejected, diskVars
<1>4. AnswersStand /\ AnswersStand'
  BY <1>3 DEF Inv, AnswersStand
<1>5. \A q \in Runs : told[q] = "reject" => q \in seen'[r]
  <2>1. \A q \in Runs : told[q] = "reject" => q \in disk["rejected"]
    BY <1>4 DEF AnswersStand
  <2>2. seen'[r] = IF disk["rejected"] = Torn THEN {} ELSE disk["rejected"]
    BY DEF ReadRejected, Inv, FilesInv, Shape
  <2>3. QED BY <2>1, <2>2, SkillAssumption DEF Torn
<1>6. ASSUME NEW q \in Runs, AtFiles(q)' PROVE AtItsFiles(q)'
  <2>1. q = r
    BY <1>1, <1>2, <1>6 DEF AtFiles, Inv, FilesInv, Shape
  <2>2. pc'[r] = "write"
    BY <1>1 DEF Inv, FilesInv, Shape
  <2>3. QED BY <1>1, <1>2, <1>3, <1>5, <2>1, <2>2 DEF AtItsFiles, Done
<1>7. QED BY <1>4, <1>6 DEF Settled

LEMMA TempIsOpened ==
  ASSUME Inv, ~tangled, NEW r \in Runs, OpenTemp(r)
  PROVE  Settled'
<1>1. AtFiles(r) /\ pc[r] = "write" /\ pc' = [pc EXCEPT ![r] = "fill"]
  BY DEF OpenTemp, AtFiles, Goto
<1>2. AtItsFiles(r) /\ \A q \in Runs : AtFiles(q) => q = r
  BY <1>1, Alone
<1>3. UNCHANGED <<disk, verdict, file, seen, told, tangled, last>>
  BY DEF OpenTemp
<1>4. AnswersStand'
  BY <1>3 DEF Inv, AnswersStand
<1>5. ASSUME NEW q \in Runs, AtFiles(q)' PROVE AtItsFiles(q)'
  <2>1. q = r
    BY <1>1, <1>2, <1>5 DEF AtFiles, Inv, FilesInv, Shape
  <2>2. pc'[r] = "fill"
    BY <1>1 DEF Inv, FilesInv, Shape
  <2>3. QED BY <1>1, <1>2, <1>3, <2>1, <2>2 DEF AtItsFiles, Done
<1>6. QED BY <1>4, <1>5 DEF Settled

LEMMA TempIsFilled ==
  ASSUME Inv, ~tangled, NEW r \in Runs, FillTemp(r)
  PROVE  Settled'
<1>1. AtFiles(r) /\ pc[r] = "fill" /\ pc' = [pc EXCEPT ![r] = "rename"]
  BY DEF FillTemp, AtFiles, Goto
<1>2. AtItsFiles(r) /\ \A q \in Runs : AtFiles(q) => q = r
  BY <1>1, Alone
<1>3. handle[r] = "temp" /\ Held(r) = Empty
  BY <1>1 DEF Inv, FilesInv, Held
<1>4. disk' = disk /\ temp' = [temp EXCEPT ![file[r]] = Content(r)]
  BY <1>3 DEF FillTemp, Fills
<1>5. UNCHANGED <<disk, verdict, file, seen, told, tangled, last>>
  BY <1>4 DEF FillTemp
<1>6. AnswersStand'
  BY <1>5 DEF Inv, AnswersStand
<1>7. temp'[file[r]] = Content(r) /\ Content(r)' = Content(r)
  BY <1>4, <1>5 DEF Content, Inv, FilesInv, Shape
<1>8. ASSUME NEW q \in Runs, AtFiles(q)' PROVE AtItsFiles(q)'
  <2>1. q = r
    BY <1>1, <1>2, <1>8 DEF AtFiles, Inv, FilesInv, Shape
  <2>2. pc'[r] = "rename"
    BY <1>1 DEF Inv, FilesInv, Shape
  <2>3. QED BY <1>1, <1>2, <1>5, <1>7, <2>1, <2>2 DEF AtItsFiles, Done
<1>9. QED BY <1>6, <1>8 DEF Settled

LEMMA FileIsRenamed ==
  ASSUME Inv, ~tangled, NEW r \in Runs, Rename(r)
  PROVE  Settled'
<1>1. AtFiles(r) /\ pc[r] = "rename"
  BY DEF Rename, AtFiles
<1>2. /\ AtItsFiles(r) /\ last = r /\ told[r] = "nothing"
      /\ \A q \in Runs : AtFiles(q) => q = r
  BY <1>1, Alone
<1>3. disk' = [disk EXCEPT ![file[r]] = Content(r)] /\ file[r] \in Files
  BY <1>1, <1>2 DEF Rename, AtItsFiles, Inv, FilesInv, Shape
<1>4. AnswersStand /\ UNCHANGED <<tangled, last>>
  BY DEF Inv, Rename
<1>5. CASE file[r] = "report"
  <2>1. /\ pc' = [pc EXCEPT ![r] = "ended"] /\ told' = [told EXCEPT ![r] = verdict[r]]
        /\ Done(r)
    BY <1>1, <1>2, <1>5 DEF Rename, Answer, Goto, AtItsFiles
  <2>2. disk'["report"] = {r} /\ disk'["staged"] = disk["staged"]
        /\ disk'["rejected"] = disk["rejected"]
    BY <1>3, <1>5 DEF Content, Inv, FilesInv, Shape, Files
  <2>3. told'[r] = verdict[r] /\ \A q \in Runs \ {r} : told'[q] = told[q]
    BY <2>1 DEF Inv, FilesInv, Shape
  <2>4. AnswersStand'
    BY <1>2, <1>4, <2>1, <2>2, <2>3 DEF AnswersStand, Done
  <2>5. \A q \in Runs : ~AtFiles(q)'
    BY <1>2, <2>1 DEF AtFiles, Inv, FilesInv, Shape
  <2>6. QED BY <2>4, <2>5 DEF Settled
<1>6. CASE file[r] # "report"
  <2>1. /\ pc' = [pc EXCEPT ![r] = "write"] /\ file' = [file EXCEPT ![r] = "report"]
        /\ UNCHANGED <<told, verdict, seen>>
    BY <1>6 DEF Rename, Goto
  <2>2. pc'[r] = "write" /\ file'[r] = "report"
    BY <2>1 DEF Inv, FilesInv, Shape
  <2>3. disk'["report"] = disk["report"]
    BY <1>3, <1>6 DEF Inv, FilesInv, Shape, Files
  <2>4. ASSUME file[r] = "rejected" PROVE AnswersStand' /\ Done(r)'
    <3>1. disk'["rejected"] = seen[r] \cup {r} /\ verdict[r] = "reject"
      BY <1>2, <1>3, <2>4 DEF Content, AtItsFiles, Inv, FilesInv, Shape, Files
    <3>2. \A q \in Runs : told[q] = "reject" => q \in seen[r]
      BY <1>1, <1>2, <2>4 DEF AtItsFiles
    <3>3. AnswersStand'
      BY <1>2, <1>4, <2>1, <3>1, <3>2 DEF AnswersStand
    <3>4. Done(r)'
      BY <2>1, <3>1 DEF Done
    <3>5. QED BY <3>3, <3>4
  <2>5. ASSUME file[r] = "staged" PROVE AnswersStand' /\ Done(r)'
    <3>1. disk'["staged"] = {r} /\ disk'["rejected"] = disk["rejected"] /\ verdict[r] = "accept"
      BY <1>2, <1>3, <2>5 DEF Content, AtItsFiles, Inv, FilesInv, Shape, Files
    <3>2. AnswersStand'
      BY <1>2, <1>4, <2>1, <3>1 DEF AnswersStand
    <3>3. Done(r)'
      BY <2>1, <3>1 DEF Done
    <3>4. QED BY <3>2, <3>3
  <2>6. AnswersStand' /\ Done(r)'
    BY <1>3, <1>6, <2>4, <2>5 DEF Files
  <2>7. ASSUME NEW q \in Runs, AtFiles(q)' PROVE AtItsFiles(q)'
    <3>1. q = r
      BY <1>2, <2>1, <2>7 DEF AtFiles, Inv, FilesInv, Shape
    <3>2. verdict'[r] # "none" /\ last' = r
      BY <1>2, <1>4, <2>1 DEF AtItsFiles
    <3>3. QED BY <2>2, <2>6, <3>1, <3>2 DEF AtItsFiles
  <2>8. QED BY <2>6, <2>7 DEF Settled
<1>7. QED BY <1>5, <1>6

LEMMA WriteIsGivenUp ==
  ASSUME Inv, ~tangled, NEW r \in Runs, WriteFails(r)
  PROVE  Settled'
<1>1. AtFiles(r) /\ Answer(r, "error") /\ UNCHANGED <<disk, last, tangled>>
  <2>1. handle[r] # "disk"
    BY DEF Inv, FilesInv
  <2>2. QED BY <2>1 DEF WriteFails, AtFiles, Fills, diskVars
<1>2. \A q \in Runs : AtFiles(q) => q = r
  BY <1>1, Alone
<1>3. \A q \in Runs : ~AtFiles(q)'
  BY <1>1, <1>2 DEF Answer, Goto, AtFiles, Inv, FilesInv, Shape
<1>4. \A q \in Runs : told'[q] \in {"accept", "reject"} => told'[q] = told[q]
  BY <1>1 DEF Answer, Inv, FilesInv, Shape
<1>5. QED BY <1>1, <1>3, <1>4, Quiet

LEMMA Elsewhere ==
  ASSUME Inv, ~tangled, Restart \/ UNCHANGED <<diskVars, runVars>>
  PROVE  Settled'
<1>1. CASE Restart
  BY <1>1, Quiet DEF Restart, AtFiles, Inv, FilesInv, Shape
<1>2. CASE UNCHANGED <<diskVars, runVars>>
  BY <1>2, Quiet DEF diskVars, runVars, AtFiles
<1>3. QED BY <1>1, <1>2

LEMMA UntoldStep ==
  ASSUME Inv, [Next]_vars
  PROVE  \A q \in Runs : pc'[q] # "ended" => told'[q] = "nothing"
<1>1. \/ \E r \in Runs, what \in {"none", "error", "accept", "reject"} : Answer(r, what)
      \/ \E r \in Runs, place \in {"propose", "current", "candidate", "read", "write", "fill", "rename"} :
           pc[r] # "ended" /\ pc' = [pc EXCEPT ![r] = place] /\ told' = told
      \/ Restart
      \/ UNCHANGED <<pc, told>>
  <2>1. ASSUME NEW r \in Runs, Run(r)
        PROVE  \/ \E what \in {"none", "error", "accept", "reject"} : Answer(r, what)
               \/ \E place \in {"propose", "current", "candidate", "read", "write", "fill", "rename"} :
                    pc[r] # "ended" /\ pc' = [pc EXCEPT ![r] = place] /\ told' = told
    <3>1. CASE Start(r) \/ Propose(r) \/ ReplayCurrent(r) \/ ModelFails(r)
      BY <3>1 DEF Start, Propose, ReplayCurrent, ModelFails, Goto
    <3>2. CASE ReplayCandidate(r) \/ ReadRejected(r) \/ OpenTemp(r) \/ FillTemp(r) \/ WriteFails(r)
      BY <3>2 DEF ReplayCandidate, ReadRejected, OpenTemp, FillTemp, WriteFails, Goto
    <3>3. CASE Rename(r)
      <4>1. verdict[r] \in {"none", "error", "accept", "reject"}
        BY DEF Inv, FilesInv, Shape
      <4>2. QED BY <3>3, <4>1 DEF Rename, Goto
    <3>4. QED BY <2>1, <3>1, <3>2, <3>3 DEF Run
  <2>2. (\E r \in Runs : Run(r)) \/ Restart \/ UNCHANGED <<pc, told>>
    BY DEF Next, Adopt, Reload, Drop, Switch, BeginLoad, Load, Insert, UserEdits, vars, runVars
  <2>3. QED BY <2>1, <2>2
<1>2. CASE \E r \in Runs, what \in {"none", "error", "accept", "reject"} : Answer(r, what)
  BY <1>2 DEF Answer, Goto, Inv, FilesInv, Shape
<1>3. CASE \E r \in Runs, place \in {"propose", "current", "candidate", "read", "write", "fill", "rename"} :
             pc[r] # "ended" /\ pc' = [pc EXCEPT ![r] = place] /\ told' = told
  BY <1>3 DEF Inv, FilesInv, Shape
<1>4. CASE Restart \/ UNCHANGED <<pc, told>>
  BY <1>4 DEF Restart, Inv, FilesInv, Shape
<1>5. QED BY <1>1, <1>2, <1>3, <1>4

LEMMA InvStep ==
  ASSUME Inv, [Next]_vars
  PROVE  Inv'
<1>1. FilesInv'
  BY FilesStep DEF Inv
<1>2. ASSUME ~tangled' PROVE Settled'
  <2>1. ASSUME NEW r \in Runs, ReplayCandidate(r) PROVE Settled'
    BY <1>2, <2>1, ToTheFiles
  <2>2. ASSUME NEW r \in Runs, Run(r) PROVE Settled'
    <3>1. CASE Start(r) \/ Propose(r) \/ ReplayCurrent(r) \/ ModelFails(r)
      <4>1. ~tangled
        BY <1>2, <3>1 DEF Start, Propose, ReplayCurrent, ModelFails
      <4>2. QED BY <3>1, <4>1, BeforeTheFiles
    <3>2. CASE ReadRejected(r) \/ OpenTemp(r) \/ FillTemp(r) \/ Rename(r) \/ WriteFails(r)
      <4>1. ~tangled
        BY <1>2, <3>2 DEF ReadRejected, OpenTemp, FillTemp, Rename, WriteFails
      <4>2. QED BY <3>2, <4>1, RejectionsAreRead, TempIsOpened, TempIsFilled, FileIsRenamed, WriteIsGivenUp
    <3>3. QED BY <2>1, <2>2, <3>1, <3>2 DEF Run
  <2>3. CASE Restart \/ UNCHANGED <<diskVars, runVars>>
    <3>1. ~tangled
      BY <1>2, <2>3 DEF Restart, runVars
    <3>2. QED BY <2>3, <3>1, Elsewhere
  <2>4. QED
    BY <2>2, <2>3
    DEF Next, Adopt, Reload, Drop, Switch, BeginLoad, Load, Insert, UserEdits, vars
<1>3. QED BY <1>1, <1>2, UntoldStep DEF Inv, Settled

\* However many runs there are, and whatever fails or is cut off: as long as no two of them were
\* at their files together, a rejection that was answered is on record, and what the panel shows
\* is what the last run at its files answered.
THEOREM AnswersHold == Spec => []AnswersStand
<1>1. Init => Inv
  <2>1. Init => FilesInv
    BY FilesInit
  <2>2. Init => AnswersStand /\ \A r \in Runs : ~AtFiles(r) /\ told[r] = "nothing"
    BY DEF Init, AnswersStand, AtFiles
  <2>3. QED BY <2>1, <2>2 DEF Inv
<1>2. Inv /\ [Next]_vars => Inv'
  BY InvStep
<1>3. Inv /\ ~tangled => AnswersStand
  BY DEF Inv
<1>4. Inv => AnswersStand
  BY <1>3 DEF AnswersStand
<1>5. QED BY <1>1, <1>2, <1>4, PTL DEF Spec
-----------------------------------------------------------------------------
(* Sums *)

(***************************************************************************)
(* The gate compares sums of scores, and the tally it is held against is   *)
(* the sum of their differences.  A sum is counted here as the number of   *)
(* units when every member has as many as it adds, and is shown to be what *)
(* MapThenSumSet makes of it by a look at the smallest subset for which it *)
(* would not.                                                              *)
(***************************************************************************)

\* w[x] units for every x of a set, and how many they are.
Units(w, s) == {t \in s \X Nat : t[2] \in 1..w[t[1]]}
Count(w, s) == Cardinality(Units(w, s))

LEMMA UpTo == ASSUME NEW n \in Nat PROVE IsFiniteSet(1..n) /\ Cardinality(1..n) = n
  <1>1. IsFiniteSet(1..n) /\ Cardinality(1..n) = IF 1 > n THEN 0 ELSE n - 1 + 1
    BY FS_Interval, SMTT(30)
  <1> QED BY <1>1

\* The set without one of its members has the units of the others.
LEMMA UnitsOfOne ==
  ASSUME NEW S, NEW w \in [S -> Nat], NEW s \in SUBSET S, NEW x \in s, IsFiniteSet(Units(w, s \ {x}))
  PROVE  /\ IsFiniteSet(Units(w, s))
         /\ Count(w, s) = w[x] + Count(w, s \ {x})
  <1> DEFINE rest == Units(w, s \ {x})
             own == {x} \X (1..w[x])
  <1>1. w[x] \in Nat /\ IsFiniteSet({x}) /\ Cardinality({x}) = 1
    BY FS_Singleton
  <1>2. IsFiniteSet(1..w[x]) /\ Cardinality(1..w[x]) = w[x]
    BY <1>1, UpTo, Zenon
  <1>3. IsFiniteSet(own) /\ Cardinality(own) = w[x]
    <2>1. IsFiniteSet(own) /\ Cardinality(own) = Cardinality({x}) * Cardinality(1..w[x])
      BY <1>1, <1>2, FS_Product, ZenonT(60)
    <2> HIDE DEF own
    <2>2. Cardinality(own) = 1 * w[x]
      BY <1>1, <1>2, <2>1, Zenon
    <2> QED BY <1>1, <2>1, <2>2
  <1>4. Units(w, s) = rest \cup own /\ rest \cap own = {}
    BY <1>1 DEF Units
  <1> HIDE DEF own, rest
  <1>5. IsFiniteSet(rest)
    BY DEF rest
  <1>6. /\ IsFiniteSet(rest \cup own)
        /\ Cardinality(rest \cup own) = Cardinality(rest) + Cardinality(own) - Cardinality(rest \cap own)
    BY <1>3, <1>5, FS_Union
  <1>7. Cardinality(rest \cap own) = 0 /\ Cardinality(rest) \in Nat
    BY <1>4, <1>5, FS_EmptySet, FS_CardinalityType
  <1>8. Count(w, s) = Cardinality(rest) + Cardinality(own) - 0
    BY <1>4, <1>6, <1>7, Zenon DEF Count
  <1> QED BY <1>1, <1>3, <1>4, <1>6, <1>7, <1>8 DEF Count, rest

\* A property of a set that is finite, for which one looks at the smallest subsets that lack it.
LEMMA SmallestSubset ==
  ASSUME NEW S, IsFiniteSet(S), NEW T \in SUBSET (SUBSET S), T # {}
  PROVE  \E s \in T : \A r \in T : r \subseteq s => r = s
  <1>1. IsWellFoundedOn(StrictSubsetOrdering(S), SUBSET S)
    BY FS_StrictSubsetOrderingWellFounded, FS_FiniteSubsetsOfFinite
  <1>2. PICK s \in T : \A r \in T : ~(<<r, s>> \in StrictSubsetOrdering(S))
    BY <1>1, WFMin
  <1>3. \A r \in T : r \subseteq s => r = s
    BY <1>2 DEF StrictSubsetOrdering
  <1> QED BY <1>3

LEMMA CountType ==
  ASSUME NEW S, IsFiniteSet(S), NEW w \in [S -> Nat], NEW s \in SUBSET S
  PROVE  IsFiniteSet(Units(w, s)) /\ Count(w, s) \in Nat
  <1> DEFINE T == {r \in SUBSET S : ~IsFiniteSet(Units(w, r))}
  <1>1. T = {}
    <2> SUFFICES ASSUME T # {} PROVE FALSE
      OBVIOUS
    <2>1. PICK r \in T : \A q \in T : q \subseteq r => q = r
      <3>1. T \in SUBSET (SUBSET S)
        OBVIOUS
      <3> HIDE DEF T
      <3> QED BY <3>1, SmallestSubset
    <2>2. r # {}
      <3>1. Units(w, {}) = {}
        BY DEF Units
      <3> QED BY <3>1, FS_EmptySet
    <2>3. PICK x \in r : TRUE
      BY <2>2
    <2>4. r \ {x} \notin T
      BY <2>1, <2>3
    <2>5. IsFiniteSet(Units(w, r \ {x}))
      BY <2>4
    <2>6. IsFiniteSet(Units(w, r))
      BY <2>5, UnitsOfOne
    <2> QED BY <2>6
  <1>2. IsFiniteSet(Units(w, s))
    BY <1>1
  <1> QED BY <1>2, FS_CardinalityType DEF Count

LEMMA CountOfNone == ASSUME NEW w PROVE Count(w, {}) = 0
  <1>1. Units(w, {}) = {}
    BY DEF Units
  <1> QED BY <1>1, FS_EmptySet DEF Count

\* What MapThenSumSet does, one member after the other.
Step(g, w, S) ==
  [s \in SUBSET S |-> IF s = {} THEN 0 ELSE LET x == CHOOSE x \in s : TRUE IN w[x] + g[s \ {x}]]

\* Weights that are differences: what two counts differ by is what is summed up.
Diff(a, b, s) == Count(a, s) - Count(b, s)

LEMMA DiffSteps ==
  ASSUME NEW S, IsFiniteSet(S), NEW a \in [S -> Nat], NEW b \in [S -> Nat], NEW w \in [S -> Int],
         \A x \in S : w[x] = a[x] - b[x], NEW s \in SUBSET S, s # {}, NEW x \in s
  PROVE  Diff(a, b, s) = w[x] + Diff(a, b, s \ {x})
  <1>1. /\ Count(a, s) = a[x] + Count(a, s \ {x}) /\ Count(b, s) = b[x] + Count(b, s \ {x})
    <2>1. IsFiniteSet(Units(a, s \ {x})) /\ IsFiniteSet(Units(b, s \ {x}))
      BY CountType
    <2> QED BY <2>1, UnitsOfOne
  <1>2. Count(a, s \ {x}) \in Nat /\ Count(b, s \ {x}) \in Nat
    BY CountType
  <1>3. a[x] \in Nat /\ b[x] \in Nat /\ w[x] = a[x] - b[x]
    OBVIOUS
  <1> QED BY <1>1, <1>2, <1>3 DEF Diff

LEMMA DiffExists ==
  ASSUME NEW S, IsFiniteSet(S), NEW a \in [S -> Nat], NEW b \in [S -> Nat], NEW w \in [S -> Int],
         \A x \in S : w[x] = a[x] - b[x]
  PROVE  \E g : g = Step(g, w, S)
  <1> DEFINE g == [s \in SUBSET S |-> Diff(a, b, s)]
  <1>1. ASSUME NEW s \in SUBSET S
        PROVE  g[s] = IF s = {} THEN 0 ELSE LET x == CHOOSE x \in s : TRUE IN w[x] + g[s \ {x}]
    <2>1. CASE s = {}
      BY <2>1, CountOfNone DEF Diff
    <2>2. CASE s # {}
      <3> DEFINE x == CHOOSE x \in s : TRUE
      <3>1. x \in s
        BY <2>2
      <3> HIDE DEF x
      <3>2. Diff(a, b, s) = w[x] + Diff(a, b, s \ {x})
        BY <2>2, <3>1, DiffSteps
      <3>3. g[s] = w[x] + g[s \ {x}]
        BY <3>2
      <3> QED BY <2>2, <3>3 DEF x
    <2> QED BY <2>1, <2>2
  <1>2. g = Step(g, w, S)
    BY <1>1 DEF Step
  <1> QED BY <1>2

LEMMA StepsDiff ==
  ASSUME NEW S, IsFiniteSet(S), NEW a \in [S -> Nat], NEW b \in [S -> Nat], NEW w \in [S -> Int],
         \A x \in S : w[x] = a[x] - b[x], NEW g, g = Step(g, w, S)
  PROVE  g[S] = Diff(a, b, S)
  <1> DEFINE T == {r \in SUBSET S : g[r] # Diff(a, b, r)}
  <1>1. T = {}
    <2> SUFFICES ASSUME T # {} PROVE FALSE
      OBVIOUS
    <2>1. PICK r \in T : \A q \in T : q \subseteq r => q = r
      <3>1. T \in SUBSET (SUBSET S)
        OBVIOUS
      <3> HIDE DEF T
      <3> QED BY <3>1, SmallestSubset
    <2>2. g[r] = IF r = {} THEN 0 ELSE LET x == CHOOSE x \in r : TRUE IN w[x] + g[r \ {x}]
      <3>1. g = [s \in SUBSET S |-> IF s = {} THEN 0
                                   ELSE LET x == CHOOSE x \in s : TRUE IN w[x] + g[s \ {x}]]
        BY Zenon DEF Step
      <3> HIDE DEF T
      <3>2. r \in SUBSET S
        BY DEF T
      <3> QED BY <3>1, <3>2, Zenon
    <2>3. r # {}
      BY <2>2, CountOfNone DEF Diff
    <2> DEFINE x == CHOOSE x \in r : TRUE
    <2>4. x \in r
      BY <2>3
    <2>5. g[r] = w[x] + g[r \ {x}]
      BY <2>2, <2>3
    <2> HIDE DEF x
    <2>6. r \ {x} \notin T
      BY <2>1, <2>4
    <2>7. g[r \ {x}] = Diff(a, b, r \ {x})
      BY <2>6
    <2>8. Diff(a, b, r) = w[x] + Diff(a, b, r \ {x})
      BY <2>3, <2>4, DiffSteps
    <2> QED BY <2>5, <2>7, <2>8
  <1> QED BY <1>1

\* The scores of what was graded in a replay.
Scores(statuses, set) == [i \in set |-> Score(statuses[i])]
Nothing(set) == [i \in set |-> 0]

LEMMA ScoreType == ASSUME NEW status PROVE Score(status) \in Nat
  BY DEF Score

\* The total of a replay in the form in which the gate states it.
LEMMA TotalIsDiff ==
  ASSUME NEW set, IsFiniteSet(set), NEW statuses
  PROVE  MapThenSumSet(LAMBDA i : Score(statuses[i]), set)
           = Diff(Scores(statuses, set), Nothing(set), set)
  <1> DEFINE w == Scores(statuses, set)
             Sum(g) == [s \in SUBSET set |->
                          IF s = {} THEN 0
                          ELSE LET x == CHOOSE x \in s : TRUE IN Score(statuses[x]) + g[s \ {x}]]
             g0 == CHOOSE g : g = Sum(g)
  <1>1. /\ w \in [set -> Nat] /\ w \in [set -> Int] /\ Nothing(set) \in [set -> Nat]
        /\ \A i \in set : w[i] = w[i] - Nothing(set)[i]
    BY ScoreType DEF Scores, Nothing
  <1>2. MapThenSumSet(LAMBDA i : Score(statuses[i]), set) = g0[set]
    BY DEF MapThenSumSet, MapThenFoldSet
  <1>3. ASSUME NEW g PROVE Step(g, w, set) = Sum(g)
    <2>1. ASSUME NEW s \in SUBSET set, s # {}
          PROVE  w[CHOOSE x \in s : TRUE] = Score(statuses[CHOOSE x \in s : TRUE])
      <3>1. (CHOOSE x \in s : TRUE) \in s
        BY <2>1
      <3>2. (CHOOSE x \in s : TRUE) \in set
        BY <3>1
      <3> QED BY <3>2, Zenon DEF Scores
    <2> HIDE DEF w
    <2> QED BY <2>1 DEF Step
  <1> HIDE DEF w
  <1>4. g0 = Sum(g0)
    <2>1. \E g : g = Sum(g)
      <3> HIDE DEF Sum
      <3> QED BY <1>1, <1>3, DiffExists
    <2> HIDE DEF Sum
    <2> QED BY <2>1
  <1>5. g0 = Step(g0, w, set)
    <2> HIDE DEF Sum, g0
    <2> QED BY <1>3, <1>4
  <1> HIDE DEF g0
  <1>6. g0[set] = Diff(w, Nothing(set), set)
    BY <1>1, <1>5, StepsDiff
  <1> QED BY <1>2, <1>6 DEF w

\* The tally of the differences is the difference of the totals.
LEMMA GainIsDiff ==
  ASSUME NEW set, IsFiniteSet(set), NEW current, NEW candidate
  PROVE  MapThenSumSet(LAMBDA i : Score(candidate[i]) - Score(current[i]), set)
           = Diff(Scores(candidate, set), Scores(current, set), set)
  <1> DEFINE a == Scores(candidate, set)
             b == Scores(current, set)
             w == [i \in set |-> Score(candidate[i]) - Score(current[i])]
             Sum(g) == [s \in SUBSET set |->
                          IF s = {} THEN 0
                          ELSE LET x == CHOOSE x \in s : TRUE
                               IN (Score(candidate[x]) - Score(current[x])) + g[s \ {x}]]
             g0 == CHOOSE g : g = Sum(g)
  <1>1. /\ w \in [set -> Int] /\ a \in [set -> Nat] /\ b \in [set -> Nat]
        /\ \A i \in set : w[i] = a[i] - b[i]
    BY ScoreType DEF Scores
  <1>2. MapThenSumSet(LAMBDA i : Score(candidate[i]) - Score(current[i]), set) = g0[set]
    BY DEF MapThenSumSet, MapThenFoldSet
  <1>3. ASSUME NEW g PROVE Step(g, w, set) = Sum(g)
    <2>1. ASSUME NEW s \in SUBSET set, s # {}
          PROVE  w[CHOOSE x \in s : TRUE]
                   = Score(candidate[CHOOSE x \in s : TRUE]) - Score(current[CHOOSE x \in s : TRUE])
      <3>1. (CHOOSE x \in s : TRUE) \in s
        BY <2>1
      <3>2. (CHOOSE x \in s : TRUE) \in set
        BY <3>1
      <3> QED BY <3>2, Zenon
    <2> HIDE DEF w
    <2> QED BY <2>1 DEF Step
  <1> HIDE DEF w, a, b
  <1>4. g0 = Sum(g0)
    <2>1. \E g : g = Sum(g)
      <3> HIDE DEF Sum
      <3> QED BY <1>1, <1>3, DiffExists
    <2> HIDE DEF Sum
    <2> QED BY <2>1
  <1>5. g0 = Step(g0, w, set)
    <2> HIDE DEF Sum, g0
    <2> QED BY <1>3, <1>4
  <1> HIDE DEF g0
  <1>6. g0[set] = Diff(a, b, set)
    BY <1>1, <1>5, StepsDiff
  <1> QED BY <1>2, <1>6 DEF a, b
-----------------------------------------------------------------------------
(* What is adopted *)

\* The gate accepts a candidate that did better where both were graded, and no other.
LEMMA GateIsGain ==
  ASSUME NEW n \in Nat, NEW current \in [1..n -> Statuses], NEW candidate \in [1..n -> Statuses]
  PROVE  Gate(current, candidate) <=> Gain(current, candidate) > 0
  <1> DEFINE Graded == {i \in DOMAIN current : "unavailable" \notin {current[i], candidate[i]}}
             graded == {i \in DOMAIN current :
                          current[i] # "unavailable" /\ candidate[i] # "unavailable"}
             a == Scores(candidate, Graded)
             b == Scores(current, Graded)
             z == Nothing(Graded)
  <1>1. Graded = graded
    OBVIOUS
  <1>2. IsFiniteSet(Graded)
    <2>1. IsFiniteSet(1..n)
      BY FS_Interval
    <2>2. Graded \subseteq 1..n
      OBVIOUS
    <2> QED BY <2>1, <2>2, FS_Subset
  <1>3. Gate(current, candidate) <=>
          Graded # {} /\ MapThenSumSet(LAMBDA i : Score(candidate[i]), Graded)
                           > MapThenSumSet(LAMBDA i : Score(current[i]), Graded)
    BY DEF Gate
  <1>4. Gain(current, candidate)
          = MapThenSumSet(LAMBDA i : Score(candidate[i]) - Score(current[i]), Graded)
    BY <1>1 DEF Gain
  <1> HIDE DEF Graded
  <1>5. MapThenSumSet(LAMBDA i : Score(candidate[i]), Graded) = Diff(a, z, Graded)
    BY <1>2, TotalIsDiff
  <1>6. MapThenSumSet(LAMBDA i : Score(current[i]), Graded) = Diff(b, z, Graded)
    BY <1>2, TotalIsDiff
  <1>7. Gain(current, candidate) = Diff(a, b, Graded)
    BY <1>2, <1>4, GainIsDiff
  <1>8. a \in [Graded -> Nat] /\ b \in [Graded -> Nat] /\ z \in [Graded -> Nat]
    BY ScoreType DEF Scores, Nothing
  <1> HIDE DEF a, b, z
  <1>9. Count(a, Graded) \in Nat /\ Count(b, Graded) \in Nat /\ Count(z, Graded) \in Nat
    BY <1>2, <1>8, CountType
  <1>10. Graded = {} => Diff(a, b, Graded) = 0
    BY CountOfNone DEF Diff
  <1>11. Diff(a, z, Graded) > Diff(b, z, Graded) <=> Diff(a, b, Graded) > 0
    BY <1>9 DEF Diff
  <1>12. Gate(current, candidate) <=> Graded # {} /\ Diff(a, z, Graded) > Diff(b, z, Graded)
    BY <1>3, <1>5, <1>6, Zenon
  <1> QED BY <1>7, <1>10, <1>11, <1>12
\* The places of a run that has not compared its candidate with the skill.
Early == {"idle", "propose", "current", "candidate"}

\* What the runs hold, for their scores to be comparable.
Graded ==
  /\ DOMAIN cand = Runs /\ held \in [Runs -> Nat] /\ DOMAIN scores = Runs
  /\ \A r \in Runs : pc[r] = "candidate" => scores[r] \in Replays(r)

\* What is written or about to be written as staged is of a run that did better, but for what
\* two runs that share the temporary file make of it.
StagedBetter ==
  /\ \A r \in Runs : file[r] = "staged" => r \in better
  /\ \A r \in better : r \in Runs /\ pc[r] \notin Early
  /\ temp["staged"] \in {None, Torn, Empty} \cup {{r} : r \in better}
  /\ temp["staged"] = Torn =>
       tangled \/ \A r \in Runs : ~(pc[r] = "rename" /\ file[r] = "staged")
  /\ disk["staged"] \in {Empty, Torn} \cup {{r} : r \in better}

\* The invariant behind OnlyBetterIsAdopted.
BetterInv == FilesInv /\ Graded /\ StagedBetter /\ OnlyBetterIsAdopted

LEMMA HeldOutType == ASSUME NEW n \in Nat PROVE HeldOut(n) \in Nat
  <1>1. n \div 5 \in Nat
    BY SMTT(30)
  <1>2. ASSUME NEW S, S = {n \div 5, 1} PROVE Max(S) \in Nat
    <2>1. \E m \in S : \A k \in S : m >= k
      BY <1>1, <1>2
    <2>2. Max(S) \in S
      BY <2>1 DEF Max
    <2> QED BY <1>1, <1>2, <2>2
  <1> QED BY <1>2 DEF HeldOut

LEMMA GradedStep ==
  ASSUME Shape, Graded, [Next]_vars
  PROVE  Graded'
  <1>1. ASSUME UNCHANGED <<pc, cand, held, scores>> PROVE Graded'
    BY <1>1 DEF Graded, Replays
  <1>2. ASSUME NEW r \in Runs, NEW what, Answer(r, what), DOMAIN cand' = Runs PROVE Graded'
    BY <1>2 DEF Answer, Goto, Graded, Replays, Shape
  <1>3. ASSUME NEW r \in Runs, NEW place \in {"propose", "current", "read", "write", "fill", "rename"},
               Goto(r, place), DOMAIN cand' = Runs, held' \in [Runs -> Nat], DOMAIN scores' = Runs,
               \A q \in Runs \ {r} : held'[q] = held[q] /\ scores'[q] = scores[q]
        PROVE  Graded'
    BY <1>3 DEF Goto, Graded, Replays, Shape
  <1>4. ASSUME NEW r \in Runs, Start(r) PROVE Graded'
    <2>1. PICK n \in Harvests :
            \/ Answer(r, "error")
            \/ held' = [held EXCEPT ![r] = HeldOut(n)] /\ Goto(r, "propose") /\ scores' = scores
      BY <1>4 DEF Start
    <2>2. DOMAIN cand' = Runs
      BY <1>4 DEF Start, Graded
    <2>3. CASE Answer(r, "error")
      BY <1>2, <2>2, <2>3
    <2>4. CASE held' = [held EXCEPT ![r] = HeldOut(n)] /\ Goto(r, "propose") /\ scores' = scores
      <3>1. HeldOut(n) \in Nat
        BY SkillAssumption, HeldOutType
      <3>2. /\ held' \in [Runs -> Nat] /\ DOMAIN scores' = Runs
            /\ \A q \in Runs \ {r} : held'[q] = held[q] /\ scores'[q] = scores[q]
        BY <2>4, <3>1 DEF Graded
      <3> QED BY <1>3, <2>2, <2>4, <3>2
    <2> QED BY <2>1, <2>3, <2>4
  <1>5. ASSUME NEW r \in Runs, Propose(r) PROVE Graded'
    <2>1. \/ Answer(r, "error")
          \/ Goto(r, "current") /\ held' = held /\ scores' = scores
      BY <1>5 DEF Propose
    <2>2. DOMAIN cand' = Runs
      BY <1>5 DEF Propose, Graded
    <2>3. CASE Answer(r, "error")
      BY <1>2, <2>2, <2>3
    <2>4. CASE Goto(r, "current") /\ held' = held /\ scores' = scores
      BY <1>3, <2>2, <2>4 DEF Graded
    <2> QED BY <2>1, <2>3, <2>4
  <1>6. ASSUME NEW r \in Runs, ReplayCurrent(r) PROVE Graded'
    <2>1. PICK statuses \in Replays(r) : scores' = [scores EXCEPT ![r] = statuses]
      BY <1>6 DEF ReplayCurrent
    <2>2. pc' = [pc EXCEPT ![r] = "candidate"] /\ cand' = cand /\ held' = held
      BY <1>6 DEF ReplayCurrent, Goto
    <2> QED BY <2>1, <2>2 DEF Graded, Replays, Shape
  <1>7. ASSUME NEW r \in Runs, ReplayCandidate(r) PROVE Graded'
    <2>1. \E place \in {"read", "write"} : Goto(r, place)
      BY <1>7 DEF ReplayCandidate
    <2>2. /\ DOMAIN cand' = Runs /\ held' \in [Runs -> Nat] /\ DOMAIN scores' = Runs
          /\ \A q \in Runs \ {r} : held'[q] = held[q] /\ scores'[q] = scores[q]
      BY <1>7 DEF ReplayCandidate, Graded
    <2> QED BY <1>3, <2>1, <2>2
  <1>8. ASSUME NEW r \in Runs, ModelFails(r) \/ WriteFails(r) PROVE Graded'
    BY <1>2, <1>8 DEF ModelFails, WriteFails, Graded
  <1>9. ASSUME NEW r \in Runs, ReadRejected(r) \/ OpenTemp(r) \/ FillTemp(r) PROVE Graded'
    <2>1. \E place \in {"write", "fill", "rename"} : Goto(r, place)
      BY <1>9 DEF ReadRejected, OpenTemp, FillTemp
    <2>2. UNCHANGED <<cand, held, scores>>
      BY <1>9 DEF ReadRejected, OpenTemp, FillTemp
    <2> QED BY <1>3, <2>1, <2>2 DEF Graded
  <1>10. ASSUME NEW r \in Runs, Rename(r) PROVE Graded'
    <2>1. Answer(r, verdict[r]) \/ (Goto(r, "write") /\ held' = held /\ scores' = scores)
      BY <1>10 DEF Rename
    <2>2. DOMAIN cand' = Runs
      BY <1>10 DEF Rename, Graded
    <2>3. CASE Answer(r, verdict[r])
      BY <1>2, <2>2, <2>3
    <2>4. CASE Goto(r, "write") /\ held' = held /\ scores' = scores
      BY <1>3, <2>2, <2>4 DEF Graded
    <2> QED BY <2>1, <2>3, <2>4
  <1>11. CASE Restart
    BY <1>11 DEF Restart, Graded, Replays
  <1> QED
    BY <1>1, <1>4, <1>5, <1>6, <1>7, <1>8, <1>9, <1>10, <1>11
    DEF Next, Run, Adopt, Reload, Drop, Switch, BeginLoad, Load, Insert, UserEdits, vars, runVars

\* The candidates that may be adopted are not touched.
CandsStay == better \subseteq better' /\ \A r \in better : cand'[r] = cand[r]

LEMMA SkillStays ==
  ASSUME OnlyBetterIsAdopted, CandsStay, tangled => tangled', skill' = skill,
         disk'["staged"] = Torn => tangled', disk'["staged"] # Torn => disk'["staged"] \subseteq better'
  PROVE  OnlyBetterIsAdopted'
  <1>1. ASSUME NEW r \in better, skill = cand[r] PROVE \E q \in better' : skill' = cand'[q]
    BY <1>1 DEF CandsStay
  <1> QED BY <1>1 DEF OnlyBetterIsAdopted

\* A step of a run that leaves what is staged alone.
LEMMA StagedStays ==
  ASSUME BetterInv, CandsStay, Shape', skill' = skill, better' = better,
         tangled' = tangled,
         \/ disk'["staged"] = disk["staged"]
         \/ tangled /\ disk'["staged"] \in {Torn} \cup {{r} : r \in better},
         \A r \in Runs : pc'[r] \in Early => pc[r] \in Early,
         \A r \in Runs : file'[r] = "staged" => file[r] = "staged",
         \/ /\ temp'["staged"] = temp["staged"]
            /\ \A r \in Runs : pc'[r] = "rename" /\ file'[r] = "staged" =>
                                 pc[r] = "rename" /\ file[r] = "staged"
         \/ /\ temp'["staged"] \in {None, Torn, Empty} \cup {{r} : r \in better}
            /\ tangled \/ temp'["staged"] # Torn \/ \A r \in Runs : ~(pc'[r] = "rename" /\ file'[r] = "staged")
  PROVE  (StagedBetter /\ OnlyBetterIsAdopted)'
  <1>1. OnlyBetterIsAdopted'
    <2>1. disk'["staged"] = Torn => tangled'
      BY DEF BetterInv, OnlyBetterIsAdopted
    <2>2. disk'["staged"] # Torn => disk'["staged"] \subseteq better'
      BY DEF BetterInv, OnlyBetterIsAdopted
    <2> QED BY <2>1, <2>2, SkillStays DEF BetterInv
  <1>2. StagedBetter'
    BY DEF BetterInv, StagedBetter
  <1> QED BY <1>1, <1>2

LEMMA BeforeBetter ==
  ASSUME BetterInv, Shape', NEW r \in Runs,
         Start(r) \/ Propose(r) \/ ReplayCurrent(r) \/ ModelFails(r)
  PROVE  (StagedBetter /\ OnlyBetterIsAdopted)'
  <1>1. pc[r] \in Early /\ UNCHANGED <<skill, disk, temp, better, tangled>>
    BY DEF Start, Propose, ReplayCurrent, ModelFails, diskVars, Early
  <1>2. r \notin better
    BY <1>1 DEF BetterInv, StagedBetter
  <1>3. \A q \in better : cand'[q] = cand[q]
    <2>1. \A q \in Runs \ {r} : cand'[q] = cand[q]
      BY DEF Start, Propose, ReplayCurrent, ModelFails, BetterInv, Graded
    <2> QED BY <1>2, <2>1 DEF BetterInv, StagedBetter
  <1>4. \/ \E what : Answer(r, what)
        \/ /\ \E place \in {"propose", "current", "candidate"} : pc' = [pc EXCEPT ![r] = place]
           /\ file' = file
    BY DEF Start, Propose, ReplayCurrent, ModelFails, Goto
  <1>5. /\ \A q \in Runs \ {r} : pc'[q] = pc[q] /\ file'[q] = file[q]
        /\ pc'[r] \in {"propose", "current", "candidate", "ended"}
        /\ file'[r] = "staged" => file[r] = "staged"
    BY <1>4 DEF Answer, Goto, BetterInv, FilesInv, Shape
  <1>6. /\ \A q \in Runs : pc'[q] \in Early => pc[q] \in Early
        /\ \A q \in Runs : file'[q] = "staged" => file[q] = "staged"
        /\ \A q \in Runs : pc'[q] = "rename" /\ file'[q] = "staged" =>
                             pc[q] = "rename" /\ file[q] = "staged"
    BY <1>1, <1>5
  <1> QED BY <1>1, <1>3, <1>6, StagedStays DEF CandsStay

LEMMA ComparedBetter ==
  ASSUME BetterInv, Shape', NEW r \in Runs, ReplayCandidate(r)
  PROVE  (StagedBetter /\ OnlyBetterIsAdopted)'
  <1>1. PICK statuses \in Replays(r) :
          /\ better' = IF Gain(scores[r], statuses) > 0 THEN better \cup {r} ELSE better
          /\ IF Gate(scores[r], statuses)
             THEN file' = [file EXCEPT ![r] = "staged"] /\ Goto(r, "write")
             ELSE file' = [file EXCEPT ![r] = "rejected"] /\ Goto(r, "read")
    BY DEF ReplayCandidate
  <1>2. pc[r] = "candidate" /\ UNCHANGED <<skill, disk, temp, cand>>
    BY DEF ReplayCandidate, diskVars
  <1>3. tangled' = (tangled \/ \E q \in Runs \ {r} : AtFiles(q))
    BY DEF ReplayCandidate
  <1>4. Gate(scores[r], statuses) <=> Gain(scores[r], statuses) > 0
    <2>1. scores[r] \in [1..held[r] -> Statuses] /\ statuses \in [1..held[r] -> Statuses]
      BY <1>1, <1>2 DEF BetterInv, Graded, Replays
    <2>2. held[r] \in Nat
      BY DEF BetterInv, Graded
    <2> QED BY <2>1, <2>2, GateIsGain
  <1>5. file'[r] = "staged" => r \in better'
    BY <1>1, <1>4 DEF BetterInv, FilesInv, Shape
  <1>6. /\ \A q \in Runs \ {r} : pc'[q] = pc[q] /\ file'[q] = file[q]
        /\ pc'[r] \in {"read", "write"}
    BY <1>1 DEF Goto, BetterInv, FilesInv, Shape
  <1>7. better \subseteq better' /\ better' \subseteq better \cup {r}
    BY <1>1
  <1>8. OnlyBetterIsAdopted'
    <2>1. CandsStay
      BY <1>2, <1>7 DEF CandsStay
    <2> QED BY <1>2, <1>3, <1>7, <2>1, SkillStays DEF BetterInv, OnlyBetterIsAdopted
  <1>9. \A q \in better' : q \in Runs /\ pc'[q] \notin Early
    BY <1>6, <1>7 DEF BetterInv, StagedBetter, Early
  <1>10. tangled => tangled'
    BY <1>3
  <1>11. \A q \in Runs : pc'[q] = "rename" /\ file'[q] = "staged" =>
                           pc[q] = "rename" /\ file[q] = "staged"
    BY <1>6
  <1>12. \A q \in Runs : file'[q] = "staged" => q \in better'
    BY <1>5, <1>6, <1>7 DEF BetterInv, StagedBetter
  <1>13. {{q} : q \in better} \subseteq {{q} : q \in better'}
    BY <1>7
  <1>14. StagedBetter'
    BY <1>2, <1>9, <1>10, <1>11, <1>12, <1>13 DEF BetterInv, StagedBetter
  <1> QED BY <1>8, <1>14

LEMMA ReadBetter ==
  ASSUME BetterInv, Shape', NEW r \in Runs, ReadRejected(r)
  PROVE  (StagedBetter /\ OnlyBetterIsAdopted)'
  <1>1. /\ pc[r] = "read" /\ pc' = [pc EXCEPT ![r] = "write"]
        /\ UNCHANGED <<skill, disk, temp, better, tangled, cand, file>>
    BY DEF ReadRejected, Goto, diskVars
  <1>2. \A q \in Runs : pc'[q] = pc[q] \/ (q = r /\ pc'[q] = "write")
    BY <1>1 DEF BetterInv, FilesInv, Shape
  <1> QED BY <1>1, <1>2, StagedStays DEF CandsStay, Early

LEMMA OpenBetter ==
  ASSUME BetterInv, Shape', NEW r \in Runs, OpenTemp(r)
  PROVE  (StagedBetter /\ OnlyBetterIsAdopted)'
  <1>1. /\ pc[r] = "write" /\ pc' = [pc EXCEPT ![r] = "fill"]
        /\ temp' = [temp EXCEPT ![file[r]] = Empty]
        /\ UNCHANGED <<skill, disk, better, tangled, cand, file>>
    BY DEF OpenTemp, Goto
  <1>2. /\ \A q \in Runs : pc'[q] = pc[q] \/ pc'[q] = "fill"
        /\ temp'["staged"] \in {temp["staged"], Empty}
    BY <1>1 DEF BetterInv, FilesInv, Shape, Files
  <1>3. Empty # Torn
    BY DEF Empty, Torn
  <1> QED BY <1>1, <1>2, <1>3, StagedStays DEF CandsStay, Early

\* What a run makes of the file it has open: it is on disk already only if two were at their files.
LEMMA FilledStaged ==
  ASSUME BetterInv, NEW r \in Runs, pc[r] = "fill", NEW contents, Fills(r, contents)
  PROVE  /\ temp'["staged"] = temp["staged"] \/ (file[r] = "staged" /\ temp'["staged"] \in contents)
         /\ \/ disk'["staged"] = disk["staged"]
            \/ tangled /\ file[r] = "staged" /\ disk'["staged"] \in contents
  <1>1. handle[r] = "disk" => tangled
    BY DEF BetterInv, FilesInv
  <1>2. file[r] \in Files /\ DOMAIN temp = Files /\ DOMAIN disk = Files
    BY DEF BetterInv, FilesInv, Shape
  <1> QED BY <1>1, <1>2 DEF Fills, Files

LEMMA FillBetter ==
  ASSUME BetterInv, Shape', NEW r \in Runs, FillTemp(r)
  PROVE  (StagedBetter /\ OnlyBetterIsAdopted)'
  <1>1. /\ pc[r] = "fill" /\ pc' = [pc EXCEPT ![r] = "rename"]
        /\ UNCHANGED <<skill, better, tangled, cand, file>>
    BY DEF FillTemp, Goto
  <1>2. PICK contents :
          /\ Fills(r, contents)
          /\ contents = {Content(r)} \cup (IF Held(r) = Empty THEN {} ELSE {Torn})
    BY DEF FillTemp
  <1>3. /\ \A q \in Runs : pc'[q] = pc[q] \/ (q = r /\ pc'[q] = "rename")
        /\ \A q \in Runs : pc'[q] \in Early => pc[q] \in Early
    BY <1>1 DEF BetterInv, FilesInv, Shape, Early
  <1>4. /\ temp'["staged"] = temp["staged"] \/ (file[r] = "staged" /\ temp'["staged"] \in contents)
        /\ \/ disk'["staged"] = disk["staged"]
           \/ tangled /\ file[r] = "staged" /\ disk'["staged"] \in contents
    BY <1>1, <1>2, FilledStaged
  <1>5. file[r] = "staged" => /\ Content(r) = {r} /\ r \in better
                              /\ tangled \/ contents = {Content(r)}
    <2>1. tangled \/ Held(r) = Empty
      BY <1>1 DEF BetterInv, FilesInv, Held
    <2> QED BY <1>2, <2>1 DEF Content, BetterInv, StagedBetter
  <1>6. CandsStay
    BY <1>1 DEF CandsStay
  <1>7. CASE file[r] # "staged"
    <2>1. \A q \in Runs : pc'[q] = "rename" /\ file'[q] = "staged" =>
                             pc[q] = "rename" /\ file[q] = "staged"
      BY <1>1, <1>3, <1>7
    <2> QED BY <1>1, <1>3, <1>4, <1>6, <1>7, <2>1, StagedStays
  <1>8. CASE file[r] = "staged" /\ tangled
    <2>1. contents \subseteq {Torn} \cup {{q} : q \in better}
      BY <1>2, <1>5, <1>8
    <2>2. temp'["staged"] \in {None, Torn, Empty} \cup {{q} : q \in better}
      BY <1>4, <2>1 DEF BetterInv, StagedBetter
    <2> QED BY <1>1, <1>3, <1>4, <1>6, <1>8, <2>1, <2>2, StagedStays
  <1>9. CASE file[r] = "staged" /\ ~tangled
    <2>1. temp'["staged"] = {r} /\ disk'["staged"] = disk["staged"]
      <3>1. handle[r] = "temp" /\ file[r] \in Files /\ DOMAIN temp = Files
        BY <1>1, <1>9 DEF BetterInv, FilesInv, Shape
      <3>2. contents = {{r}}
        BY <1>5, <1>9
      <3> QED BY <1>2, <1>9, <3>1, <3>2 DEF Fills
    <2>2. {r} # Torn /\ r \in better
      BY <1>5, <1>9, SkillAssumption DEF Torn
    <2> QED BY <1>1, <1>3, <1>6, <2>1, <2>2, StagedStays
  <1> QED BY <1>7, <1>8, <1>9

LEMMA RenameBetter ==
  ASSUME BetterInv, Shape', NEW r \in Runs, Rename(r)
  PROVE  (StagedBetter /\ OnlyBetterIsAdopted)'
  <1>1. /\ pc[r] = "rename" /\ temp[file[r]] # None
        /\ disk' = [disk EXCEPT ![file[r]] = temp[file[r]]]
        /\ temp' = [temp EXCEPT ![file[r]] = None]
        /\ UNCHANGED <<skill, better, tangled, cand>>
    BY DEF Rename
  <1>2. \/ \E what : Answer(r, what)
        \/ pc' = [pc EXCEPT ![r] = "write"] /\ file' = [file EXCEPT ![r] = "report"]
    BY DEF Rename, Goto
  <1>3. /\ \A q \in Runs \ {r} : pc'[q] = pc[q] /\ file'[q] = file[q]
        /\ pc'[r] \in {"ended", "write"} /\ file'[r] = "report"
    BY <1>2 DEF Answer, Goto, BetterInv, FilesInv, Shape
  <1>4. /\ \A q \in Runs : pc'[q] \in Early => pc[q] \in Early
        /\ \A q \in Runs : file'[q] = "staged" => file[q] = "staged"
        /\ \A q \in Runs : pc'[q] = "rename" /\ file'[q] = "staged" =>
                             pc[q] = "rename" /\ file[q] = "staged" /\ q # r
    BY <1>1, <1>3 DEF Early
  <1>5. CandsStay
    BY <1>1 DEF CandsStay
  <1>6. CASE file[r] # "staged"
    <2>1. temp'["staged"] = temp["staged"] /\ disk'["staged"] = disk["staged"]
      BY <1>1, <1>6 DEF BetterInv, FilesInv, Shape, Files
    <2> QED BY <1>1, <1>4, <1>5, <2>1, StagedStays
  <1>7. CASE file[r] = "staged"
    <2>1. temp'["staged"] = None /\ disk'["staged"] = temp["staged"]
      BY <1>1, <1>7 DEF BetterInv, FilesInv, Shape, Files
    <2>2. disk'["staged"] \in {Empty, Torn} \cup {{q} : q \in better}
      BY <1>1, <1>7, <2>1 DEF BetterInv, StagedBetter
    <2>3. disk'["staged"] = Torn => tangled
      BY <1>1, <1>7, <2>1 DEF BetterInv, StagedBetter
    <2>4. ASSUME NEW q \in Runs, pc'[q] = "rename", file'[q] = "staged" PROVE tangled
      <3>1. AtFiles(q) /\ AtFiles(r) /\ q # r
        BY <1>1, <1>4, <2>4 DEF AtFiles
      <3> QED BY <3>1 DEF BetterInv, FilesInv
    <2>5. OnlyBetterIsAdopted'
      <3>1. disk'["staged"] # Torn => disk'["staged"] \subseteq better'
        BY <1>1, <2>2 DEF Empty
      <3> QED BY <1>1, <1>5, <2>3, <3>1, SkillStays DEF BetterInv
    <2>6. StagedBetter'
      BY <1>1, <1>4, <2>1, <2>2, <2>4 DEF BetterInv, StagedBetter
    <2> QED BY <2>5, <2>6
  <1> QED BY <1>6, <1>7

LEMMA GivenUpBetter ==
  ASSUME BetterInv, Shape', NEW r \in Runs, WriteFails(r)
  PROVE  (StagedBetter /\ OnlyBetterIsAdopted)'
  <1>1. /\ AtFiles(r) /\ Answer(r, "error")
        /\ UNCHANGED <<skill, better, tangled, cand>>
    BY DEF WriteFails, AtFiles
  <1>2. /\ temp'["staged"] \in {temp["staged"], None, Torn}
        /\ disk'["staged"] = disk["staged"] \/ (tangled /\ disk'["staged"] = Torn)
    <2>1. CASE UNCHANGED diskVars
      BY <2>1 DEF diskVars
    <2>2. ASSUME pc[r] = "fill", Fills(r, {Held(r), Torn})
          PROVE  /\ temp'["staged"] \in {temp["staged"], None, Torn}
                 /\ disk'["staged"] = disk["staged"] \/ (tangled /\ disk'["staged"] = Torn)
      <3>1. file[r] \in Files /\ DOMAIN temp = Files /\ DOMAIN disk = Files
        BY DEF BetterInv, FilesInv, Shape
      <3>2. handle[r] = "disk" => tangled
        BY <2>2 DEF BetterInv, FilesInv
      <3> QED BY <2>2, <3>1, <3>2 DEF Fills, Held, Files
    <2>3. CASE temp' = [temp EXCEPT ![file[r]] = None] /\ UNCHANGED disk
      BY <2>3 DEF BetterInv, FilesInv, Shape, Files
    <2> QED BY <2>1, <2>2, <2>3 DEF WriteFails
  <1>3. /\ \A q \in Runs \ {r} : pc'[q] = pc[q] /\ file'[q] = file[q]
        /\ pc'[r] = "ended" /\ file'[r] = "report"
    BY <1>1 DEF Answer, Goto, BetterInv, FilesInv, Shape
  <1>4. /\ \A q \in Runs : pc'[q] \in Early => pc[q] \in Early
        /\ \A q \in Runs : file'[q] = "staged" => file[q] = "staged"
        /\ \A q \in Runs : pc'[q] = "rename" /\ file'[q] = "staged" =>
                             pc[q] = "rename" /\ file[q] = "staged" /\ q # r
    BY <1>3 DEF Early
  <1>5. CandsStay
    BY <1>1 DEF CandsStay
  <1>6. CASE temp'["staged"] = temp["staged"]
    BY <1>1, <1>2, <1>4, <1>5, <1>6, StagedStays
  <1>7. CASE temp'["staged"] \in {None, Torn}
    <2>1. ASSUME NEW q \in Runs, pc'[q] = "rename", file'[q] = "staged" PROVE tangled
      <3>1. AtFiles(q) /\ q # r
        BY <1>4, <2>1 DEF AtFiles
      <3> QED BY <1>1, <3>1 DEF BetterInv, FilesInv
    <2> QED BY <1>1, <1>2, <1>4, <1>5, <1>7, <2>1, StagedStays
  <1> QED BY <1>2, <1>6, <1>7

LEMMA BetterStep ==
  ASSUME BetterInv, [Next]_vars
  PROVE  BetterInv'
  <1>1. FilesInv' /\ Shape' /\ Graded'
    BY FilesStep, GradedStep DEF BetterInv, FilesInv
  <1>2. ASSUME NEW r \in Runs, Run(r) PROVE (StagedBetter /\ OnlyBetterIsAdopted)'
    BY <1>1, <1>2, BeforeBetter, ComparedBetter, ReadBetter, OpenBetter, FillBetter, RenameBetter, GivenUpBetter
    DEF Run
  <1>3. ASSUME Adopt PROVE (StagedBetter /\ OnlyBetterIsAdopted)'
    <2>1. UNCHANGED <<disk, temp, pc, file, cand, better, tangled>> /\ skill' \in Staged
      BY <1>3 DEF Adopt, diskVars, runVars
    <2>2. StagedBetter'
      BY <2>1 DEF BetterInv, StagedBetter
    <2>3. \/ skill' = <<>> /\ disk["staged"] = Torn
          \/ disk["staged"] # Torn /\ \E r \in disk["staged"] : skill' = cand[r]
      BY <2>1 DEF Staged
    <2>4. \/ skill' = <<>> /\ tangled
          \/ \E r \in better : skill' = cand[r]
      BY <2>3 DEF BetterInv, OnlyBetterIsAdopted
    <2>5. \/ skill' = <<>> /\ tangled'
          \/ skill' \in {cand'[r] : r \in better'}
      BY <2>1, <2>4
    <2>6. OnlyBetterIsAdopted'
      BY <2>1, <2>5 DEF BetterInv, OnlyBetterIsAdopted
    <2> QED BY <2>2, <2>6
  <1>4. ASSUME UserEdits PROVE (StagedBetter /\ OnlyBetterIsAdopted)'
    <2>1. UNCHANGED <<disk, temp, pc, file, cand, better, tangled>> /\ skill' \in Rewrites
      BY <1>4 DEF UserEdits, diskVars, runVars
    <2>2. StagedBetter'
      BY <2>1 DEF BetterInv, StagedBetter
    <2>3. OnlyBetterIsAdopted'
      BY <2>1 DEF BetterInv, OnlyBetterIsAdopted
    <2> QED BY <2>2, <2>3
  <1>5. ASSUME UNCHANGED <<skill, diskVars, runVars>> PROVE (StagedBetter /\ OnlyBetterIsAdopted)'
    <2>1. UNCHANGED <<skill, disk, temp, pc, file, cand, better, tangled>>
      BY <1>5 DEF diskVars, runVars
    <2>2. StagedBetter'
      BY <2>1 DEF BetterInv, StagedBetter
    <2>3. OnlyBetterIsAdopted'
      BY <2>1 DEF BetterInv, OnlyBetterIsAdopted
    <2> QED BY <2>2, <2>3
  <1>6. ASSUME Restart PROVE (StagedBetter /\ OnlyBetterIsAdopted)'
    <2>1. /\ \A r \in Runs : pc'[r] \in {"idle", "ended"} /\ file'[r] = "report"
          /\ \A r \in Runs : pc'[r] = "idle" => pc[r] = "idle"
          /\ temp'["staged"] = None
          /\ UNCHANGED <<skill, disk, cand, better, tangled>>
      BY <1>6 DEF Restart, Files
    <2>2. /\ \A r \in Runs : pc'[r] \in Early => pc[r] \in Early
          /\ \A r \in Runs : file'[r] = "staged" => file[r] = "staged"
          /\ \A r \in Runs : ~(pc'[r] = "rename" /\ file'[r] = "staged")
      BY <2>1 DEF Early
    <2> QED BY <1>1, <2>1, <2>2, StagedStays DEF CandsStay
  <1>7. StagedBetter' /\ OnlyBetterIsAdopted'
    BY <1>2, <1>3, <1>4, <1>5, <1>6
    DEF Next, Reload, Drop, Switch, BeginLoad, Load, Insert, vars
  <1> QED BY <1>1, <1>7 DEF BetterInv

LEMMA BetterInit == Init => BetterInv
  <1> SUFFICES ASSUME Init PROVE BetterInv
    OBVIOUS
  <1>1. FilesInv
    BY FilesInit
  <1>2. Graded
    BY DEF Init, Graded
  <1>3. {} # Torn
    BY DEF Torn
  <1>4. StagedBetter
    BY DEF Init, StagedBetter, Files, Empty
  <1>5. OnlyBetterIsAdopted
    BY <1>3 DEF Init, OnlyBetterIsAdopted, Files
  <1> QED BY <1>1, <1>2, <1>4, <1>5 DEF BetterInv

\* For any number of runs and held-out tasks, whatever they share, whatever fails or is cut off:
\* what is staged, and what the skill says unless the user wrote it, is the candidate of a run
\* that did better (evaluate_selection_gate, stage_candidate, adopt_staged_skill).
THEOREM BetterHolds == Spec => []OnlyBetterIsAdopted
  <1>1. Init => BetterInv
    BY BetterInit
  <1>2. BetterInv /\ [Next]_vars => BetterInv'
    BY BetterStep
  <1>3. BetterInv => OnlyBetterIsAdopted
    BY DEF BetterInv
  <1> QED BY <1>1, <1>2, <1>3, PTL DEF Spec

-----------------------------------------------------------------------------
(* The slow-update region *)

(***************************************************************************)
(* A patch is put where it does not touch the region, so the region moves  *)
(* as a whole and, when the new text holds no marker, is still the first   *)
(* one.  The edits of a proposal are applied one after the other by a      *)
(* fold, whose recursive function is shown to exist, and to be what every  *)
(* prefix of the edits makes of the body, by a look at the smallest set of *)
(* edits for which it would not.                                           *)
(***************************************************************************)

LEMMA MaxIs ==
  ASSUME NEW n \in Nat, NEW s \in SUBSET (1..n), s # {}
  PROVE  Max(s) \in s /\ \A x \in s : x <= Max(s)
  <1> DEFINE T == {n - x : x \in s}
  <1>1. T \in SUBSET Nat /\ T # {}
    <2>1. PICK x \in s : TRUE
      OBVIOUS
    <2>2. n - x \in T
      BY <2>1
    <2>3. ASSUME NEW y \in s PROVE n - y \in Nat
      BY <2>3
    <2> QED BY <2>2, <2>3
  <1>2. PICK m \in T : \A x \in T : m <= x
    <2> HIDE DEF T
    <2>1. PICK m \in T : \A x \in T : ~(<<x, m>> \in OpToRel(<, Nat))
      BY <1>1, WFMin, NatLessThanWellFounded
    <2>2. \A x \in T : ~(x < m)
      BY <1>1, <2>1 DEF OpToRel
    <2> QED BY <1>1, <2>2
  <1>3. PICK x \in s : m = n - x
    BY <1>2
  <1>4. \A y \in s : n - x <= n - y /\ n - y \in T
    BY <1>2, <1>3
  <1>5. \A y \in s : x >= y
    BY <1>4
  <1>6. Max(s) \in s /\ \A y \in s : Max(s) >= y
    BY <1>5 DEF Max
  <1> QED BY <1>6

LEMMA MinIs ==
  ASSUME NEW s \in SUBSET Nat, s # {}
  PROVE  Min(s) \in s /\ \A x \in s : Min(s) <= x
  <1>1. PICK m \in s : \A x \in s : ~(<<x, m>> \in OpToRel(<, Nat))
    BY WFMin, NatLessThanWellFounded
  <1>2. \A x \in s : ~(x < m)
    BY <1>1 DEF OpToRel
  <1>3. \A x \in s : m <= x
    BY <1>2
  <1> QED BY <1>3 DEF Min

LEMMA LeastIs ==
  ASSUME NEW s \in SUBSET Nat, NEW a \in s, \A x \in s : a <= x
  PROVE  Min(s) = a
  <1>1. Min(s) \in s /\ Min(s) <= a
    BY MinIs
  <1>2. a <= Min(s) /\ a \in Nat /\ Min(s) \in Nat
    BY <1>1
  <1> QED BY <1>1, <1>2

\* The first opening marker of a body, and the first closing one behind it.
IsRegion(body, a, b) ==
  /\ a \in 1..Len(body) /\ b \in 1..Len(body) /\ a < b
  /\ body[a] = Open /\ body[b] = Close
  /\ \A i \in 1..(a - 1) : body[i] # Open
  /\ \A i \in (a + 1)..(b - 1) : body[i] # Close

LEMMA RegionIs ==
  ASSUME NEW body \in Seq(Tokens), NEW a, NEW b, IsRegion(body, a, b)
  PROVE  Region(body) = a..b /\ Slow(body) = SubSeq(body, a, b)
  <1> DEFINE opens == {i \in DOMAIN body : body[i] = Open}
             closes == {i \in DOMAIN body : body[i] = Close /\ \E o \in opens : o < i}
  <1>1. opens \in SUBSET Nat /\ a \in opens /\ \A i \in opens : a <= i
    BY DEF IsRegion
  <1>2. closes \in SUBSET Nat /\ b \in closes /\ \A i \in closes : b <= i
    <2>1. b \in closes /\ closes \in SUBSET Nat
      BY <1>1 DEF IsRegion
    <2>2. ASSUME NEW i \in closes PROVE b <= i
      <3>1. i \in 1..Len(body) /\ body[i] = Close /\ a < i
        BY <1>1, <2>2 DEF IsRegion
      <3>2. i \notin (a + 1)..(b - 1)
        BY <3>1 DEF IsRegion
      <3> QED BY <3>1, <3>2 DEF IsRegion
    <2> QED BY <2>1, <2>2
  <1>3. Region(body) = IF closes = {} THEN {} ELSE Min(opens)..Min(closes)
    BY DEF Region
  <1> HIDE DEF opens, closes
  <1>4. Min(opens) = a
    BY <1>1, LeastIs
  <1>5. Min(closes) = b
    BY <1>2, LeastIs
  <1>6. Region(body) = a..b
    BY <1>2, <1>3, <1>4, <1>5
  <1>7. a \in Nat /\ b \in Nat /\ a < b
    BY DEF IsRegion
  <1>8. Min(a..b) = a
    <2>1. a..b \in SUBSET Nat /\ a \in a..b /\ \A x \in a..b : a <= x
      BY <1>7
    <2> QED BY <2>1, LeastIs
  <1>9. Max(a..b) = b
    <2>1. a..b \in SUBSET (1..b) /\ b \in a..b
      BY <1>7 DEF IsRegion
    <2>2. Max(a..b) \in a..b /\ \A x \in a..b : x <= Max(a..b)
      BY <1>7, <2>1, MaxIs
    <2> QED BY <1>7, <2>1, <2>2
  <1>10. a \in a..b
    BY <1>7
  <1> QED BY <1>6, <1>8, <1>9, <1>10 DEF Slow

LEMMA RegionBegins ==
  ASSUME NEW body \in Seq(Tokens), Region(body) # {}
  PROVE  \E a, b \in 1..Len(body) : IsRegion(body, a, b)
  <1> DEFINE opens == {i \in DOMAIN body : body[i] = Open}
             closes == {i \in DOMAIN body : body[i] = Close /\ \E o \in opens : o < i}
  <1>1. closes # {}
    BY DEF Region
  <1>2. opens \in SUBSET Nat /\ opens # {} /\ closes \in SUBSET Nat
    BY <1>1
  <1> DEFINE a == Min(opens)
             b == Min(closes)
  <1>3. a \in opens /\ \A i \in opens : a <= i
    <2> HIDE DEF opens
    <2> QED BY <1>2, MinIs
  <1>4. b \in closes /\ \A i \in closes : b <= i
    <2> HIDE DEF closes
    <2> QED BY <1>1, <1>2, MinIs
  <1> HIDE DEF a, b
  <1>5. a \in 1..Len(body) /\ b \in 1..Len(body) /\ a < b /\ body[a] = Open /\ body[b] = Close
    BY <1>3, <1>4
  <1>6. \A i \in 1..(a - 1) : body[i] # Open
    BY <1>3, <1>5
  <1>7. \A i \in (a + 1)..(b - 1) : body[i] # Close
    BY <1>3, <1>4, <1>5
  <1> QED BY <1>5, <1>6, <1>7 DEF IsRegion

LEMMA JoinIs ==
  ASSUME NEW x \in Seq(Tokens), NEW y \in Seq(Tokens)
  PROVE  /\ x \o y \in Seq(Tokens) /\ Len(x \o y) = Len(x) + Len(y)
         /\ \A i \in 1..Len(x) : (x \o y)[i] = x[i]
         /\ \A i \in (Len(x) + 1)..(Len(x) + Len(y)) : (x \o y)[i] = y[i - Len(x)]
  OBVIOUS

\* Text put where n items of a body stood, from first on: what stands where afterwards.
Spliced(body, first, n, new) == SubSeq(body, 1, first - 1) \o new \o SubSeq(body, first + n, Len(body))

LEMMA SplicedIs ==
  ASSUME NEW body \in Seq(Tokens), NEW new \in Seq(Tokens), NEW n \in Nat,
         NEW first \in 1..(Len(body) - n + 1)
  PROVE  /\ Spliced(body, first, n, new) \in Seq(Tokens)
         /\ Len(Spliced(body, first, n, new)) = Len(body) - n + Len(new)
         /\ \A i \in 1..(first - 1) : Spliced(body, first, n, new)[i] = body[i]
         /\ \A i \in first..(first + Len(new) - 1) :
              Spliced(body, first, n, new)[i] = new[i - first + 1]
         /\ \A i \in (first + Len(new))..(Len(body) - n + Len(new)) :
              Spliced(body, first, n, new)[i] = body[i + n - Len(new)]
  <1> DEFINE before == SubSeq(body, 1, first - 1)
             behind == SubSeq(body, first + n, Len(body))
  <1>1. Len(body) \in Nat /\ Len(new) \in Nat /\ first \in Nat \ {0} /\ first + n <= Len(body) + 1
    OBVIOUS
  <1>2. before \in Seq(Tokens) /\ Len(before) = first - 1 /\ \A i \in 1..(first - 1) : before[i] = body[i]
    BY <1>1
  <1>3. /\ behind \in Seq(Tokens) /\ Len(behind) = Len(body) - (first + n) + 1
        /\ \A i \in 1..(Len(body) - (first + n) + 1) : behind[i] = body[first + n + i - 1]
    BY <1>1
  <1>4. Spliced(body, first, n, new) = (before \o new) \o behind
    BY DEF Spliced
  <1> HIDE DEF before, behind
  <1> DEFINE front == before \o new
  <1>5. /\ front \in Seq(Tokens) /\ Len(front) = first - 1 + Len(new)
        /\ \A i \in 1..(first - 1) : front[i] = body[i]
        /\ \A i \in first..(first + Len(new) - 1) : front[i] = new[i - first + 1]
    <2>1. /\ front \in Seq(Tokens) /\ Len(front) = Len(before) + Len(new)
          /\ \A i \in 1..Len(before) : front[i] = before[i]
          /\ \A i \in (Len(before) + 1)..(Len(before) + Len(new)) : front[i] = new[i - Len(before)]
      BY <1>2, JoinIs
    <2> HIDE DEF front
    <2>2. ASSUME NEW i \in first..(first + Len(new) - 1) PROVE front[i] = new[i - first + 1]
      <3>1. i \in (Len(before) + 1)..(Len(before) + Len(new)) /\ i - Len(before) = i - first + 1
        BY <1>1, <1>2
      <3> QED BY <2>1, <3>1
    <2> QED BY <1>1, <1>2, <2>1, <2>2
  <1> HIDE DEF front
  <1> DEFINE all == front \o behind
  <1>6. /\ all \in Seq(Tokens) /\ Len(all) = Len(body) - n + Len(new)
        /\ \A i \in 1..(first - 1 + Len(new)) : all[i] = front[i]
        /\ \A i \in (first + Len(new))..(Len(body) - n + Len(new)) :
             all[i] = behind[i - (first - 1 + Len(new))]
    <2>1. /\ all \in Seq(Tokens) /\ Len(all) = Len(front) + Len(behind)
          /\ \A i \in 1..Len(front) : all[i] = front[i]
          /\ \A i \in (Len(front) + 1)..(Len(front) + Len(behind)) : all[i] = behind[i - Len(front)]
      BY <1>3, <1>5, JoinIs
    <2> HIDE DEF all
    <2>2. Len(front) + 1 = first + Len(new) /\ Len(front) + Len(behind) = Len(body) - n + Len(new)
      BY <1>1, <1>3, <1>5
    <2> QED BY <1>5, <2>1, <2>2
  <1> HIDE DEF all
  <1>7. \A i \in (first + Len(new))..(Len(body) - n + Len(new)) : all[i] = body[i + n - Len(new)]
    <2> SUFFICES ASSUME NEW i \in (first + Len(new))..(Len(body) - n + Len(new))
                 PROVE  all[i] = body[i + n - Len(new)]
      OBVIOUS
    <2> DEFINE k == i - (first - 1 + Len(new))
    <2>1. k \in 1..(Len(body) - (first + n) + 1) /\ first + n + k - 1 = i + n - Len(new)
      BY <1>1
    <2>2. all[i] = behind[k]
      BY <1>6
    <2> HIDE DEF k
    <2> QED BY <1>3, <2>1, <2>2
  <1>8. \A i \in 1..(first - 1) : i \in 1..(first - 1 + Len(new)) /\ all[i] = body[i]
    BY <1>1, <1>5, <1>6
  <1>9. \A i \in first..(first + Len(new) - 1) : i \in 1..(first - 1 + Len(new)) /\ all[i] = new[i - first + 1]
    BY <1>1, <1>5, <1>6
  <1>10. Spliced(body, first, n, new) = all
    BY <1>4 DEF all, front
  <1> QED BY <1>6, <1>7, <1>8, <1>9, <1>10

Unmarked(new) == \A i \in DOMAIN new : new[i] \notin {Open, Close}

\* The region of a body is somewhere in another one, as its region.
SameRegion(after, body, a, b) ==
  \E c, d : IsRegion(after, c, d) /\ SubSeq(after, c, d) = SubSeq(body, a, b)

\* A part of a sequence, place by place.
LEMMA SliceIs ==
  ASSUME NEW q \in Seq(Tokens), NEW c \in 1..Len(q), NEW d \in 1..Len(q), c <= d
  PROVE  /\ SubSeq(q, c, d) \in Seq(Tokens) /\ Len(SubSeq(q, c, d)) = d - c + 1
         /\ \A i \in 1..(d - c + 1) : SubSeq(q, c, d)[i] = q[c + i - 1]
  BY SMTT(60)

\* Sequences with the same items are the same.
LEMMA SameItems ==
  ASSUME NEW x \in Seq(Tokens), NEW y \in Seq(Tokens), Len(x) = Len(y),
         \A i \in 1..Len(x) : x[i] = y[i]
  PROVE  x = y
  BY SMTT(60)

\* A splice before the region moves it, one behind it leaves it.
LEMMA RegionMoves ==
  ASSUME NEW body \in Seq(Tokens), NEW new \in Seq(Tokens), Unmarked(new), NEW n \in Nat,
         NEW first \in 1..(Len(body) - n + 1), NEW a, NEW b, IsRegion(body, a, b),
         first + n <= a \/ first > b
  PROVE  SameRegion(Spliced(body, first, n, new), body, a, b)
  <1> DEFINE after == Spliced(body, first, n, new)
  <1>1. /\ after \in Seq(Tokens)
        /\ Len(after) = Len(body) - n + Len(new)
        /\ \A i \in 1..(first - 1) : after[i] = body[i]
        /\ \A i \in first..(first + Len(new) - 1) : after[i] = new[i - first + 1]
        /\ \A i \in (first + Len(new))..(Len(body) - n + Len(new)) : after[i] = body[i + n - Len(new)]
    BY SplicedIs
  <1> HIDE DEF after
  <1>2. /\ Len(body) \in Nat /\ Len(new) \in Nat /\ first \in Nat \ {0} /\ first + n <= Len(body) + 1
        /\ a \in 1..Len(body) /\ b \in 1..Len(body) /\ a < b
    BY DEF IsRegion
  <1>3. after \in Seq(Tokens) /\ Len(after) \in Nat
    BY <1>1
  <1>4. CASE first > b
    <2>1. \A i \in 1..b : i \in 1..(first - 1) /\ after[i] = body[i]
      BY <1>1, <1>2, <1>4
    <2>2. b \in 1..Len(after)
      BY <1>1, <1>2, <1>4
    <2>3. IsRegion(after, a, b)
      <3>1. a \in 1..Len(after) /\ after[a] = Open /\ after[b] = Close
        <4>1. a \in 1..b /\ b \in 1..b
          BY <1>2
        <4>2. Len(after) \in Nat /\ b <= Len(after)
          BY <1>1, <2>2
        <4> QED BY <2>1, <4>1, <4>2 DEF IsRegion
      <3>2. \A i \in 1..(a - 1) : after[i] # Open
        BY <1>2, <2>1 DEF IsRegion
      <3>3. \A i \in (a + 1)..(b - 1) : after[i] # Close
        BY <1>2, <2>1 DEF IsRegion
      <3> QED BY <1>2, <2>2, <3>1, <3>2, <3>3 DEF IsRegion
    <2>4. SubSeq(after, a, b) = SubSeq(body, a, b)
      <3>1. \A i \in 1..(b - a + 1) : a + i - 1 \in 1..b
        BY <1>2
      <3> QED BY <1>1, <1>2, <2>1, <2>2, <3>1
    <2> QED BY <2>3, <2>4 DEF after, SameRegion
  <1>5. CASE first + n <= a
    <2>1. PICK k, l, m \in Nat : k = Len(new) /\ l = Len(body) /\ m = Len(after)
      BY <1>2, <1>3
    <2>2. /\ m = l - n + k /\ first \in Nat /\ first > 0 /\ a \in Nat /\ b \in Nat
          /\ a < b /\ b <= l /\ first + n <= a
      BY <1>1, <1>2, <1>5, <2>1
    <2>3. PICK c, d \in Nat : c + n = a + k /\ d + n = b + k
      <3>1. a + k - n \in Nat /\ b + k - n \in Nat
        BY <2>2
      <3>2. (a + k - n) + n = a + k /\ (b + k - n) + n = b + k
        BY <2>2
      <3> QED BY <3>1, <3>2
    <2>4. c \in 1..m /\ d \in 1..m /\ c < d /\ first + k <= c
      BY <2>2, <2>3
    <2>5. /\ \A i \in 1..(first - 1) : after[i] = body[i]
          /\ \A i \in first..(first + k - 1) : after[i] = new[i - first + 1]
          /\ \A i \in (first + k)..m : after[i] = body[i + n - k]
      BY <1>1, <2>1, <2>2
    <2>6. /\ body[a] = Open /\ body[b] = Close
          /\ \A i \in 1..(a - 1) : body[i] # Open
          /\ \A i \in (a + 1)..(b - 1) : body[i] # Close
      BY DEF IsRegion
    <2>7. after[c] = Open /\ after[d] = Close
      <3>1. c + n - k = a /\ d + n - k = b
        BY <2>2, <2>3
      <3>2. c \in (first + k)..m /\ d \in (first + k)..m
        BY <2>2, <2>4
      <3> QED BY <2>5, <2>6, <3>1, <3>2
    <2>8. ASSUME NEW i \in 1..(c - 1) PROVE after[i] # Open
      <3>1. CASE i <= first - 1
        <4>1. i \in 1..(first - 1) /\ i \in 1..(a - 1)
          BY <2>2, <3>1
        <4> QED BY <2>5, <2>6, <4>1
      <3>2. CASE first <= i /\ i <= first + k - 1
        <4>1. i \in first..(first + k - 1) /\ i - first + 1 \in 1..k
          BY <2>2, <3>2
        <4>2. after[i] = new[i - first + 1] /\ i - first + 1 \in DOMAIN new
          BY <2>1, <2>5, <4>1
        <4> QED BY <4>2 DEF Unmarked
      <3>3. CASE first + k <= i
        <4>1. i \in (first + k)..m /\ i + n - k \in 1..(a - 1)
          BY <2>2, <2>3, <2>4, <3>3
        <4>2. after[i] = body[i + n - k]
          BY <2>5, <4>1
        <4>3. body[i + n - k] # Open
          BY <2>6, <4>1
        <4> QED BY <4>2, <4>3
      <3> QED BY <2>2, <2>4, <3>1, <3>2, <3>3
    <2>9. ASSUME NEW i \in (c + 1)..(d - 1) PROVE after[i] # Close
      <3>1. i \in (first + k)..m /\ i + n - k \in (a + 1)..(b - 1)
        BY <2>2, <2>3, <2>4
      <3>2. after[i] = body[i + n - k]
        BY <2>5, <3>1
      <3>3. body[i + n - k] # Close
        BY <2>6, <3>1
      <3> QED BY <3>2, <3>3
    <2>10. SubSeq(after, c, d) = SubSeq(body, a, b)
      <3>1. PICK x, y : x = SubSeq(after, c, d) /\ y = SubSeq(body, a, b)
        OBVIOUS
      <3>2. c \in 1..Len(after) /\ d \in 1..Len(after) /\ c <= d
        BY <2>1, <2>4
      <3>3. x \in Seq(Tokens) /\ Len(x) = d - c + 1 /\ \A i \in 1..(d - c + 1) : x[i] = after[c + i - 1]
        BY <1>3, <3>1, <3>2, SliceIs
      <3>4. a \in 1..Len(body) /\ b \in 1..Len(body) /\ a <= b
        BY <1>2
      <3>5. y \in Seq(Tokens) /\ Len(y) = b - a + 1 /\ \A i \in 1..(b - a + 1) : y[i] = body[a + i - 1]
        BY <3>1, <3>4, SliceIs
      <3>6. d - c + 1 = b - a + 1
        BY <2>2, <2>3
      <3>7. ASSUME NEW i \in 1..(b - a + 1) PROVE x[i] = y[i]
        <4>1. c + i - 1 \in (first + k)..m /\ (c + i - 1) + n - k = a + i - 1
          BY <2>2, <2>3, <2>4
        <4>2. after[c + i - 1] = body[a + i - 1]
          BY <2>5, <4>1
        <4> QED BY <3>3, <3>5, <3>6, <4>2
      <3>8. x = y
        BY <3>3, <3>5, <3>6, <3>7, SameItems
      <3> QED BY <3>1, <3>8
    <2>11. IsRegion(after, c, d)
      <3>1. c \in 1..Len(after) /\ d \in 1..Len(after) /\ c < d
        BY <2>1, <2>4
      <3> QED BY <2>7, <2>8, <2>9, <3>1 DEF IsRegion
    <2> QED BY <2>10, <2>11 DEF after, SameRegion
  <1> QED BY <1>4, <1>5

Edits == [op : {"append", "patch"}, old : Seq(Tokens), new : Seq(Tokens)]

LEMMA PatchIsSplice ==
  ASSUME NEW body \in Seq(Tokens), NEW e \in Edits, Applies(body, e)
  PROVE  \E n \in Nat : \E first \in 1..(Len(body) - n + 1) :
           /\ Patched(body, e) = Spliced(body, first, n, e.new)
           /\ \A i \in Region(body) : i < first \/ first + n <= i
           /\ e.op # "append" => n > 0
           /\ e.op = "append" => first = Len(body) + 1
  <1>1. e.old \in Seq(Tokens) /\ e.new \in Seq(Tokens) /\ Len(body) \in Nat
    BY DEF Edits
  <1>2. CASE e.op = "append"
    <2> DEFINE first == Len(body) + 1
    <2>1. first \in 1..(Len(body) - 0 + 1) /\ 0 \in Nat
      BY <1>1
    <2>2. SubSeq(body, 1, first - 1) = body /\ SubSeq(body, first + 0, Len(body)) = <<>>
      BY <1>1
    <2>3. Spliced(body, first, 0, e.new) = (body \o e.new) \o <<>>
      BY <2>2 DEF Spliced
    <2>4. (body \o e.new) \o <<>> = body \o e.new
      <3>1. body \o e.new \in Seq(Tokens)
        BY <1>1
      <3> DEFINE w == body \o e.new
      <3> HIDE DEF w
      <3>2. w \in Seq(Tokens)
        BY <3>1 DEF w
      <3>3. w \o <<>> = w
        BY <3>2
      <3> QED BY <3>3 DEF w
    <2>5. Patched(body, e) = Spliced(body, first, 0, e.new)
      BY <1>2, <2>3, <2>4 DEF Patched
    <2>6. \A i \in Region(body) : i < first
      <3>1. CASE Region(body) = {}
        BY <3>1
      <3>2. CASE Region(body) # {}
        <4>1. PICK a, b \in 1..Len(body) : IsRegion(body, a, b)
          BY <3>2, RegionBegins
        <4>2. Region(body) = a..b
          BY <4>1, RegionIs
        <4> QED BY <1>1, <4>2
      <3> QED BY <3>1, <3>2
    <2> HIDE DEF first
    <2> QED BY <1>2, <2>1, <2>5, <2>6 DEF first
  <1>3. CASE e.op # "append"
    <2> DEFINE n == Len(e.old)
               first == Min(At(body, e.old))
    <2>1. n \in Nat /\ n > 0
      BY <1>1, <1>3 DEF Applies
    <2>2. At(body, e.old) \in SUBSET Nat /\ At(body, e.old) # {}
      <3>1. At(body, e.old) # {}
        BY <1>3 DEF Applies, Unique
      <3>2. At(body, e.old) \subseteq 1..(Len(body) - n + 1)
        BY DEF At
      <3> HIDE DEF n
      <3> QED BY <3>1, <3>2
    <2>3. first \in At(body, e.old)
      BY <2>2, MinIs
    <2>4. first \in 1..(Len(body) - n + 1)
      BY <2>3 DEF At
    <2>5. Patched(body, e) = Spliced(body, first, n, e.new)
      BY <1>3 DEF Patched, Spliced
    <2>6. \A i \in Region(body) : ~(first <= i /\ i < first + n)
      BY <1>3 DEF Applies, Overlaps
    <2>7. Region(body) \subseteq Int
      BY DEF Region
    <2> HIDE DEF first, n
    <2>8. \A i \in Region(body) : i < first \/ first + n <= i
      BY <1>1, <2>1, <2>4, <2>6, <2>7
    <2> QED BY <1>3, <2>1, <2>4, <2>5, <2>8
  <1> QED BY <1>2, <1>3

\* One edit keeps the text of the region.
LEMMA EditKeepsSlow ==
  ASSUME NEW body \in Seq(Tokens), NEW e \in Edits, Applies(body, e), Unmarked(e.new), Region(body) # {}
  PROVE  Region(Patched(body, e)) # {} /\ Slow(Patched(body, e)) = Slow(body)
  <1>1. PICK a, b \in 1..Len(body) : IsRegion(body, a, b)
    BY RegionBegins
  <1>2. Region(body) = a..b /\ Slow(body) = SubSeq(body, a, b)
    BY <1>1, RegionIs
  <1>3. PICK n \in Nat : \E first \in 1..(Len(body) - n + 1) :
           /\ Patched(body, e) = Spliced(body, first, n, e.new)
           /\ \A i \in Region(body) : i < first \/ first + n <= i
           /\ e.op # "append" => n > 0
           /\ e.op = "append" => first = Len(body) + 1
    BY PatchIsSplice
  <1>4. PICK first \in 1..(Len(body) - n + 1) :
           /\ Patched(body, e) = Spliced(body, first, n, e.new)
           /\ \A i \in a..b : i < first \/ first + n <= i
           /\ e.op # "append" => n > 0
           /\ e.op = "append" => first = Len(body) + 1
    BY <1>2, <1>3
  <1>5. e.new \in Seq(Tokens)
    BY DEF Edits
  <1>6. a < b
    BY <1>1 DEF IsRegion
  <1>7. first + n <= a \/ first > b
    <2> SUFFICES ASSUME first + n > a, first <= b PROVE FALSE
      BY <1>6
    <2>1. CASE e.op = "append"
      BY <1>4, <2>1
    <2>2. CASE e.op # "append"
      <3>1. PICK i : i = IF first < a THEN a ELSE first
        OBVIOUS
      <3>2. i \in a..b /\ first <= i /\ i < first + n
        <4>1. /\ a \in Nat /\ b \in Nat /\ a < b /\ first \in Nat /\ n \in Nat /\ n > 0
              /\ first + n > a /\ first <= b
          BY <1>4, <1>6, <2>2
        <4> QED BY <3>1, <4>1
      <3>3. i < first \/ first + n <= i
        BY <1>4, <3>2
      <3>4. i \in Int /\ first \in Int /\ n \in Int
        BY <3>2
      <3> QED BY <3>2, <3>3, <3>4
    <2> QED BY <2>1, <2>2
  <1>8. SameRegion(Spliced(body, first, n, e.new), body, a, b)
    <2>1. PICK new \in Seq(Tokens) : new = e.new
      BY <1>5
    <2>2. Unmarked(new) /\ IsRegion(body, a, b) /\ first \in 1..(Len(body) - n + 1)
      BY <1>1, <2>1
    <2>3. SameRegion(Spliced(body, first, n, new), body, a, b)
      BY <1>7, <2>2, RegionMoves
    <2> QED BY <2>1, <2>3
  <1>9. Spliced(body, first, n, e.new) \in Seq(Tokens)
    BY <1>5, SplicedIs
  <1>10. PICK after \in Seq(Tokens) : after = Patched(body, e)
    BY <1>4, <1>9
  <1>11. PICK c, d : IsRegion(after, c, d) /\ SubSeq(after, c, d) = SubSeq(body, a, b)
    BY <1>4, <1>8, <1>10 DEF SameRegion
  <1>12. Region(after) = c..d /\ Slow(after) = SubSeq(after, c, d) /\ c \in c..d
    <2>1. c \in Nat /\ d \in Nat /\ c < d
      BY <1>11 DEF IsRegion
    <2>2. Region(after) = c..d /\ Slow(after) = SubSeq(after, c, d)
      BY <1>11, RegionIs
    <2> QED BY <2>1, <2>2
  <1> QED BY <1>2, <1>10, <1>11, <1>12

\* One edit after the other, and what is left of a body.
Bodies == [body : Seq(Tokens), applied : Nat]
Edited(done, e) ==
  IF Applies(done.body, e)
  THEN [body |-> Patched(done.body, e), applied |-> done.applied + 1]
  ELSE done

LEMMA EditedIs ==
  ASSUME NEW done \in Bodies, NEW e \in Edits, Unmarked(e.new)
  PROVE  /\ Edited(done, e) \in Bodies
         /\ Region(done.body) # {} =>
              Region(Edited(done, e).body) # {} /\ Slow(Edited(done, e).body) = Slow(done.body)
  <1>1. CASE Applies(done.body, e)
    <2>1. done.body \in Seq(Tokens) /\ done.applied \in Nat /\ e.new \in Seq(Tokens)
      BY DEF Bodies, Edits
    <2>2. Patched(done.body, e) \in Seq(Tokens)
      <3>1. PICK n \in Nat : \E first \in 1..(Len(done.body) - n + 1) :
               Patched(done.body, e) = Spliced(done.body, first, n, e.new)
        BY <1>1, <2>1, PatchIsSplice
      <3>2. PICK first \in 1..(Len(done.body) - n + 1) :
               Patched(done.body, e) = Spliced(done.body, first, n, e.new)
        BY <3>1
      <3> QED BY <2>1, <3>2, SplicedIs
    <2>3. Region(done.body) # {} =>
            Region(Patched(done.body, e)) # {} /\ Slow(Patched(done.body, e)) = Slow(done.body)
      BY <1>1, <2>1, EditKeepsSlow
    <2>4. Edited(done, e) = [body |-> Patched(done.body, e), applied |-> done.applied + 1]
      BY <1>1 DEF Edited
    <2> QED BY <2>1, <2>2, <2>3, <2>4 DEF Bodies
  <1>2. CASE ~Applies(done.body, e)
    BY <1>2 DEF Edited
  <1> QED BY <1>1, <1>2

\* What a fold of the edits does to every set of their places, the last one last.
Folded(g, edits, start, s) ==
  IF s = {} THEN start ELSE Edited(g[s \ {Max(s)}], edits[Max(s)])

IsFold(g, edits, start, S) ==
  /\ g = [s \in SUBSET S |-> g[s]]
  /\ \A s \in SUBSET S : g[s] = Folded(g, edits, start, s)

LEMMA FoldsAgree ==
  ASSUME NEW n \in Nat, NEW edits, NEW start, NEW p \in SUBSET (1..n), NEW q \in SUBSET (1..n),
         NEW g, IsFold(g, edits, start, p), NEW h, IsFold(h, edits, start, q), NEW s \in SUBSET (p \cap q)
  PROVE  g[s] = h[s]
  <1> DEFINE T == {r \in SUBSET (p \cap q) : g[r] # h[r]}
  <1>1. T = {}
    <2> SUFFICES ASSUME T # {} PROVE FALSE
      OBVIOUS
    <2>1. PICK r \in T : \A t \in T : t \subseteq r => t = r
      <3>1. PICK S : S = 1..n
        OBVIOUS
      <3>2. IsFiniteSet(S)
        BY <3>1, UpTo
      <3>3. T \in SUBSET (SUBSET S)
        BY <3>1
      <3> HIDE DEF T
      <3> QED BY <3>2, <3>3, SmallestSubset
    <2>2. g[r] = Folded(g, edits, start, r) /\ h[r] = Folded(h, edits, start, r)
      BY DEF IsFold
    <2>3. r # {}
      BY <2>2 DEF Folded
    <2>4. Max(r) \in r
      <3>1. r \in SUBSET (1..n)
        OBVIOUS
      <3> HIDE DEF T
      <3> QED BY <2>3, <3>1, MaxIs
    <2>5. r \ {Max(r)} \in SUBSET (p \cap q) /\ r \ {Max(r)} \notin T
      BY <2>1, <2>4
    <2>6. g[r \ {Max(r)}] = h[r \ {Max(r)}]
      BY <2>5
    <2>7. g[r] = h[r]
      BY <2>2, <2>6 DEF Folded
    <2> QED BY <2>7
  <1> QED BY <1>1

LEMMA FoldExists ==
  ASSUME NEW n \in Nat, NEW edits, NEW start
  PROVE  \E g : IsFold(g, edits, start, 1..n)
  <1> DEFINE T == {r \in SUBSET (1..n) : ~\E g : IsFold(g, edits, start, r)}
  <1>1. T = {}
    <2> SUFFICES ASSUME T # {} PROVE FALSE
      OBVIOUS
    <2>1. PICK r \in T : \A t \in T : t \subseteq r => t = r
      <3>1. PICK S : S = 1..n
        OBVIOUS
      <3>2. IsFiniteSet(S)
        BY <3>1, UpTo
      <3>3. T \in SUBSET (SUBSET S)
        BY <3>1
      <3> HIDE DEF T
      <3> QED BY <3>2, <3>3, SmallestSubset
    <2>2. r \in SUBSET (1..n) /\ \A t \in SUBSET r : t # r => \E g : IsFold(g, edits, start, t)
      BY <2>1
    <2> DEFINE fold(t) == CHOOSE g : IsFold(g, edits, start, t)
               value(t) == fold(t)[t]
    <2>3. \A t \in SUBSET r : t # r => IsFold(fold(t), edits, start, t)
      BY <2>2
    <2> HIDE DEF fold
    <2> DEFINE g == [t \in SUBSET r |-> IF t # r THEN value(t)
                                       ELSE IF t = {} THEN start
                                       ELSE Edited(value(t \ {Max(t)}), edits[Max(t)])]
    <2>4. ASSUME NEW t \in SUBSET r PROVE g[t] = Folded(g, edits, start, t)
      <3>1. t # {} => Max(t) \in t /\ t \ {Max(t)} \in SUBSET r /\ t \ {Max(t)} # r
        <4>1. t \in SUBSET (1..n)
          BY <2>2
        <4>2. t # {} => Max(t) \in t
          BY <4>1, MaxIs
        <4> QED BY <4>2
      <3>2. t # {} => g[t \ {Max(t)}] = value(t \ {Max(t)})
        BY <3>1
      <3>3. CASE t = r
        BY <3>2, <3>3 DEF Folded
      <3>4. CASE t # r
        <4>1. g[t] = value(t) /\ IsFold(fold(t), edits, start, t)
          BY <2>3, <3>4
        <4>2. value(t) = Folded(fold(t), edits, start, t)
          BY <4>1 DEF IsFold
        <4>3. CASE t = {}
          BY <4>1, <4>2, <4>3 DEF Folded
        <4>4. CASE t # {}
          <5>1. PICK u : u = t \ {Max(t)}
            OBVIOUS
          <5>2. u \in SUBSET (t \cap u) /\ IsFold(fold(u), edits, start, u)
            BY <2>3, <3>1, <4>4, <5>1
          <5>3. t \in SUBSET (1..n) /\ u \in SUBSET (1..n)
            BY <2>2, <5>1
          <5>4. IsFold(fold(t), edits, start, t)
            BY <4>1
          <5>5. PICK ft, fu : ft = fold(t) /\ fu = fold(u) /\ IsFold(ft, edits, start, t)
                              /\ IsFold(fu, edits, start, u)
            BY <5>2, <5>4
          <5>6. ft[u] = fu[u]
            BY <5>2, <5>3, <5>5, FoldsAgree
          <5>7. fold(t)[u] = fold(u)[u]
            BY <5>5, <5>6
          <5> HIDE DEF g
          <5> QED BY <3>2, <4>1, <4>2, <4>4, <5>1, <5>7 DEF Folded
        <4> QED BY <4>3, <4>4
      <3> QED BY <3>3, <3>4
    <2>5. g = [t \in SUBSET r |-> g[t]]
      OBVIOUS
    <2> HIDE DEF g
    <2>6. IsFold(g, edits, start, r)
      BY <2>4, <2>5 DEF IsFold
    <2> QED BY <2>6
  <1> QED BY <1>1

\* What is left of a body after every prefix of the edits.
StillHolds(done, start) ==
  /\ done \in Bodies
  /\ Region(start.body) # {} => Region(done.body) # {} /\ Slow(done.body) = Slow(start.body)

LEMMA FoldKeeps ==
  ASSUME NEW n \in Nat, NEW edits, \A i \in 1..n : edits[i] \in Edits /\ Unmarked(edits[i].new),
         NEW start \in Bodies, NEW g, IsFold(g, edits, start, 1..n)
  PROVE  StillHolds(g[1..n], start)
  <1> DEFINE T == {m \in 0..n : ~StillHolds(g[1..m], start)}
  <1>1. T = {}
    <2> SUFFICES ASSUME T # {} PROVE FALSE
      OBVIOUS
    <2>1. PICK m \in T : \A k \in T : m <= k
      <3>1. T \in SUBSET Nat
        OBVIOUS
      <3> HIDE DEF T
      <3>2. Min(T) \in T /\ \A k \in T : Min(T) <= k
        BY <3>1, MinIs
      <3> QED BY <3>2
    <2>2. m \in 0..n /\ ~StillHolds(g[1..m], start) /\ 1..m \in SUBSET (1..n)
      BY <2>1
    <2>3. g[1..m] = Folded(g, edits, start, 1..m)
      BY <2>2 DEF IsFold
    <2>4. CASE m = 0
      <3>1. 1..m = {}
        BY <2>4
      <3>2. g[1..m] = start
        BY <2>3, <3>1 DEF Folded
      <3> QED BY <2>2, <3>2 DEF StillHolds
    <2>5. CASE m # 0
      <3>1. m \in 1..n /\ m - 1 \in 0..n
        BY <2>2, <2>5
      <3>2. StillHolds(g[1..(m - 1)], start)
        <4>1. m - 1 \notin T
          <5> HIDE DEF T
          <5> QED BY <2>1, <3>1
        <4> QED BY <3>1, <4>1
      <3>3. Max(1..m) = m /\ 1..m # {}
        <4>1. m \in 1..m /\ 1..m \in SUBSET (1..m) /\ m \in Nat
          BY <3>1
        <4>2. Max(1..m) \in 1..m /\ \A x \in 1..m : x <= Max(1..m)
          BY <4>1, MaxIs
        <4> QED BY <4>1, <4>2
      <3>4. (1..m) \ {m} = 1..(m - 1)
        BY <3>1
      <3>5. g[1..m] = Edited(g[1..(m - 1)], edits[m])
        BY <2>3, <3>3, <3>4 DEF Folded
      <3>6. PICK done, e : done = g[1..(m - 1)] /\ e = edits[m]
        OBVIOUS
      <3>7. StillHolds(done, start) /\ done \in Bodies /\ e \in Edits /\ Unmarked(e.new)
        BY <3>1, <3>2, <3>6 DEF StillHolds
      <3>8. /\ Edited(done, e) \in Bodies
            /\ Region(done.body) # {} =>
                 Region(Edited(done, e).body) # {} /\ Slow(Edited(done, e).body) = Slow(done.body)
        BY <3>7, EditedIs
      <3>9. StillHolds(Edited(done, e), start)
        BY <3>7, <3>8 DEF StillHolds
      <3> QED BY <2>2, <3>5, <3>6, <3>9
    <2> QED BY <2>4, <2>5
  <1> QED BY <1>1

Unedited(body) == [body |-> body, applied |-> 0]

LEMMA ApplyEditsFolds ==
  ASSUME NEW body \in Seq(Tokens), NEW proposal \in Seq(Edits),
         NEW edits \in Seq(Edits), edits = SubSeq(proposal, 1, Min({Budget, Len(proposal)}))
  PROVE  \E g : /\ IsFold(g, edits, Unedited(body), 1..Len(edits))
                /\ ApplyEdits(body, proposal) = g[1..Len(edits)]
  <1> DEFINE D == DOMAIN edits
             start == [body |-> body, applied |-> 0]
             Sum(g) == [s \in SUBSET D |->
                          IF s = {} THEN start
                          ELSE LET x == Max(s)
                               IN IF Applies(g[s \ {x}].body, edits[x])
                                  THEN [body |-> Patched(g[s \ {x}].body, edits[x]),
                                        applied |-> g[s \ {x}].applied + 1]
                                  ELSE g[s \ {x}]]
             g0 == CHOOSE g : g = Sum(g)
  <1>1. ApplyEdits(body, proposal) = g0[D]
    BY DEF ApplyEdits, FoldLeft, MapThenFoldSet
  <1>2. D = 1..Len(edits) /\ Len(edits) \in Nat
    OBVIOUS
  <1>3. ASSUME NEW g, IsFold(g, edits, Unedited(body), D) PROVE g = Sum(g)
    <2>1. \A s \in SUBSET D : g[s] = Sum(g)[s]
      BY <1>3 DEF IsFold, Folded, Edited, Unedited
    <2>2. g = [s \in SUBSET D |-> g[s]]
      BY <1>3 DEF IsFold
    <2> QED BY <2>1, <2>2
  <1>4. g0 = Sum(g0)
    <2>1. \E g : g = Sum(g)
      <3> HIDE DEF Sum
      <3> QED BY <1>2, <1>3, FoldExists
    <2> HIDE DEF Sum
    <2> QED BY <2>1
  <1> HIDE DEF g0
  <1>5. IsFold(g0, edits, Unedited(body), D)
    BY <1>4 DEF IsFold, Folded, Edited, Unedited
  <1> QED BY <1>1, <1>2, <1>5

NoMarkers == \A proposal \in Proposals : \A i \in DOMAIN proposal : Unmarked(proposal[i].new)

\* The edits of a proposal that writes no marker keep the text of the region.
LEMMA ApplyEditsKeepsSlow ==
  ASSUME NoMarkers, NEW body \in Seq(Tokens), NEW proposal \in Proposals
  PROVE  /\ ApplyEdits(body, proposal).body \in Seq(Tokens)
         /\ Region(body) # {} => /\ Region(ApplyEdits(body, proposal).body) # {}
                                 /\ Slow(ApplyEdits(body, proposal).body) = Slow(body)
  <1>1. proposal \in Seq(Edits)
    BY SkillAssumption DEF Edits
  <1>2. PICK k \in 0..Len(proposal) : k = Min({Budget, Len(proposal)})
    <2>1. {Budget, Len(proposal)} \in SUBSET Nat
      BY <1>1, SkillAssumption
    <2>2. /\ Min({Budget, Len(proposal)}) \in {Budget, Len(proposal)}
          /\ Min({Budget, Len(proposal)}) <= Len(proposal)
      BY <2>1, MinIs
    <2> QED BY <2>1, <2>2
  <1>3. PICK edits : edits = SubSeq(proposal, 1, k)
    OBVIOUS
  <1>4. edits \in Seq(Edits) /\ Len(edits) = k /\ \A i \in 1..k : edits[i] = proposal[i]
    <2>1. Len(proposal) \in Nat /\ k \in Nat /\ k <= Len(proposal)
      BY <1>1, <1>2
    <2>2. \A i \in 1..k : proposal[i] \in Edits
      BY <1>1, <2>1
    <2>3. SubSeq(proposal, 1, k) = [i \in 1..k |-> proposal[i]]
      BY <1>1, <2>1
    <2> QED BY <1>3, <2>1, <2>2, <2>3
  <1>5. ASSUME NEW i \in 1..Len(edits) PROVE edits[i] \in Edits /\ Unmarked(edits[i].new)
    <2>1. i \in 1..k /\ edits[i] = proposal[i] /\ edits[i] \in Edits
      BY <1>4
    <2>2. DOMAIN proposal = 1..Len(proposal) /\ Len(proposal) \in Nat /\ k <= Len(proposal)
      BY <1>1, <1>2
    <2>3. i \in DOMAIN proposal
      BY <2>1, <2>2
    <2> QED BY <2>1, <2>3 DEF NoMarkers
  <1>6. PICK g : /\ IsFold(g, edits, Unedited(body), 1..Len(edits))
                 /\ ApplyEdits(body, proposal) = g[1..Len(edits)]
    BY <1>1, <1>2, <1>3, <1>4, ApplyEditsFolds
  <1>7. Unedited(body) \in Bodies /\ Unedited(body).body = body
    BY DEF Unedited, Bodies
  <1>8. StillHolds(g[1..Len(edits)], Unedited(body))
    BY <1>4, <1>5, <1>6, <1>7, FoldKeeps
  <1> QED BY <1>6, <1>7, <1>8 DEF StillHolds, Bodies

\* The texts a run works with.
Bodied ==
  /\ base \in [Runs -> Seq(Tokens)]
  /\ cand \in [Runs -> Seq(Tokens)]
  /\ \A r \in Runs : pc[r] \in {"idle", "propose"} => cand[r] = <<>>

RegionInv == BetterInv /\ Bodied /\ RegionIsKept

LEMMA SkillIsBody == ASSUME BetterInv, Bodied PROVE skill \in Seq(Tokens)
  <1>1. better \subseteq Runs
    BY DEF BetterInv, StagedBetter
  <1>2. Skills \cup Rewrites \subseteq Seq(Tokens) /\ <<>> \in Seq(Tokens)
    BY SkillAssumption
  <1> QED BY <1>1, <1>2 DEF BetterInv, OnlyBetterIsAdopted, Bodied

\* What holds a region still holds its text.
LEMMA HoldsOwn ==
  ASSUME NEW body \in Seq(Tokens), Region(body) # {}
  PROVE  Holds(body, Slow(body))
  <1>1. PICK a, b \in 1..Len(body) : IsRegion(body, a, b)
    BY RegionBegins
  <1>2. Slow(body) = SubSeq(body, a, b) /\ a < b
    BY <1>1, RegionIs DEF IsRegion
  <1>3. Len(SubSeq(body, a, b)) = b - a + 1
    BY <1>1, <1>2
  <1>4. a \in At(body, SubSeq(body, a, b))
    <2>1. a \in 1..(Len(body) - (b - a + 1) + 1) /\ a + (b - a + 1) - 1 = b
      BY <1>2
    <2> QED BY <1>3, <2>1 DEF At
  <1> QED BY <1>2, <1>4 DEF Holds

\* A step that moves runs on but starts none and proposes nothing.
LEMMA RegionQuiet ==
  ASSUME RegionInv, base' \in [Runs -> Seq(Tokens)], cand' \in [Runs -> Seq(Tokens)],
         \A r \in Runs : \/ base'[r] = base[r] /\ cand'[r] = cand[r]
                            /\ (pc'[r] \in {"idle", "propose"} => pc[r] \in {"idle", "propose"})
                            /\ (pc'[r] # "ended" => pc[r] # "ended")
                         \/ pc'[r] = "ended"
                         \/ cand'[r] = <<>>
  PROVE  Bodied' /\ RegionIsKept'
  <1>1. Bodied'
    BY DEF RegionInv, Bodied
  <1>2. RegionIsKept'
    BY DEF RegionInv, RegionIsKept
  <1> QED BY <1>1, <1>2

LEMMA RegionStep ==
  ASSUME NoMarkers, RegionInv, [Next]_vars
  PROVE  RegionInv'
  <1>1. BetterInv'
    BY BetterStep DEF RegionInv
  <1>2. /\ <<>> \in Seq(Tokens) /\ pc \in [Runs -> {"idle", "propose", "current", "candidate", "read",
                                                    "write", "fill", "rename", "ended"}]
        /\ base \in [Runs -> Seq(Tokens)] /\ cand \in [Runs -> Seq(Tokens)]
    BY DEF RegionInv, BetterInv, FilesInv, Shape, Bodied
  <1>3. ASSUME NEW r \in Runs, NEW what, Answer(r, what), cand' = cand \/ cand' = [cand EXCEPT ![r] = <<>>]
        PROVE  Bodied' /\ RegionIsKept'
    <2>1. /\ pc' = [pc EXCEPT ![r] = "ended"] /\ base' = [base EXCEPT ![r] = <<>>]
      BY <1>3 DEF Answer, Goto
    <2>2. /\ base' \in [Runs -> Seq(Tokens)] /\ cand' \in [Runs -> Seq(Tokens)] /\ pc'[r] = "ended"
          /\ \A q \in Runs \ {r} : base'[q] = base[q] /\ cand'[q] = cand[q] /\ pc'[q] = pc[q]
      BY <1>2, <1>3, <2>1
    <2> QED BY <2>2, RegionQuiet
  <1>4. ASSUME NEW r \in Runs, NEW place, Goto(r, place), place \notin {"idle", "propose"},
               UNCHANGED <<base, cand>>, pc[r] # "ended"
        PROVE  Bodied' /\ RegionIsKept'
    <2>1. pc'[r] = place /\ \A q \in Runs \ {r} : pc'[q] = pc[q]
      BY <1>2, <1>4 DEF Goto
    <2> QED BY <1>2, <1>4, <2>1, RegionQuiet
  <1>5. ASSUME NEW r \in Runs, Start(r) PROVE Bodied' /\ RegionIsKept'
    <2>1. cand' = cand /\ pc[r] = "idle"
      BY <1>5 DEF Start
    <2>2. CASE Answer(r, "error")
      BY <1>3, <2>1, <2>2
    <2>3. CASE base' = [base EXCEPT ![r] = skill] /\ Goto(r, "propose")
      <3>1. skill \in Seq(Tokens)
        BY SkillIsBody DEF RegionInv
      <3>2. /\ base' \in [Runs -> Seq(Tokens)] /\ \A q \in Runs \ {r} : base'[q] = base[q] /\ pc'[q] = pc[q]
        BY <1>2, <2>3, <3>1 DEF Goto
      <3>3. cand'[r] = <<>>
        BY <2>1 DEF RegionInv, Bodied
      <3> QED BY <1>2, <2>1, <3>2, <3>3, RegionQuiet
    <2> QED BY <1>5, <2>2, <2>3 DEF Start
  <1>6. ASSUME NEW r \in Runs, Propose(r) PROVE Bodied' /\ RegionIsKept'
    <2>1. PICK proposal \in Proposals :
            \/ Answer(r, "error") /\ UNCHANGED cand
            \/ /\ cand' = [cand EXCEPT ![r] = ApplyEdits(base[r], proposal).body]
               /\ Goto(r, "current") /\ base' = base
      BY <1>6 DEF Propose
    <2>2. CASE Answer(r, "error") /\ UNCHANGED cand
      BY <1>3, <2>2
    <2>3. CASE /\ cand' = [cand EXCEPT ![r] = ApplyEdits(base[r], proposal).body]
               /\ Goto(r, "current") /\ base' = base
      <3>1. PICK body, new : body = base[r] /\ body \in Seq(Tokens) /\ new = ApplyEdits(body, proposal).body
        BY <1>2
      <3>2. new \in Seq(Tokens) /\ (Region(body) # {} => Region(new) # {} /\ Slow(new) = Slow(body))
        BY <3>1, ApplyEditsKeepsSlow
      <3>3. /\ cand' \in [Runs -> Seq(Tokens)] /\ cand'[r] = new /\ pc'[r] = "current"
            /\ \A q \in Runs \ {r} : cand'[q] = cand[q] /\ pc'[q] = pc[q]
        BY <1>2, <2>3, <3>1, <3>2 DEF Goto
      <3>4. Bodied'
        BY <1>2, <2>3, <3>3 DEF RegionInv, Bodied
      <3>5. Holds(new, Slow(body))
        <4>1. CASE Region(body) = {}
          BY <4>1 DEF Holds, Slow
        <4>2. CASE Region(body) # {}
          BY <3>2, <4>2, HoldsOwn
        <4> QED BY <4>1, <4>2
      <3>6. RegionIsKept'
        <4> SUFFICES ASSUME NEW q \in Runs, cand'[q] # <<>>, pc'[q] # "ended"
                     PROVE  Holds(cand'[q], Slow(base'[q]))
          BY DEF RegionIsKept
        <4>1. CASE q = r
          BY <2>3, <3>1, <3>3, <3>5, <4>1
        <4>2. CASE q # r
          BY <2>3, <3>3, <4>2 DEF RegionInv, RegionIsKept
        <4> QED BY <4>1, <4>2
      <3> QED BY <3>4, <3>6
    <2> QED BY <2>1, <2>2, <2>3
  <1>7. ASSUME NEW r \in Runs, \/ ReplayCurrent(r) \/ ReplayCandidate(r) \/ ReadRejected(r)
                              \/ OpenTemp(r) \/ FillTemp(r)
        PROVE  Bodied' /\ RegionIsKept'
    <2>1. \E place \in {"candidate", "write", "read", "fill", "rename"} : Goto(r, place)
      BY <1>7 DEF ReplayCurrent, ReplayCandidate, ReadRejected, OpenTemp, FillTemp
    <2>2. UNCHANGED <<base, cand>> /\ pc[r] # "ended"
      BY <1>7 DEF ReplayCurrent, ReplayCandidate, ReadRejected, OpenTemp, FillTemp
    <2> QED BY <1>4, <2>1, <2>2
  <1>8. ASSUME NEW r \in Runs, Rename(r) PROVE Bodied' /\ RegionIsKept'
    <2>1. cand' = cand /\ pc[r] = "rename"
      BY <1>8 DEF Rename
    <2>2. Answer(r, verdict[r]) \/ (Goto(r, "write") /\ base' = base)
      BY <1>8 DEF Rename
    <2> QED BY <1>3, <1>4, <2>1, <2>2
  <1>9. ASSUME NEW r \in Runs, ModelFails(r) \/ WriteFails(r) PROVE Bodied' /\ RegionIsKept'
    BY <1>3, <1>9 DEF ModelFails, WriteFails
  <1>10. ASSUME Restart PROVE Bodied' /\ RegionIsKept'
    <2>1. /\ base' = [r \in Runs |-> <<>>] /\ cand' = cand
          /\ \A r \in Runs : pc'[r] = "ended" \/ (pc[r] = "idle" /\ pc'[r] = "idle")
      BY <1>10 DEF Restart
    <2>2. \A r \in Runs : pc'[r] = "ended" \/ cand'[r] = <<>>
      BY <2>1 DEF RegionInv, Bodied
    <2>3. base' \in [Runs -> Seq(Tokens)] /\ cand' \in [Runs -> Seq(Tokens)]
      BY <1>2, <2>1
    <2> QED BY <2>2, <2>3, RegionQuiet
  <1>11. ASSUME UNCHANGED runVars PROVE Bodied' /\ RegionIsKept'
    <2>1. base' = base /\ cand' = cand /\ pc' = pc
      BY <1>11 DEF runVars
    <2>2. base' \in [Runs -> Seq(Tokens)] /\ cand' \in [Runs -> Seq(Tokens)]
      BY <1>2, <2>1
    <2> QED BY <2>1, <2>2, RegionQuiet
  <1>12. Bodied' /\ RegionIsKept'
    <2>1. CASE \E r \in Runs : Run(r)
      BY <1>5, <1>6, <1>7, <1>8, <1>9, <2>1 DEF Run
    <2>2. CASE ~Restart /\ ~\E r \in Runs : Run(r)
      <3>1. UNCHANGED runVars
        BY <2>2 DEF Next, Adopt, Reload, Drop, Switch, BeginLoad, Load, Insert, UserEdits, vars
      <3> QED BY <1>11, <3>1
    <2> QED BY <1>10, <2>1, <2>2
  <1> QED BY <1>1, <1>12 DEF RegionInv

\* For any skill, any budget and any proposals that write no marker: a candidate holds, word for
\* word, the slow-update region of the body its run started from (apply_edits,
\* overlaps_protected_region; ADR 0011).
THEOREM RegionKept == ASSUME NoMarkers PROVE Spec => []RegionIsKept
  <1>1. Init => RegionInv
    <2> SUFFICES ASSUME Init PROVE RegionInv
      OBVIOUS
    <2>1. BetterInv
      BY BetterInit
    <2>2. Bodied
      <3>1. <<>> \in Seq(Tokens)
        OBVIOUS
      <3> QED BY <3>1 DEF Init, Bodied
    <2>3. RegionIsKept
      BY DEF Init, RegionIsKept
    <2> QED BY <2>1, <2>2, <2>3 DEF RegionInv
  <1>2. RegionInv /\ [Next]_vars => RegionInv'
    BY RegionStep
  <1>3. RegionInv => RegionIsKept
    BY DEF RegionInv
  <1> QED BY <1>1, <1>2, <1>3, PTL DEF Spec
=============================================================================
