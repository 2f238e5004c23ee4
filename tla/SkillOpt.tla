------------------------------ MODULE SkillOpt ------------------------------
(***************************************************************************)
(* The optimization of one skill of a workspace (skill_opt.rs, the         *)
(* commands of lib.rs about it, the panel SkillOptPanel.tsx) and the cache *)
(* of the skills that were found (SkillLoader of skills.rs).               *)
(*                                                                         *)
(* A run reads the skill, asks a model for edits, replays the tasks it     *)
(* held out with the skill as it is and as it would be, and concludes: a   *)
(* better candidate is staged, any other is put on record, and the scores  *)
(* are written.  It is an async command, and the panel lets a second one   *)
(* start once it was closed and opened again.  Adoption is a command of    *)
(* the main thread; the turns of sessions load the skills beside it, and   *)
(* the user may edit the file at any time.                                 *)
(*                                                                         *)
(* The body of a skill is a sequence of tokens, two of which are the       *)
(* markers of a slow-update region; the front matter is no part of it and  *)
(* no edit reaches it.  What a file of a run says is the set of the runs   *)
(* it speaks of.  The commands that stage, record and conclude what the    *)
(* caller says have no caller and are left out.                            *)
(***************************************************************************)
EXTENDS Integers, Sequences, FiniteSets, FiniteSetsExt, SequencesExt

CONSTANTS
  Tokens,
  Open, Close,   \* SLOW_UPDATE_OPEN, SLOW_UPDATE_CLOSE
  Budget,        \* DEFAULT_EDIT_BUDGET
  Skills,        \* what the skill can say at the start
  Rewrites,      \* what the user can make of it
  Proposals,     \* the edits a model can answer with
  Harvests,      \* how many invocations of the skill the last 50 sessions can hold
  Statuses,      \* what the verification agent can find
  Runs,          \* bound: the runs that are started
  Turns,         \* the turns that load the skills
  MaxTimes,      \* bound: how often the user edits the file or the program ends
  None

ASSUME SkillAssumption ==
  /\ {Open, Close} \subseteq Tokens /\ Open # Close
  /\ Budget \in Nat
  /\ Skills \cup Rewrites \subseteq Seq(Tokens)
  /\ Proposals \subseteq Seq([op : {"append", "patch"}, old : Seq(Tokens), new : Seq(Tokens)])
  /\ Harvests \subseteq Nat
  /\ Statuses \subseteq {"pass", "concerns", "fail", "unavailable"}
  /\ "main" \notin Turns
  /\ None \notin Runs

VARIABLES
  \* the files
  skill,     \* .agents/skills/<name>/SKILL.md
  disk,      \* under .gospel/skill-opt/<name>: SKILL.md, report.json, rejected.json
  temp,      \* the temporary file of each, one name for the whole process
  handle,    \* where the file is that a run writes: another may have renamed or removed it
  \* the runs
  pc,
  base,      \* current_skill_md
  cand,      \* the candidate
  held,      \* how many tasks are held out
  scores,    \* of the replay of the skill as it is
  verdict,   \* of the gate
  file,      \* the file it is writing
  seen,      \* the rejections it read
  told,      \* what the command answered
  \* the cache of the skills and those who load it
  cache,
  at,
  got,
  \* history
  better,    \* the runs whose candidate did better where both were graded
  tangled,   \* two runs were at their files at the same time
  last,      \* the last run that went to its files
  excused,   \* the cache may differ from the file
  times

diskVars == <<disk, temp, handle>>
runVars == <<pc, base, cand, held, scores, verdict, file, seen, told, better, tangled, last>>
cacheVars == <<cache, at, got, excused>>
vars == <<skill, diskVars, runVars, cacheVars, times>>

Files == {"staged", "report", "rejected"}
Loaders == {"main"} \cup Turns
Torn == {None}   \* what an interrupted write leaves, which speaks of no run
Empty == {}      \* a file that was truncated, or none: those who read it make no difference
-----------------------------------------------------------------------------
(* Patches *)

\* Where the needle begins.
At(body, needle) ==
  {i \in 1..(Len(body) - Len(needle) + 1) : SubSeq(body, i, i + Len(needle) - 1) = needle}

\* One match, as str::matches counts: it goes on behind a match.
Unique(body, needle) ==
  /\ At(body, needle) # {}
  /\ \A i \in At(body, needle) : i < Min(At(body, needle)) + Len(needle)

\* protected_region_range: from the first opening marker to the first closing one behind it
Region(body) ==
  LET opens == {i \in DOMAIN body : body[i] = Open}
      closes == {i \in DOMAIN body : body[i] = Close /\ \E o \in opens : o < i}
  IN IF closes = {} THEN {} ELSE Min(opens)..Min(closes)

\* overlaps_protected_region
\* A slip: only a match that begins in the region counts.
BeginsInside(body, needle) == Min(At(body, needle)) \in Region(body)
Overlaps(body, needle) ==
  LET first == Min(At(body, needle))
  IN \E i \in Region(body) : first <= i /\ i < first + Len(needle)

\* apply_one_edit says yes.  Insert after x is the patch of x by x and the text, Delete the
\* patch by nothing.
Applies(body, e) ==
  IF e.op = "append" THEN e.new # <<>>
  ELSE /\ e.old # <<>> /\ e.old # e.new
       /\ Unique(body, e.old)
       /\ ~Overlaps(body, e.old)

Patched(body, e) ==
  IF e.op = "append" THEN body \o e.new
  ELSE LET first == Min(At(body, e.old))
       IN SubSeq(body, 1, first - 1) \o e.new \o SubSeq(body, first + Len(e.old), Len(body))

\* apply_edits: the body, and how many edits were applied.  The budget counts skipped ones too.
ApplyEdits(body, proposal) ==
  LET Next1(done, e) ==
        IF Applies(done.body, e)
        THEN [body |-> Patched(done.body, e), applied |-> done.applied + 1]
        ELSE done
  IN FoldLeft(Next1, [body |-> body, applied |-> 0],
              SubSeq(proposal, 1, Min({Budget, Len(proposal)})))
-----------------------------------------------------------------------------
(* The gate *)

\* split_skill_tasks: the last fifth is held out, one at least, of two tasks or more.
HeldOut(n) == IF n < 2 THEN 0 ELSE Max({n \div 5, 1})

\* score_verification, in halves
Score(status) == CASE status = "pass" -> 2 [] status = "concerns" -> 1 [] OTHER -> 0

\* paired_scores and evaluate_selection_gate.  The two means are over the same number of pairs.
\* A slip: a tie is enough.
GateWithTies(current, candidate) ==
  LET Graded == {i \in DOMAIN current : "unavailable" \notin {current[i], candidate[i]}}
      Total(statuses) == MapThenSumSet(LAMBDA i : Score(statuses[i]), Graded)
  IN Graded # {} /\ Total(candidate) >= Total(current)
Gate(current, candidate) ==
  LET Graded == {i \in DOMAIN current : "unavailable" \notin {current[i], candidate[i]}}
      Total(statuses) == MapThenSumSet(LAMBDA i : Score(statuses[i]), Graded)
  IN Graded # {} /\ Total(candidate) > Total(current)
-----------------------------------------------------------------------------
Init ==
  /\ skill \in Skills
  /\ disk = [f \in Files |-> {}]
  /\ temp = [f \in Files |-> None]
  /\ handle = [r \in Runs |-> "none"]
  /\ pc = [r \in Runs |-> "idle"]
  /\ base = [r \in Runs |-> <<>>]
  /\ cand = [r \in Runs |-> <<>>]
  /\ held = [r \in Runs |-> 0]
  /\ scores = [r \in Runs |-> <<>>]
  /\ verdict = [r \in Runs |-> "none"]
  /\ file = [r \in Runs |-> "report"]
  /\ seen = [r \in Runs |-> {}]
  /\ told = [r \in Runs |-> "nothing"]
  /\ better = {}
  /\ tangled = FALSE
  /\ last = None
  /\ cache = None
  /\ at = [l \in Loaders |-> "idle"]
  /\ got = [l \in Loaders |-> None]
  /\ excused = FALSE
  /\ times = 0
-----------------------------------------------------------------------------
(* A run *)

Goto(r, place) == pc' = [pc EXCEPT ![r] = place]

\* The command answers.  What the run held is gone, but for the candidate its files speak of.
Answer(r, what) ==
  /\ Goto(r, "ended")
  /\ told' = [told EXCEPT ![r] = what]
  /\ base' = [base EXCEPT ![r] = <<>>]
  /\ held' = [held EXCEPT ![r] = 0]
  /\ scores' = [scores EXCEPT ![r] = <<>>]
  /\ verdict' = [verdict EXCEPT ![r] = "none"]
  /\ file' = [file EXCEPT ![r] = "report"]
  /\ seen' = [seen EXCEPT ![r] = {}]

AtFiles(r) == pc[r] \in {"read", "write", "fill", "rename"}

\* The edits of a run that has a candidate are about the body it read at the start.
Start(r) ==
  /\ pc[r] = "idle"
  /\ \E n \in Harvests :
       IF HeldOut(n) = 0
       THEN Answer(r, "error")
       ELSE /\ base' = [base EXCEPT ![r] = skill]
            /\ held' = [held EXCEPT ![r] = HeldOut(n)]
            /\ Goto(r, "propose")
            /\ UNCHANGED <<told, scores, verdict, file, seen>>
  /\ UNCHANGED <<skill, diskVars, cand, better, tangled, last, cacheVars, times>>

\* Without an edit that applies no task is replayed.
Propose(r) ==
  /\ pc[r] = "propose"
  /\ \E proposal \in Proposals :
       LET done == ApplyEdits(base[r], proposal)
       IN IF done.applied = 0
          THEN Answer(r, "error") /\ UNCHANGED cand
          ELSE /\ cand' = [cand EXCEPT ![r] = done.body]
               /\ Goto(r, "current")
               /\ UNCHANGED <<told, base, held, scores, verdict, file, seen>>
  /\ UNCHANGED <<skill, diskVars, better, tangled, last, cacheVars, times>>

Replays(r) == [1..held[r] -> Statuses]

ReplayCurrent(r) ==
  /\ pc[r] = "current"
  /\ \E statuses \in Replays(r) : scores' = [scores EXCEPT ![r] = statuses]
  /\ Goto(r, "candidate")
  /\ UNCHANGED <<skill, diskVars, base, cand, held, verdict, file, seen, told, better, tangled,
                 last, cacheVars, times>>

\* A tally of the tasks both replays of which were graded, one task after the other.
Gain(current, candidate) ==
  LET graded == {i \in DOMAIN current : current[i] # "unavailable" /\ candidate[i] # "unavailable"}
  IN MapThenSumSet(LAMBDA i : Score(candidate[i]) - Score(current[i]), graded)

\* The candidate is replayed and the gate decides: a better one is staged, any other recorded.
ReplayCandidate(r) ==
  /\ pc[r] = "candidate"
  /\ \E statuses \in Replays(r) :
       /\ better' = IF Gain(scores[r], statuses) > 0 THEN better \cup {r} ELSE better
       /\ IF Gate(scores[r], statuses)
          THEN /\ verdict' = [verdict EXCEPT ![r] = "accept"]
               /\ file' = [file EXCEPT ![r] = "staged"]
               /\ Goto(r, "write")
          ELSE /\ verdict' = [verdict EXCEPT ![r] = "reject"]
               /\ file' = [file EXCEPT ![r] = "rejected"]
               /\ Goto(r, "read")
  /\ scores' = [scores EXCEPT ![r] = <<>>]
  /\ last' = r
  /\ tangled' = (tangled \/ \E q \in Runs \ {r} : AtFiles(q))
  /\ UNCHANGED <<skill, diskVars, base, cand, held, seen, told, cacheVars, times>>

\* A model cannot be reached, or its edits cannot be parsed.
ModelFails(r) ==
  /\ pc[r] \in {"propose", "current", "candidate"}
  /\ Answer(r, "error")
  /\ cand' = [cand EXCEPT ![r] = <<>>]
  /\ UNCHANGED <<skill, diskVars, better, tangled, last, cacheVars, times>>

\* record_rejected_edits takes a file that cannot be read for an empty one.
ReadRejected(r) ==
  /\ pc[r] = "read"
  /\ seen' = [seen EXCEPT ![r] = IF disk["rejected"] = Torn THEN {} ELSE disk["rejected"]]
  /\ Goto(r, "write")
  /\ UNCHANGED <<skill, diskVars, base, cand, held, scores, verdict, file, told, better, tangled,
                 last, cacheVars, times>>

Content(r) == IF file[r] = "rejected" THEN seen[r] \cup {r} ELSE {r}

\* atomic_write: fs::write truncates the temporary file and then writes it.  The file has the id of
\* the process in its name, so two runs share it, and one may rename what the other still writes.
OpenTemp(r) ==
  /\ pc[r] = "write"
  /\ temp' = [temp EXCEPT ![file[r]] = Empty]
  /\ handle' = [handle EXCEPT ![r] = "temp"]
  /\ Goto(r, "fill")
  /\ UNCHANGED <<skill, disk, base, cand, held, scores, verdict, file, seen, told, better, tangled,
                 last, cacheVars, times>>

\* The file that run r has open comes to hold one of some contents, wherever it is, and is closed.
Fills(r, contents) ==
  /\ temp' \in IF handle[r] = "temp" THEN {[temp EXCEPT ![file[r]] = c] : c \in contents} ELSE {temp}
  /\ disk' \in IF handle[r] = "disk" THEN {[disk EXCEPT ![file[r]] = c] : c \in contents} ELSE {disk}
  /\ handle' = [handle EXCEPT ![r] = "none"]

Held(r) == IF handle[r] = "disk" THEN disk[file[r]] ELSE temp[file[r]]

\* Two runs that write the same file may leave a mixture.
FillTemp(r) ==
  /\ pc[r] = "fill"
  /\ Fills(r, {Content(r)} \cup (IF Held(r) = Empty THEN {} ELSE {Torn}))
  /\ Goto(r, "rename")
  /\ UNCHANGED <<skill, base, cand, held, scores, verdict, file, seen, told, better, tangled,
                 last, cacheVars, times>>

\* The temporary file of f is renamed or removed: a run that has it open goes on writing it there,
\* and one that wrote what was on disk writes nothing that can be found.
Shifts(f, place) ==
  handle' = [q \in Runs |-> CASE file[q] = f /\ handle[q] = "temp" -> place
                              [] file[q] = f /\ handle[q] = place -> "gone"
                              [] OTHER -> handle[q]]

\* After the first file the scores are written, and then the command answers.
\* A slip: the scores are only written for a candidate that was staged.
RenameForgetful(r) ==
  /\ pc[r] = "rename" /\ temp[file[r]] # None
  /\ disk' = [disk EXCEPT ![file[r]] = temp[file[r]]]
  /\ temp' = [temp EXCEPT ![file[r]] = None]
  /\ Shifts(file[r], "disk")
  /\ IF file[r] # "staged"
     THEN Answer(r, verdict[r])
     ELSE /\ file' = [file EXCEPT ![r] = "report"]
          /\ Goto(r, "write")
          /\ UNCHANGED <<told, base, held, scores, verdict, seen>>
  /\ UNCHANGED <<skill, cand, better, tangled, last, cacheVars, times>>
Rename(r) ==
  /\ pc[r] = "rename" /\ temp[file[r]] # None
  /\ disk' = [disk EXCEPT ![file[r]] = temp[file[r]]]
  /\ temp' = [temp EXCEPT ![file[r]] = None]
  /\ Shifts(file[r], "disk")
  /\ IF file[r] = "report"
     THEN Answer(r, verdict[r])
     ELSE /\ file' = [file EXCEPT ![r] = "report"]
          /\ Goto(r, "write")
          /\ UNCHANGED <<told, base, held, scores, verdict, seen>>
  /\ UNCHANGED <<skill, cand, better, tangled, last, cacheVars, times>>

\* A write that fails may leave some of it behind, a rename that fails takes it away.  It fails
\* also when another run has renamed the file they share.
WriteFails(r) ==
  /\ \/ pc[r] \in {"read", "write"} /\ UNCHANGED diskVars
     \/ pc[r] = "fill" /\ Fills(r, {Held(r), Torn})
     \/ /\ pc[r] = "rename"
        /\ temp' = [temp EXCEPT ![file[r]] = None]
        /\ Shifts(file[r], "gone")
        /\ UNCHANGED disk
  /\ Answer(r, "error")
  /\ UNCHANGED <<skill, cand, better, tangled, last, cacheVars, times>>
-----------------------------------------------------------------------------
(* The main thread, the turns and the user *)

Moves(l, place) == at' = [at EXCEPT ![l] = place]

\* What adopt_skill takes the staged document for.  It only validates the front matter, which a
\* document that was cut off behind it still has.
Staged == IF disk["staged"] = Torn THEN {<<>>} ELSE {cand[r] : r \in disk["staged"]}

\* adopt_staged_skill.  The cache is dropped after the file is written.
\* A slip: it is only loaded again.
AdoptWithoutDrop ==
  /\ at["main"] = "idle"
  /\ skill' \in Staged
  /\ Moves("main", "load")
  /\ UNCHANGED <<diskVars, runVars, cache, got, excused, times>>
Adopt ==
  /\ at["main"] = "idle"
  /\ skill' \in Staged
  /\ Moves("main", "drop")
  /\ UNCHANGED <<diskVars, runVars, cache, got, excused, times>>

\* reload_skills
Reload ==
  /\ at["main"] = "idle"
  /\ Moves("main", "drop")
  /\ UNCHANGED <<skill, diskVars, runVars, cache, got, excused, times>>

\* list_skills, and load_skills of a turn
BeginLoad(l) ==
  /\ at[l] = "idle"
  /\ Moves(l, "load")
  /\ UNCHANGED <<skill, diskVars, runVars, cache, got, excused, times>>

\* SkillLoader::invalidate
Drop ==
  /\ at["main"] = "drop"
  /\ cache' = None
  /\ excused' = FALSE
  /\ Moves("main", "load")
  /\ UNCHANGED <<skill, diskVars, runVars, got, times>>

\* set_active_workspace and remove_workspace, which do not load.
Switch ==
  /\ at["main"] = "idle"
  /\ cache' = None
  /\ excused' = FALSE
  /\ UNCHANGED <<skill, diskVars, runVars, at, got, times>>

\* SkillLoader::load: the lock is released between the look into the cache and the insertion.
Load(l) ==
  /\ at[l] = "load"
  /\ IF cache # None
     THEN Moves(l, "idle") /\ UNCHANGED got
     ELSE Moves(l, "insert") /\ got' = [got EXCEPT ![l] = skill]
  /\ UNCHANGED <<skill, diskVars, runVars, cache, excused, times>>

Insert(l) ==
  /\ at[l] = "insert"
  /\ cache' = got[l]
  /\ excused' = (excused \/ (l \in Turns /\ got[l] # skill))
  /\ got' = [got EXCEPT ![l] = None]
  /\ Moves(l, "idle")
  /\ UNCHANGED <<skill, diskVars, runVars, times>>

UserEdits ==
  /\ times < MaxTimes
  /\ times' = times + 1
  /\ skill' \in Rewrites
  /\ excused' = TRUE
  /\ UNCHANGED <<diskVars, runVars, cache, at, got>>

\* The program ends and starts again, with another process id.
Restart ==
  /\ times < MaxTimes
  /\ times' = times + 1
  /\ pc' = [r \in Runs |-> IF pc[r] = "idle" THEN "idle" ELSE "ended"]
  /\ base' = [r \in Runs |-> <<>>]
  /\ held' = [r \in Runs |-> 0]
  /\ scores' = [r \in Runs |-> <<>>]
  /\ verdict' = [r \in Runs |-> "none"]
  /\ file' = [r \in Runs |-> "report"]
  /\ seen' = [r \in Runs |-> {}]
  /\ temp' = [f \in Files |-> None]
  /\ handle' = [r \in Runs |-> "none"]
  /\ cache' = None
  /\ at' = [l \in Loaders |-> "idle"]
  /\ got' = [l \in Loaders |-> None]
  /\ excused' = FALSE
  /\ UNCHANGED <<skill, disk, cand, told, better, tangled, last>>
-----------------------------------------------------------------------------
Run(r) ==
  \/ Start(r) \/ Propose(r) \/ ReplayCurrent(r) \/ ReplayCandidate(r) \/ ModelFails(r)
  \/ ReadRejected(r) \/ OpenTemp(r) \/ FillTemp(r) \/ Rename(r) \/ WriteFails(r)

Next ==
  \/ \E r \in Runs : Run(r)
  \/ Adopt \/ Reload \/ Drop \/ Switch
  \/ \E l \in Loaders : BeginLoad(l) \/ Load(l) \/ Insert(l)
  \/ UserEdits \/ Restart

Spec == Init /\ [][Next]_vars
-----------------------------------------------------------------------------
(* Properties *)

\* What the panel offers to adopt, and what the skill says unless the user wrote it, is the
\* candidate of a run that did better on held-out tasks, whatever runs share the temporary file,
\* fail half way or are cut off.  A part of one takes two runs at their files together.
OnlyBetterIsAdopted ==
  /\ disk["staged"] = Torn => tangled
  /\ disk["staged"] # Torn => disk["staged"] \subseteq better
  /\ \/ skill \in Skills \cup Rewrites \cup {cand[r] : r \in better}
     \/ skill = <<>> /\ tangled

\* What a command answered stands while no two runs were at their files together: a rejection
\* it reported is on record, and until another run goes to its files the panel shows
\* the candidate that was accepted, with its own scores.
AnswersStand ==
  ~tangled =>
    /\ \A r \in Runs : told[r] = "reject" => r \in disk["rejected"]
    /\ last # None =>
         /\ told[last] = "accept" => disk["staged"] = {last}
         /\ told[last] \in {"accept", "reject"} => disk["report"] = {last}

\* The skills a turn is given are those on disk, but for edits from outside and for a turn that
\* read the directory before an adoption and filled the cache after it; a reload makes it good.
CacheIsFresh ==
  at["main"] = "drop" \/ excused \/ cache \in {None, skill}

\* The text of the slow-update region.
Slow(body) ==
  IF Region(body) = {} THEN <<>> ELSE SubSeq(body, Min(Region(body)), Max(Region(body)))

Holds(body, text) == text = <<>> \/ At(body, text) # {}

\* ADR 0011: "Step-level edits cannot overwrite a fenced slow-update region."  A candidate
\* still holds the region of the body its run started from, through any edits that write no
\* marker.  It fails with edits that do: a new pair takes the place of the one it stands before.
RegionIsKept ==
  \A r \in Runs : cand[r] # <<>> /\ pc[r] # "ended" => Holds(cand[r], Slow(base[r]))
=============================================================================
